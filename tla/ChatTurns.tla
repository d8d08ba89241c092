----------------------------- MODULE ChatTurns -----------------------------
(***************************************************************************)
(* The turns of one chat session: the chat_turns rows, the ChatController  *)
(* of the session with its lock, its registry of live turns and its cache  *)
(* of finished streams, the session buffer, and the two kinds of request   *)
(* that meet in it: message streams, which the lock serialises, and        *)
(* cancellations, which never take it.                                     *)
(*                                                                         *)
(* A step is one SQL statement or one stretch of code between awaits.  A   *)
(* key is an idempotency key and, the row being unique by it, the turn too *)
(* (a key stands for one message, so the conflict errors do not arise).    *)
(* The activities of a turn are the number of transitions recorded so far; *)
(* 0 stands for those of a terminal turn, which a reopening replaces.      *)
(***************************************************************************)
EXTENDS Naturals

CONSTANTS
    Keys,     \* idempotency keys of the session's messages
    TaskKeys, \* those whose message explicitly asks for a task
    Streams,  \* message requests a client may have open
    Cancels,  \* cancel requests a client may have open
    Records,  \* activity transitions recorded before the reply starts
    Faults,   \* the kinds of fault a run considers
    None      \* nobody, no key

FaultKinds == {"turn_write", "cancel_write", "crash"}

ASSUME ConstantsAssumption ==
    /\ TaskKeys \subseteq Keys
    /\ Records \in Nat \ {0}
    /\ Faults \subseteq FaultKinds
    /\ None \notin Keys \cup Streams

TurnStatus == {"absent", "generating", "completed", "failed", "cancelled"}
Turn == [status : TurnStatus, trail : 0..(Records + 1)]
NoTurn == [status |-> "absent", trail |-> 0]
NewTurn == [status |-> "generating", trail |-> 0]

\* How a stream ended for its client: a completed event, an error event,
\* silence, or an exception that breaks the event stream.
Ended == {"answered", "refused", "stopped", "raised"}
Holding == {"begin", "reopen", "adopt", "started", "understand", "record",
            "recorded", "reply", "failing", "failed", "draft", "drafted",
            "settle", "persist", "persisted", "finish", "rewrite", "replay"}
StreamPc == {"idle", "wait"} \cup Holding \cup Ended

VARIABLES
    row,        \* the chat_turns row of a key
    registry,   \* _turns_by_id: the status of the turn last registered
    cancelled,  \* _cancelled_turn_ids
    cached,     \* keys of _completed
    parked,     \* keys of the settler's _pending episodes
    remembered, \* answers of a turn appended to the buffer, saturating at 2
    holder,     \* the stream that has _turn_lock, or None
    pc,         \* where a stream stands
    key,        \* the key of its request, None between requests
    turn,       \* the turn of its journal
    owing,      \* streams whose pending_task_episode is set
    cancelPc,   \* where a cancel request stands
    cancelKey   \* the turn it cancels

processVars == <<registry, cancelled, cached, parked, remembered, holder>>
cancelVars == <<cancelPc, cancelKey>>
vars == <<row, processVars, pc, key, turn, owing, cancelVars>>

TypeOK ==
    /\ row \in [Keys -> Turn]
    /\ registry \in [Keys -> TurnStatus]
    /\ cancelled \subseteq Keys /\ cached \subseteq Keys /\ parked \subseteq Keys
    /\ remembered \in [Keys -> 0..2]
    /\ holder \in Streams \cup {None}
    /\ pc \in [Streams -> StreamPc]
    /\ key \in [Streams -> Keys \cup {None}]
    /\ turn \in [Streams -> Turn]
    /\ owing \subseteq Streams
    /\ cancelPc \in [Cancels -> {"idle", "write", "written"}]
    /\ cancelKey \in [Cancels -> Keys \cup {None}]

Init ==
    /\ row = [k \in Keys |-> NoTurn]
    /\ registry = [k \in Keys |-> "absent"]
    /\ cancelled = {} /\ cached = {} /\ parked = {}
    /\ remembered = [k \in Keys |-> 0]
    /\ holder = None
    /\ pc = [s \in Streams |-> "idle"]
    /\ key = [s \in Streams |-> None]
    /\ turn = [s \in Streams |-> NoTurn]
    /\ owing = {}
    /\ cancelPc = [c \in Cancels |-> "idle"]
    /\ cancelKey = [c \in Cancels |-> None]

----------------------------------------------------------------------------
(* The lock, and what a stream finds under it *)

Goto(s, at) == pc' = [pc EXCEPT ![s] = at]

\* The generator is left: async with releases the lock, its locals are gone.
Leave(s, how) ==
    /\ Goto(s, how)
    /\ holder' = IF holder = s THEN None ELSE holder
    /\ key' = [key EXCEPT ![s] = None]
    /\ turn' = [turn EXCEPT ![s] = NoTurn]
    /\ owing' = owing \ {s}

\* The guard watches the explicit cancellations of the turn; the client going
\* away is Disconnect.
Tripped(s) == key[s] \in cancelled

\* A message, or its retry with the same key, waits for the session's lock.
Submit(s, k) ==
    /\ pc[s] \in {"idle"} \cup Ended
    /\ Goto(s, "wait")
    /\ key' = [key EXCEPT ![s] = k]
    /\ UNCHANGED <<row, processVars, turn, owing, cancelVars>>

\* Under the lock: an episode write left behind by an earlier request is
\* retried, a finished stream is replayed, anything else becomes a turn.
Acquire(s) ==
    /\ pc[s] = "wait" /\ holder = None
    /\ holder' = s
    /\ \/ key[s] \in parked /\ Goto(s, "rewrite")
       \/ key[s] \in cached \ parked /\ Goto(s, "replay")
       \/ key[s] \notin cached \cup parked /\ Goto(s, "begin")
    /\ UNCHANGED <<row, registry, cancelled, cached, parked, remembered,
                   key, turn, owing, cancelVars>>

\* The settler's replay: the write succeeds or is rejected, and is forgotten,
\* or the store is still unavailable.
Rewrite(s) ==
    /\ pc[s] = "rewrite"
    /\ parked' \in {parked, parked \ {key[s]}}
    /\ Goto(s, "replay")
    /\ UNCHANGED <<row, registry, cancelled, cached, remembered, holder,
                   key, turn, owing, cancelVars>>

Replay(s) ==
    /\ pc[s] = "replay"
    /\ Leave(s, "answered")
    /\ UNCHANGED <<row, registry, cancelled, cached, parked, remembered, cancelVars>>

----------------------------------------------------------------------------
(* Beginning a turn *)

\* Mutant: a retry reopens a completed turn too.
BeginReopens(s) ==
    LET k == key[s]
        found == IF row[k].status = "absent" THEN NewTurn ELSE row[k]
    IN  /\ pc[s] = "begin"
        /\ row' = [row EXCEPT ![k] = found]
        /\ turn' = [turn EXCEPT ![s] = found]
        /\ Goto(s, IF found.status = "generating" THEN "adopt" ELSE "reopen")
        /\ UNCHANGED <<processVars, key, owing, cancelVars>>

\* begin_turn inserts the row or returns the one of an earlier attempt, which
\* is reopened unless it is completed or was left generating.
Begin(s) ==
    LET k == key[s]
        found == IF row[k].status = "absent" THEN NewTurn ELSE row[k]
    IN  /\ pc[s] = "begin"
        /\ row' = [row EXCEPT ![k] = found]
        /\ turn' = [turn EXCEPT ![s] = found]
        /\ Goto(s, IF found.status \in {"generating", "completed"}
                   THEN "adopt" ELSE "reopen")
        /\ UNCHANGED <<processVars, key, owing, cancelVars>>

BeginFails(s) ==
    /\ "turn_write" \in Faults
    /\ pc[s] = "begin"
    /\ Leave(s, "refused")
    /\ UNCHANGED <<row, registry, cancelled, cached, parked, remembered, cancelVars>>

Reopen(s) ==
    /\ pc[s] = "reopen"
    /\ row' = [row EXCEPT ![key[s]] = NewTurn]
    /\ turn' = [turn EXCEPT ![s] = NewTurn]
    /\ Goto(s, "adopt")
    /\ UNCHANGED <<processVars, key, owing, cancelVars>>

\* Nothing catches a failure of that update.
ReopenFails(s) ==
    /\ "turn_write" \in Faults
    /\ pc[s] = "reopen"
    /\ Leave(s, "raised")
    /\ UNCHANGED <<row, registry, cancelled, cached, parked, remembered, cancelVars>>

\* TurnJournal's constructor registers the turn; the started event is yielded.
Adopt(s) ==
    /\ pc[s] = "adopt"
    /\ registry' = [registry EXCEPT ![key[s]] = turn[s].status]
    /\ Goto(s, "started")
    /\ UNCHANGED <<row, cancelled, cached, parked, remembered, holder,
                   key, turn, owing, cancelVars>>

\* Mutant: the replay of a durable answer enters the buffer again.
ReplayRemembers(s) ==
    /\ pc[s] = "started" /\ ~Tripped(s)
    /\ turn[s].status = "completed"
    /\ cached' = cached \cup {key[s]}
    /\ remembered' = [remembered EXCEPT ![key[s]] = IF @ = 2 THEN 2 ELSE @ + 1]
    /\ Leave(s, "answered")
    /\ UNCHANGED <<row, registry, cancelled, parked, cancelVars>>

\* A durable answer is replayed and cached, without generating or remembering.
ReplayCompleted(s) ==
    /\ pc[s] = "started" /\ ~Tripped(s)
    /\ turn[s].status = "completed"
    /\ cached' = cached \cup {key[s]}
    /\ Leave(s, "answered")
    /\ UNCHANGED <<row, registry, cancelled, parked, remembered, cancelVars>>

Route(s) ==
    /\ pc[s] = "started" /\ ~Tripped(s)
    /\ turn[s].status # "completed"
    /\ Goto(s, "understand")
    /\ UNCHANGED <<row, processVars, key, turn, owing, cancelVars>>

\* A tripped guard ends the stream without an event.
Stop(s) ==
    /\ pc[s] \in {"started", "reply"} /\ Tripped(s)
    /\ Leave(s, "stopped")
    /\ UNCHANGED <<row, registry, cancelled, cached, parked, remembered, cancelVars>>

----------------------------------------------------------------------------
(* The journal *)

\* record() transitions the journal's own snapshot and writes the whole turn.
\* A write that fails is logged and the snapshot advances all the same.
Record(s) ==
    LET updated == [turn[s] EXCEPT !.trail = @ + 1]
    IN  /\ \/ pc[s] = "understand" /\ turn[s].trail = 0
           \/ pc[s] = "record"
        /\ turn' = [turn EXCEPT ![s] = updated]
        /\ \/ row' = [row EXCEPT ![key[s]] = updated]
           \/ "turn_write" \in Faults /\ UNCHANGED row
        /\ Goto(s, "recorded")
        /\ UNCHANGED <<processVars, key, owing, cancelVars>>

\* transition_activity_snapshot refuses to complete UNDERSTANDING_REQUEST twice,
\* and nothing catches it: the row of an interrupted attempt kept its trail.
RecordRefused(s) ==
    /\ pc[s] = "understand" /\ turn[s].trail > 0
    /\ Leave(s, "raised")
    /\ UNCHANGED <<row, registry, cancelled, cached, parked, remembered, cancelVars>>

AfterRecord(trail) ==
    CASE trail < Records -> "record"
      [] trail = Records -> "reply"
      [] OTHER           -> "persist"

Recorded(s) ==
    /\ pc[s] = "recorded"
    /\ registry' = [registry EXCEPT ![key[s]] = turn[s].status]
    /\ Goto(s, AfterRecord(turn[s].trail))
    /\ UNCHANGED <<row, cancelled, cached, parked, remembered, holder,
                   key, turn, owing, cancelVars>>

----------------------------------------------------------------------------
(* The reply *)

\* The reply is complete: a task turn is saved as a draft and settled, any
\* other, and one answered without enough evidence, records its last activity.
Reply(s) ==
    /\ pc[s] = "reply" /\ ~Tripped(s)
    /\ \/ Goto(s, "record")
       \/ key[s] \in TaskKeys /\ Goto(s, "draft")
    /\ UNCHANGED <<row, processVars, key, turn, owing, cancelVars>>

\* The provider is unavailable or its reply invalid or empty.  _fail_turn
\* registers the failure before it writes it.
ReplyFails(s) ==
    /\ pc[s] = "reply"
    /\ registry' = [registry EXCEPT ![key[s]] = "failed"]
    /\ Goto(s, "failing")
    /\ UNCHANGED <<row, cancelled, cached, parked, remembered, holder,
                   key, turn, owing, cancelVars>>

\* Mutant: the failure leaves the lock taken.
FailHoldsLock(s) ==
    /\ pc[s] = "failed"
    /\ registry' = [registry EXCEPT ![key[s]] = "failed"]
    /\ Goto(s, "refused")
    /\ UNCHANGED <<row, cancelled, cached, parked, remembered, holder,
                   key, turn, owing, cancelVars>>

FailWrite(s) ==
    /\ pc[s] = "failing"
    /\ \/ row' = [row EXCEPT ![key[s]] = [status |-> "failed", trail |-> 0]]
       \/ "turn_write" \in Faults /\ UNCHANGED row
    /\ Goto(s, "failed")
    /\ UNCHANGED <<processVars, key, turn, owing, cancelVars>>

Fail(s) ==
    /\ pc[s] = "failed"
    /\ registry' = [registry EXCEPT ![key[s]] = "failed"]
    /\ Leave(s, "refused")
    /\ UNCHANGED <<row, cancelled, cached, parked, remembered, cancelVars>>

----------------------------------------------------------------------------
(* Completion *)

\* _persist_completed_turn of a task turn, still generating.
Draft(s) ==
    /\ pc[s] = "draft"
    /\ row' = [row EXCEPT ![key[s]] = turn[s]]
    /\ Goto(s, "drafted")
    /\ UNCHANGED <<processVars, key, turn, owing, cancelVars>>

Drafted(s) ==
    /\ pc[s] = "drafted"
    /\ registry' = [registry EXCEPT ![key[s]] = turn[s].status]
    /\ Goto(s, "settle")
    /\ UNCHANGED <<row, cancelled, cached, parked, remembered, holder,
                   key, turn, owing, cancelVars>>

\* The episode is written, there is none or it is rejected, or its store is
\* unavailable and the write stays owed.
Settle(s) ==
    /\ pc[s] = "settle"
    /\ owing' \in {owing, owing \cup {s}}
    /\ Goto(s, "record")
    /\ UNCHANGED <<row, processVars, key, turn, cancelVars>>

Persist(s) ==
    LET answer == [turn[s] EXCEPT !.status = "completed"]
    IN  /\ pc[s] = "persist"
        /\ row' = [row EXCEPT ![key[s]] = answer]
        /\ turn' = [turn EXCEPT ![s] = answer]
        /\ Goto(s, "persisted")
        /\ UNCHANGED <<processVars, key, owing, cancelVars>>

\* Mutant: a refused write is logged, and the turn goes on as persisted.
PersistShrugs(s) ==
    /\ "turn_write" \in Faults
    /\ pc[s] \in {"draft", "persist"}
    /\ Goto(s, IF pc[s] = "draft" THEN "drafted" ELSE "persisted")
    /\ UNCHANGED <<row, processVars, key, turn, owing, cancelVars>>

\* TurnAborted: the error event is all that is left of the answer.
PersistFails(s) ==
    /\ "turn_write" \in Faults
    /\ pc[s] \in {"draft", "persist"}
    /\ Leave(s, "refused")
    /\ UNCHANGED <<row, registry, cancelled, cached, parked, remembered, cancelVars>>

Remember(s) ==
    /\ pc[s] = "persisted"
    /\ remembered' = [remembered EXCEPT ![key[s]] = IF @ = 2 THEN 2 ELSE @ + 1]
    /\ registry' = [registry EXCEPT ![key[s]] = turn[s].status]
    /\ Goto(s, "finish")
    /\ UNCHANGED <<row, cancelled, cached, parked, holder,
                   key, turn, owing, cancelVars>>

Finish(s) ==
    /\ pc[s] = "finish"
    /\ cached' = cached \cup {key[s]}
    /\ parked' = IF s \in owing THEN parked \cup {key[s]} ELSE parked
    /\ Leave(s, "answered")
    /\ UNCHANGED <<row, registry, cancelled, remembered, cancelVars>>

----------------------------------------------------------------------------
(* Cancellations *)

\* cancel_turn, by id or by key, marks the turn if the registry has it active.
Cancel(c, k) ==
    /\ cancelPc[c] = "idle" /\ registry[k] = "generating"
    /\ cancelled' = cancelled \cup {k}
    /\ cancelPc' = [cancelPc EXCEPT ![c] = "write"]
    /\ cancelKey' = [cancelKey EXCEPT ![c] = k]
    /\ UNCHANGED <<row, registry, cached, parked, remembered, holder,
                   pc, key, turn, owing>>

CancelWrite(c) ==
    /\ cancelPc[c] = "write"
    /\ row' = [row EXCEPT ![cancelKey[c]] = [status |-> "cancelled", trail |-> 0]]
    /\ cancelPc' = [cancelPc EXCEPT ![c] = "written"]
    /\ UNCHANGED <<processVars, pc, key, turn, owing, cancelKey>>

CancelFails(c) ==
    /\ "cancel_write" \in Faults
    /\ cancelPc[c] = "write"
    /\ cancelled' = cancelled \ {cancelKey[c]}
    /\ cancelPc' = [cancelPc EXCEPT ![c] = "idle"]
    /\ cancelKey' = [cancelKey EXCEPT ![c] = None]
    /\ UNCHANGED <<row, registry, cached, parked, remembered, holder,
                   pc, key, turn, owing>>

CancelDone(c) ==
    /\ cancelPc[c] = "written"
    /\ registry' = [registry EXCEPT ![cancelKey[c]] = "cancelled"]
    /\ cancelPc' = [cancelPc EXCEPT ![c] = "idle"]
    /\ cancelKey' = [cancelKey EXCEPT ![c] = None]
    /\ UNCHANGED <<row, cancelled, cached, parked, remembered, holder,
                   pc, key, turn, owing>>

----------------------------------------------------------------------------
(* Clients that go away, and the process *)

\* The request of a disconnected client is torn down at any await, before or
\* after the statement it was waiting for.
Disconnect(s) ==
    /\ pc[s] \in {"wait"} \cup Holding
    /\ Leave(s, "idle")
    /\ UNCHANGED <<row, registry, cancelled, cached, parked, remembered, cancelVars>>

\* Only the rows survive the process.
Crash ==
    /\ "crash" \in Faults
    /\ registry' = [k \in Keys |-> "absent"]
    /\ cancelled' = {} /\ cached' = {} /\ parked' = {}
    /\ remembered' = [k \in Keys |-> 0]
    /\ holder' = None
    /\ pc' = [s \in Streams |-> "idle"]
    /\ key' = [s \in Streams |-> None]
    /\ turn' = [s \in Streams |-> NoTurn]
    /\ owing' = {}
    /\ cancelPc' = [c \in Cancels |-> "idle"]
    /\ cancelKey' = [c \in Cancels |-> None]
    /\ UNCHANGED row

----------------------------------------------------------------------------
(* The specification *)

Advance(s) ==
    \/ Rewrite(s) \/ Replay(s)
    \/ Begin(s) \/ BeginFails(s) \/ Reopen(s) \/ ReopenFails(s) \/ Adopt(s)
    \/ ReplayCompleted(s) \/ Route(s) \/ Stop(s)
    \/ Record(s) \/ RecordRefused(s) \/ Recorded(s)
    \/ Reply(s) \/ ReplyFails(s) \/ FailWrite(s) \/ Fail(s)
    \/ Draft(s) \/ Drafted(s) \/ Settle(s)
    \/ Persist(s) \/ PersistFails(s) \/ Remember(s) \/ Finish(s)

Next ==
    \/ \E s \in Streams :
        \/ \E k \in Keys : Submit(s, k)
        \/ Acquire(s) \/ Advance(s) \/ Disconnect(s)
    \/ \E c \in Cancels :
        \/ \E k \in Keys : Cancel(c, k)
        \/ CancelWrite(c) \/ CancelFails(c) \/ CancelDone(c)
    \/ Crash

Spec == Init /\ [][Next]_vars

\* asyncio.Lock wakes its waiters in order, so none is passed over for ever; a
\* stream under way goes on (its awaits on stores and providers have timeouts).
FairSpec ==
    /\ Spec
    /\ \A s \in Streams : SF_vars(Acquire(s)) /\ WF_vars(Advance(s))

----------------------------------------------------------------------------
(* Properties *)

\* A cached stream is only ever replayed, never generated again, so its turn
\* must be durable: the row has the answer, or a late cancellation took it back
\* (the completion paths of _stream_turn and _persist_completed_turn).
CachedDurable ==
    \A k \in cached : row[k].status \in {"completed", "cancelled"}

\* The row of an answered turn is never reopened, failed or generated over, by
\* a retry, by a concurrent stream or after a restart; only a cancellation that
\* was already under way may replace it (begin_turn and its caller).
CompletedStays ==
    [][\A k \in Keys :
         row[k].status = "completed" => row'[k].status \in {"completed", "cancelled"}]_vars

\* The session buffer, which append never deduplicates, lists the answer of a
\* turn at most once, however often the message is sent (append_turn).
RememberedOnce == \A k \in Keys : remembered[k] <= 1

\* A message that waits for the session gets an answer, an error or the end of
\* its stream: no path leaves the lock taken.
RequestsServed ==
    \A s \in Streams : pc[s] = "wait" ~> pc[s] \notin {"wait"} \cup Holding

\* Once a cancellation is acknowledged, its turn stays cancelled until it is
\* retried (test_controller.py: the last update after cancel_turn is cancelled).
CancelledStays ==
    [][\A k \in Keys :
         (/\ row[k].status = "cancelled"
          /\ \A c \in Cancels : cancelKey[c] # k
          /\ \A s \in Streams : key[s] = k => pc[s] # "reopen")
         => row'[k].status = "cancelled"]_vars
=============================================================================
