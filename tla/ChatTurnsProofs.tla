-------------------------- MODULE ChatTurnsProofs --------------------------
(***************************************************************************)
(* Proofs about ChatTurns, for any keys, streams, cancel requests, number  *)
(* of recorded activities and kinds of fault.                              *)
(***************************************************************************)
EXTENDS ChatTurns, TLAPS

Busy == {"wait"} \cup Holding

----------------------------------------------------------------------------
(* Types *)

\* A request under way has a key.
KeyOwned ==
    /\ \A s \in Streams : pc[s] \in Busy => key[s] \in Keys
    /\ \A c \in Cancels : cancelPc[c] # "idle" => cancelKey[c] \in Keys

\* The journal has room for the activities still to be recorded.
TrailBounded ==
    \A s \in Streams :
        /\ pc[s] \in {"reply", "draft", "drafted", "settle"} => turn[s].trail = Records
        /\ pc[s] = "record" => turn[s].trail <= Records

TypeInv == TypeOK /\ KeyOwned /\ TrailBounded

LEMMA StreamFree == None \notin Streams
  BY ConstantsAssumption

LEMMA TypeInit == Init => TypeInv
  BY ConstantsAssumption
     DEF Init, TypeInv, TypeOK, KeyOwned, TrailBounded, NoTurn, Turn, TurnStatus,
         StreamPc, Busy, Holding

\* A stream that leaves satisfies its part of the invariant.
LEMMA LeaveTyped ==
    ASSUME TypeInv, NEW s \in Streams, NEW how \in {"idle"} \cup Ended,
           Leave(s, how),
           row' \in [Keys -> Turn], registry' \in [Keys -> TurnStatus],
           cancelled' \subseteq Keys, cached' \subseteq Keys, parked' \subseteq Keys,
           remembered' \in [Keys -> 0..2], UNCHANGED cancelVars
    PROVE  TypeInv'
  <1>1. TypeOK'
    BY ConstantsAssumption
       DEF TypeInv, TypeOK, Leave, Goto, StreamPc, Ended, NoTurn, Turn, TurnStatus,
           cancelVars
  <1>2. KeyOwned'
    BY DEF TypeInv, TypeOK, KeyOwned, Leave, Goto, Busy, Holding, Ended, cancelVars
  <1>3. TrailBounded'
    BY DEF TypeInv, TypeOK, TrailBounded, Leave, Goto, Ended
  <1> QED
    BY <1>1, <1>2, <1>3 DEF TypeInv

LEMMA TypeNext == TypeInv /\ [Next]_vars => TypeInv'
  <1> SUFFICES ASSUME TypeInv, [Next]_vars PROVE TypeInv'
    OBVIOUS
  <1> USE ConstantsAssumption
  <1>k. /\ TypeOK /\ KeyOwned /\ TrailBounded
        /\ \A s \in Streams : turn[s] = [status |-> turn[s].status, trail |-> turn[s].trail]
        /\ \A s \in Streams : turn[s].status \in TurnStatus /\ turn[s].trail \in 0..(Records + 1)
        /\ Records \in Nat \ {0}
    BY DEF TypeInv, TypeOK, Turn
  <1>1. ASSUME NEW s \in Streams, NEW k \in Keys, Submit(s, k) PROVE TypeInv'
    BY <1>k, <1>1 DEF Submit, Goto, TypeInv, TypeOK, KeyOwned, TrailBounded, StreamPc,
       Busy, Holding, Ended, processVars, cancelVars
  <1>2. ASSUME NEW s \in Streams, Acquire(s) PROVE TypeInv'
    BY <1>k, <1>2 DEF Acquire, Goto, TypeInv, TypeOK, KeyOwned, TrailBounded, StreamPc,
       Busy, Holding, Ended, processVars, cancelVars
  <1>3. ASSUME NEW s \in Streams, Rewrite(s) PROVE TypeInv'
    BY <1>k, <1>3 DEF Rewrite, Goto, TypeInv, TypeOK, KeyOwned, TrailBounded, StreamPc,
       Busy, Holding, Ended, processVars, cancelVars
  <1>4. ASSUME NEW s \in Streams, Begin(s) PROVE TypeInv'
    <2>1. key[s] \in Keys /\ NewTurn \in Turn /\ row[key[s]] \in Turn
      BY <1>k, <1>4 DEF Begin, KeyOwned, TypeOK, Busy, Holding, NewTurn, Turn, TurnStatus
    <2> QED
      BY <1>k, <1>4, <2>1 DEF Begin, Goto, TypeInv, TypeOK, KeyOwned, TrailBounded, StreamPc,
         Busy, Holding, Ended, processVars, cancelVars
  <1>5. ASSUME NEW s \in Streams, Reopen(s) PROVE TypeInv'
    <2>1. NewTurn \in Turn
      BY DEF NewTurn, Turn, TurnStatus
    <2> QED
      BY <1>k, <1>5, <2>1 DEF Reopen, Goto, TypeInv, TypeOK, KeyOwned, TrailBounded, StreamPc,
         Busy, Holding, Ended, processVars, cancelVars
  <1>6. ASSUME NEW s \in Streams, Adopt(s) PROVE TypeInv'
    BY <1>k, <1>6 DEF Adopt, Goto, TypeInv, TypeOK, KeyOwned, TrailBounded, StreamPc,
       Busy, Holding, Ended, processVars, cancelVars
  <1>7. ASSUME NEW s \in Streams, Route(s) PROVE TypeInv'
    BY <1>k, <1>7 DEF Route, Goto, TypeInv, TypeOK, KeyOwned, TrailBounded, StreamPc,
       Busy, Holding, Ended, processVars, cancelVars
  <1>8. ASSUME NEW s \in Streams, Record(s) PROVE TypeInv'
    <2> DEFINE updated == [turn[s] EXCEPT !.trail = @ + 1]
    <2>1. updated \in Turn
      BY <1>k, <1>8 DEF Record, TypeOK, TrailBounded, Turn
    <2>2. /\ turn' = [turn EXCEPT ![s] = updated]
          /\ row' = [row EXCEPT ![key[s]] = updated] \/ row' = row
          /\ Goto(s, "recorded") /\ pc[s] \in {"understand", "record"}
          /\ UNCHANGED <<processVars, key, owing, cancelVars>>
      BY <1>8 DEF Record
    <2> HIDE DEF updated
    <2> QED
      BY <1>k, <2>1, <2>2 DEF Goto, TypeInv, TypeOK, KeyOwned, TrailBounded, StreamPc,
         Busy, Holding, Ended, processVars, cancelVars
  <1>9. ASSUME NEW s \in Streams, Recorded(s) PROVE TypeInv'
    <2>1. \/ AfterRecord(turn[s].trail) = "record" /\ turn[s].trail <= Records
          \/ AfterRecord(turn[s].trail) = "reply" /\ turn[s].trail = Records
          \/ AfterRecord(turn[s].trail) = "persist"
      BY <1>k DEF AfterRecord
    <2> QED
      BY <1>k, <1>9, <2>1 DEF Recorded, Goto, TypeInv, TypeOK, KeyOwned, TrailBounded, StreamPc,
         Busy, Holding, Ended, processVars, cancelVars
  <1>10. ASSUME NEW s \in Streams, Reply(s) PROVE TypeInv'
    BY <1>k, <1>10 DEF Reply, Goto, TypeInv, TypeOK, KeyOwned, TrailBounded, StreamPc,
       Busy, Holding, Ended, processVars, cancelVars
  <1>11. ASSUME NEW s \in Streams, ReplyFails(s) PROVE TypeInv'
    BY <1>k, <1>11 DEF ReplyFails, Goto, TypeInv, TypeOK, KeyOwned, TrailBounded, StreamPc,
       Busy, Holding, Ended, processVars, cancelVars, TurnStatus
  <1>12. ASSUME NEW s \in Streams, FailWrite(s) PROVE TypeInv'
    <2>1. [status |-> "failed", trail |-> 0] \in Turn
      BY DEF Turn, TurnStatus
    <2> QED
      BY <1>k, <1>12, <2>1 DEF FailWrite, Goto, TypeInv, TypeOK, KeyOwned, TrailBounded, StreamPc,
         Busy, Holding, Ended, processVars, cancelVars
  <1>13. ASSUME NEW s \in Streams, Draft(s) PROVE TypeInv'
    BY <1>k, <1>13 DEF Draft, Goto, TypeInv, TypeOK, KeyOwned, TrailBounded, StreamPc,
       Busy, Holding, Ended, processVars, cancelVars
  <1>14. ASSUME NEW s \in Streams, Drafted(s) PROVE TypeInv'
    BY <1>k, <1>14 DEF Drafted, Goto, TypeInv, TypeOK, KeyOwned, TrailBounded, StreamPc,
       Busy, Holding, Ended, processVars, cancelVars
  <1>15. ASSUME NEW s \in Streams, Settle(s) PROVE TypeInv'
    BY <1>k, <1>15 DEF Settle, Goto, TypeInv, TypeOK, KeyOwned, TrailBounded, StreamPc,
       Busy, Holding, Ended, processVars, cancelVars
  <1>16. ASSUME NEW s \in Streams, Persist(s) PROVE TypeInv'
    <2> DEFINE answer == [turn[s] EXCEPT !.status = "completed"]
    <2>1. answer \in Turn
      BY <1>k DEF TypeOK, Turn, TurnStatus
    <2>2. /\ turn' = [turn EXCEPT ![s] = answer]
          /\ row' = [row EXCEPT ![key[s]] = answer]
          /\ Goto(s, "persisted") /\ pc[s] = "persist"
          /\ UNCHANGED <<processVars, key, owing, cancelVars>>
      BY <1>16 DEF Persist
    <2> HIDE DEF answer
    <2> QED
      BY <1>k, <2>1, <2>2 DEF Goto, TypeInv, TypeOK, KeyOwned, TrailBounded, StreamPc,
         Busy, Holding, Ended, processVars, cancelVars
  <1>17. ASSUME NEW s \in Streams, Remember(s) PROVE TypeInv'
    BY <1>k, <1>17 DEF Remember, Goto, TypeInv, TypeOK, KeyOwned, TrailBounded, StreamPc,
       Busy, Holding, Ended, processVars, cancelVars
  <1>18. ASSUME NEW s \in Streams,
                \/ Replay(s) \/ BeginFails(s) \/ ReopenFails(s) \/ Stop(s)
                \/ RecordRefused(s) \/ PersistFails(s) \/ Disconnect(s)
         PROVE  TypeInv'
    <2>1. PICK how \in {"idle"} \cup Ended :
            Leave(s, how) /\ UNCHANGED <<row, registry, cancelled, cached, parked,
                                         remembered, cancelVars>>
      BY <1>18 DEF Replay, BeginFails, ReopenFails, Stop, RecordRefused, PersistFails,
                   Disconnect, Ended
    <2> QED
      BY <1>k, <2>1, LeaveTyped DEF TypeOK
  <1>19. ASSUME NEW s \in Streams, ReplayCompleted(s) \/ Fail(s) \/ Finish(s) PROVE TypeInv'
    <2>1. key[s] \in Keys
      BY <1>k, <1>19 DEF KeyOwned, Busy, Holding, ReplayCompleted, Fail, Finish
    <2>2. PICK how \in {"idle"} \cup Ended : Leave(s, how)
      BY <1>19 DEF ReplayCompleted, Fail, Finish, Ended
    <2>3. /\ row' \in [Keys -> Turn] /\ registry' \in [Keys -> TurnStatus]
          /\ cancelled' \subseteq Keys /\ cached' \subseteq Keys /\ parked' \subseteq Keys
          /\ remembered' \in [Keys -> 0..2] /\ UNCHANGED cancelVars
      BY <1>k, <1>19, <2>1 DEF ReplayCompleted, Fail, Finish, TypeOK, TurnStatus
    <2> QED
      BY <2>2, <2>3, LeaveTyped
  <1>20. ASSUME NEW c \in Cancels, NEW k \in Keys, Cancel(c, k) PROVE TypeInv'
    BY <1>k, <1>20 DEF Cancel, TypeInv, TypeOK, KeyOwned, TrailBounded
  <1>21. ASSUME NEW c \in Cancels, CancelWrite(c) PROVE TypeInv'
    <2>1. [status |-> "cancelled", trail |-> 0] \in Turn
      BY DEF Turn, TurnStatus
    <2> QED
      BY <1>k, <1>21, <2>1 DEF CancelWrite, TypeInv, TypeOK, KeyOwned, TrailBounded, processVars
  <1>22. ASSUME NEW c \in Cancels, CancelFails(c) PROVE TypeInv'
    BY <1>k, <1>22 DEF CancelFails, TypeInv, TypeOK, KeyOwned, TrailBounded
  <1>23. ASSUME NEW c \in Cancels, CancelDone(c) PROVE TypeInv'
    BY <1>k, <1>23 DEF CancelDone, TypeInv, TypeOK, KeyOwned, TrailBounded, TurnStatus
  <1>24. CASE Crash
    BY <1>k, <1>24 DEF Crash, TypeInv, TypeOK, KeyOwned, TrailBounded, NoTurn, Turn, TurnStatus,
       StreamPc, Busy, Holding
  <1>25. CASE UNCHANGED vars
    BY <1>k, <1>25 DEF vars, processVars, cancelVars, TypeInv, TypeOK, KeyOwned, TrailBounded
  <1> QED
    BY <1>1, <1>2, <1>3, <1>4, <1>5, <1>6, <1>7, <1>8, <1>9, <1>10, <1>11, <1>12, <1>13,
       <1>14, <1>15, <1>16, <1>17, <1>18, <1>19, <1>20, <1>21, <1>22, <1>23, <1>24, <1>25
       DEF Next, Advance

\* Every reachable state is well typed: a trail never runs past the activities
\* of a turn, and a request under way always has its key.
THEOREM TypeCorrect == Spec => []TypeOK
  <1>1. TypeInv => TypeOK
    BY DEF TypeInv
  <1> QED
    BY TypeInit, TypeNext, <1>1, PTL DEF Spec

----------------------------------------------------------------------------
(* Answers *)

\* The lock is held by the one stream past Acquire.
LockExclusive == \A s \in Streams : pc[s] \in Holding <=> holder = s

\* The stream may still write its turn as not answered.
Writing(s) ==
    \/ pc[s] \in {"reopen", "understand", "record", "recorded", "reply", "failing",
                  "failed", "draft", "drafted", "settle", "persist"}
    \/ pc[s] \in {"adopt", "started"} /\ turn[s].status # "completed"

\* The stream has read or written the answer of its turn.
Answering(s) ==
    \/ pc[s] \in {"persisted", "finish"}
    \/ pc[s] \in {"adopt", "started"} /\ turn[s].status = "completed"

\* A turn somebody may still write has no answer, in the row or in the cache.
WritersUnanswered ==
    \A s \in Streams :
        /\ pc[s] = "begin" => key[s] \notin cached
        /\ Writing(s) => /\ turn[s].status # "completed"
                         /\ row[key[s]].status # "completed"
                         /\ key[s] \notin cached

\* An answer on its way to the client is in the row, unless it was cancelled.
AnswersWritten ==
    \A s \in Streams :
        Answering(s) => row[key[s]].status \in {"completed", "cancelled"}

Answers == LockExclusive /\ WritersUnanswered /\ AnswersWritten /\ CachedDurable

TurnInv == TypeInv /\ Answers

LEMMA TurnInit == Init => TurnInv
  <1> SUFFICES ASSUME Init PROVE TurnInv
    OBVIOUS
  <1>1. Answers
    BY StreamFree DEF Init, Answers, LockExclusive, WritersUnanswered, AnswersWritten,
       CachedDurable, Writing, Answering, Holding
  <1> QED
    BY <1>1, TypeInit DEF TurnInv

\* A stream that leaves without touching rows or the cache.
LEMMA LeaveAnswers ==
    ASSUME TurnInv, NEW s \in Streams, NEW how \in {"idle"} \cup Ended,
           Leave(s, how), row' = row,
           \A k \in cached' : row[k].status \in {"completed", "cancelled"},
           pc[s] \notin Holding => cached' = cached
    PROVE  Answers'
  <1>k. TypeOK /\ Answers
    BY DEF TurnInv, TypeInv
  <1>1. \A t \in Streams : t # s =>
            pc'[t] = pc[t] /\ key'[t] = key[t] /\ turn'[t] = turn[t]
    BY <1>k DEF Leave, Goto, TypeOK
  <1>2. pc'[s] \notin Holding
    BY <1>k DEF Leave, Goto, TypeOK, Ended, Holding
  <1>3. LockExclusive'
    BY <1>k, <1>1, <1>2, StreamFree DEF Leave, Answers, LockExclusive
  <1>4. \A t \in Streams : pc'[t] \in Holding => t # s /\ pc[s] \notin Holding
    BY <1>k, <1>1, <1>2 DEF Answers, LockExclusive
  <1>5. WritersUnanswered'
    BY <1>k, <1>1, <1>4 DEF Answers, WritersUnanswered, Writing, Holding
  <1>6. AnswersWritten'
    BY <1>k, <1>1, <1>4 DEF Answers, AnswersWritten, Answering, Holding
  <1>7. CachedDurable'
    BY DEF CachedDurable
  <1> QED
    BY <1>3, <1>5, <1>6, <1>7 DEF Answers

\* A step of the holder that keeps the lock leaves the other streams waiting.
LEMMA HolderStep ==
    ASSUME TurnInv, NEW s \in Streams, pc[s] \in Holding, holder' = holder,
           NEW at \in Holding, Goto(s, at),
           key' = key, cached' = cached,
           \A k \in Keys : k # key[s] => row'[k] = row[k],
           \A t \in Streams : t # s => turn'[t] = turn[t],
           Writing(s)' => /\ turn'[s].status # "completed"
                          /\ row'[key[s]].status # "completed"
                          /\ key[s] \notin cached,
           at = "begin" => key[s] \notin cached,
           Answering(s)' => row'[key[s]].status \in {"completed", "cancelled"},
           key[s] \in cached => row'[key[s]].status \in {"completed", "cancelled"}
    PROVE  Answers'
  <1>k. TypeOK /\ Answers
    BY DEF TurnInv, TypeInv
  <1>1. /\ \A t \in Streams : t # s => pc'[t] = pc[t] /\ pc[t] \notin Holding
        /\ pc'[s] = at
    BY <1>k DEF Goto, TypeOK, Answers, LockExclusive
  <1>2. LockExclusive'
    BY <1>k, <1>1 DEF Answers, LockExclusive
  <1>3. WritersUnanswered'
    BY <1>1 DEF WritersUnanswered, Writing, Holding
  <1>4. AnswersWritten'
    BY <1>1 DEF AnswersWritten, Answering, Holding
  <1>5. CachedDurable'
    BY <1>k DEF Answers, CachedDurable, TypeOK
  <1> QED
    BY <1>2, <1>3, <1>4, <1>5 DEF Answers

LEMMA TurnNext == TurnInv /\ [Next]_vars => TurnInv'
  <1> SUFFICES ASSUME TurnInv, [Next]_vars PROVE TurnInv'
    OBVIOUS
  <1>k. /\ TypeOK /\ KeyOwned /\ Answers
        /\ LockExclusive /\ WritersUnanswered /\ AnswersWritten /\ CachedDurable
    BY DEF TurnInv, TypeInv, Answers
  <1>1. ASSUME NEW s \in Streams, NEW k \in Keys, Submit(s, k) PROVE Answers'
    <2>1. /\ \A t \in Streams : t # s => pc'[t] = pc[t] /\ key'[t] = key[t]
          /\ pc'[s] = "wait" /\ pc[s] \notin Holding
          /\ UNCHANGED <<row, cached, holder, turn>>
      BY <1>k, <1>1 DEF Submit, Goto, TypeOK, Ended, Holding, processVars
    <2> QED
      BY <1>k, <2>1 DEF Answers, LockExclusive, WritersUnanswered, AnswersWritten,
         CachedDurable, Writing, Answering, Holding
  <1>2. ASSUME NEW s \in Streams, Acquire(s) PROVE Answers'
    <2>1. /\ \A t \in Streams : t # s => pc'[t] = pc[t]
          /\ pc'[s] \in {"rewrite", "replay", "begin"}
          /\ pc'[s] = "begin" => key[s] \notin cached
          /\ holder = None /\ holder' = s
          /\ UNCHANGED <<row, cached, key, turn>>
      BY <1>k, <1>2 DEF Acquire, Goto, TypeOK
    <2>2. \A t \in Streams : t # s => pc'[t] \notin Holding
      BY <1>k, <2>1, StreamFree DEF LockExclusive
    <2> QED
      BY <1>k, <2>1, <2>2 DEF Answers, LockExclusive, WritersUnanswered, AnswersWritten,
         CachedDurable, Writing, Answering, Holding
  <1>3. ASSUME NEW s \in Streams, Rewrite(s) \/ Begin(s) \/ Reopen(s) \/ Adopt(s)
                                  \/ Route(s) PROVE Answers'
    <2>1. CASE Rewrite(s) \/ Adopt(s) \/ Route(s)
      <3>1. PICK at \in Holding : Goto(s, at) /\ at \in {"replay", "started", "understand"}
        BY <2>1 DEF Rewrite, Adopt, Route, Holding
      <3>2. /\ pc[s] \in Holding /\ pc'[s] = at /\ key[s] \in Keys
            /\ UNCHANGED <<holder, key, cached, row, turn>>
        BY <1>k, <2>1, <3>1 DEF Rewrite, Adopt, Route, Holding, Goto, TypeOK, KeyOwned, Busy,
           processVars
      <3>3. /\ Writing(s)' => Writing(s)
            /\ Answering(s)' => Answering(s)
        BY <1>k, <2>1, <3>2 DEF Rewrite, Adopt, Route, Goto, TypeOK, Writing, Answering
      <3> QED
        BY <1>k, <3>1, <3>2, <3>3, HolderStep DEF WritersUnanswered, AnswersWritten,
           CachedDurable
    <2>2. CASE Begin(s)
      <3> DEFINE found == IF row[key[s]].status = "absent" THEN NewTurn ELSE row[key[s]]
                 at == IF found.status \in {"generating", "completed"}
                       THEN "adopt" ELSE "reopen"
      <3>1. /\ pc[s] = "begin" /\ pc[s] \in Holding /\ key[s] \in Keys
            /\ row' = [row EXCEPT ![key[s]] = found]
            /\ turn' = [turn EXCEPT ![s] = found]
            /\ Goto(s, at) /\ UNCHANGED <<holder, key, cached>>
        BY <1>k, <2>2 DEF Begin, Holding, KeyOwned, Busy, processVars
      <3>2. /\ row'[key[s]] = found /\ turn'[s] = found /\ pc'[s] = at
            /\ key[s] \notin cached /\ at \in Holding
        BY <1>k, <3>1 DEF Goto, TypeOK, WritersUnanswered, Holding
      <3>3. /\ Writing(s)' => found.status # "completed"
            /\ Answering(s)' => found.status = "completed"
        BY <3>2 DEF Writing, Answering
      <3>4. /\ \A k \in Keys : k # key[s] => row'[k] = row[k]
            /\ \A t \in Streams : t # s => turn'[t] = turn[t]
        BY <1>k, <3>1 DEF TypeOK
      <3> HIDE DEF found
      <3> QED
        BY <3>1, <3>2, <3>3, <3>4, HolderStep
    <2>3. CASE Reopen(s)
      <3>1. /\ pc[s] \in Holding /\ key[s] \in Keys /\ Writing(s)
            /\ row'[key[s]] = NewTurn /\ turn'[s] = NewTurn
            /\ Goto(s, "adopt") /\ pc'[s] = "adopt" /\ "adopt" \in Holding
            /\ UNCHANGED <<holder, key, cached>>
            /\ \A k \in Keys : k # key[s] => row'[k] = row[k]
            /\ \A t \in Streams : t # s => turn'[t] = turn[t]
        BY <1>k, <2>3 DEF Reopen, Holding, KeyOwned, Busy, processVars, Writing, TypeOK, Goto
      <3>2. ~Answering(s)'
        BY <3>1 DEF Answering, NewTurn
      <3> QED
        BY <1>k, <3>1, <3>2, HolderStep DEF WritersUnanswered, NewTurn
    <2> QED
      BY <1>3, <2>1, <2>2, <2>3
  <1>4. ASSUME NEW s \in Streams, Record(s) \/ Recorded(s) \/ Reply(s) \/ ReplyFails(s)
                                  \/ FailWrite(s) \/ Draft(s) \/ Drafted(s) \/ Settle(s)
        PROVE  Answers'
    <2>1. PICK at \in {"record", "recorded", "reply", "failing", "failed", "draft",
                       "drafted", "settle", "persist"} : Goto(s, at)
      BY <1>4 DEF Record, Recorded, Reply, ReplyFails, FailWrite, Draft, Drafted, Settle,
                  AfterRecord
    <2>2. /\ pc[s] \in Holding /\ Writing(s) /\ at \in Holding /\ pc'[s] = at
          /\ UNCHANGED <<holder, key, cached>>
      BY <1>k, <1>4, <2>1 DEF Record, Recorded, Reply, ReplyFails, FailWrite, Draft, Drafted,
         Settle, Holding, Writing, processVars, Goto, TypeOK
    <2>3. /\ key[s] \in Keys /\ key[s] \notin cached
          /\ row[key[s]].status # "completed" /\ turn[s].status # "completed"
      BY <1>k, <2>2 DEF KeyOwned, Busy, WritersUnanswered
    <2>4. /\ \A k \in Keys : k # key[s] => row'[k] = row[k]
          /\ \A t \in Streams : t # s => turn'[t] = turn[t]
      BY <1>k, <1>4, <2>3 DEF Record, Recorded, Reply, ReplyFails, FailWrite, Draft, Drafted,
         Settle, TypeOK
    <2>5. turn'[s].status = turn[s].status
      BY <1>k, <1>4 DEF Record, Recorded, Reply, ReplyFails, FailWrite, Draft, Drafted,
         Settle, TypeOK, Turn
    <2>6. row'[key[s]].status \in {row[key[s]].status, turn[s].status, "failed"}
      BY <1>k, <1>4, <2>3 DEF Record, Recorded, Reply, ReplyFails, FailWrite, Draft, Drafted,
         Settle, TypeOK, Turn
    <2>7. ~Answering(s)' /\ at # "begin"
      BY <2>1, <2>2 DEF Answering
    <2> QED
      BY <2>1, <2>2, <2>3, <2>4, <2>5, <2>6, <2>7, HolderStep
  <1>5. ASSUME NEW s \in Streams, Persist(s) \/ Remember(s) PROVE Answers'
    <2>1. PICK at \in {"persisted", "finish"} : Goto(s, at)
      BY <1>5 DEF Persist, Remember
    <2>2. /\ pc[s] \in Holding /\ at \in Holding /\ pc'[s] = at /\ key[s] \in Keys
          /\ UNCHANGED <<holder, key, cached>>
      BY <1>k, <1>5, <2>1 DEF Persist, Remember, Holding, processVars, Goto, TypeOK,
         KeyOwned, Busy
    <2>3. row'[key[s]].status \in {"completed", "cancelled"}
      BY <1>k, <1>5, <2>2 DEF Persist, Remember, TypeOK, Turn, AnswersWritten, Answering
    <2>4. /\ \A k \in Keys : k # key[s] => row'[k] = row[k]
          /\ \A t \in Streams : t # s => turn'[t] = turn[t]
      BY <1>k, <1>5, <2>2 DEF Persist, Remember, TypeOK
    <2>5. ~Writing(s)' /\ at # "begin"
      BY <2>1, <2>2 DEF Writing
    <2> QED
      BY <2>1, <2>2, <2>3, <2>4, <2>5, HolderStep
  <1>6. ASSUME NEW s \in Streams,
               \/ Replay(s) \/ BeginFails(s) \/ ReopenFails(s) \/ Stop(s) \/ Fail(s)
               \/ RecordRefused(s) \/ PersistFails(s) \/ Disconnect(s)
        PROVE  Answers'
    <2>1. PICK how \in {"idle"} \cup Ended : Leave(s, how)
      BY <1>6 DEF Replay, BeginFails, ReopenFails, Stop, RecordRefused, PersistFails,
                  Disconnect, Fail, Ended
    <2>2. row' = row /\ cached' = cached
      BY <1>6 DEF Replay, BeginFails, ReopenFails, Stop, RecordRefused, PersistFails,
                  Disconnect, Fail
    <2> QED
      BY <1>k, <2>1, <2>2, LeaveAnswers DEF CachedDurable
  <1>7. ASSUME NEW s \in Streams, ReplayCompleted(s) \/ Finish(s) PROVE Answers'
    <2>1. PICK how \in {"idle"} \cup Ended : Leave(s, how)
      BY <1>7 DEF ReplayCompleted, Finish, Ended
    <2>2. /\ row' = row /\ cached' = cached \cup {key[s]}
          /\ pc[s] \in Holding /\ Answering(s)
      BY <1>7 DEF ReplayCompleted, Finish, Holding, Answering
    <2> QED
      BY <1>k, <2>1, <2>2, LeaveAnswers DEF CachedDurable, AnswersWritten
  <1>8. ASSUME NEW c \in Cancels, CancelWrite(c) PROVE Answers'
    <2>1. /\ UNCHANGED <<holder, cached, pc, key, turn>>
          /\ \A k \in Keys : row'[k].status \in {row[k].status, "cancelled"}
      BY <1>k, <1>8 DEF CancelWrite, processVars, TypeOK
    <2>2. \A s \in Streams : Writing(s) \/ Answering(s) => key[s] \in Keys
      BY <1>k DEF KeyOwned, Busy, Holding, Writing, Answering
    <2> QED
      BY <1>k, <2>1, <2>2 DEF Answers, LockExclusive, WritersUnanswered, AnswersWritten,
         CachedDurable, Writing, Answering, TypeOK
  <1>9. ASSUME UNCHANGED <<row, cached, holder, pc, key, turn>> PROVE Answers'
    BY <1>k, <1>9 DEF Answers, LockExclusive, WritersUnanswered, AnswersWritten,
       CachedDurable, Writing, Answering
  <1>10. ASSUME Crash PROVE Answers'
    <2>1. /\ \A s \in Streams : pc'[s] = "idle"
          /\ holder' = None /\ cached' = {}
      BY <1>10 DEF Crash
    <2>2. LockExclusive'
      BY <2>1, StreamFree DEF LockExclusive, Holding
    <2>3. WritersUnanswered' /\ AnswersWritten'
      BY <2>1 DEF WritersUnanswered, AnswersWritten, Writing, Answering
    <2>4. CachedDurable'
      BY <2>1 DEF CachedDurable
    <2> QED
      BY <2>2, <2>3, <2>4 DEF Answers
  <1>11. \A c \in Cancels :
            (\E k \in Keys : Cancel(c, k)) \/ CancelFails(c) \/ CancelDone(c) => Answers'
    BY <1>9 DEF Cancel, CancelFails, CancelDone
  <1>12. UNCHANGED vars => Answers'
    BY <1>9 DEF vars, processVars
  <1>13. Answers'
    BY <1>1, <1>2, <1>3, <1>4, <1>5, <1>6, <1>7, <1>8, <1>10, <1>11, <1>12
       DEF Next, Advance
  <1> QED
    BY <1>13, TypeNext DEF TurnInv

\* A cached answer is durable, whatever clients, cancellations and failing
\* stores do.
THEOREM CachedCorrect == Spec => []CachedDurable
  <1>1. TurnInv => CachedDurable
    BY DEF TurnInv, Answers
  <1> QED
    BY TurnInit, TurnNext, <1>1, PTL DEF Spec

\* Every change a step can make to an answered row.
LEMMA RowStep ==
    ASSUME TurnInv, [Next]_vars, NEW k \in Keys, row[k].status = "completed"
    PROVE  row'[k].status \in {"completed", "cancelled"}
  <1>k. /\ TypeOK /\ KeyOwned /\ WritersUnanswered
    BY DEF TurnInv, TypeInv, Answers
  <1>1. ASSUME NEW s \in Streams,
               \/ Reopen(s) \/ Record(s) \/ FailWrite(s) \/ Draft(s)
        PROVE  row'[k] = row[k]
    <2>1. Writing(s)
      BY <1>1 DEF Reopen, Record, FailWrite, Draft, Writing
    <2>2. key[s] # k
      BY <1>k, <2>1 DEF WritersUnanswered
    <2> QED
      BY <1>k, <1>1, <2>2 DEF Reopen, Record, FailWrite, Draft, TypeOK
  <1>2. ASSUME NEW s \in Streams, Begin(s) PROVE row'[k] = row[k]
    BY <1>k, <1>2 DEF Begin, TypeOK
  <1>3. ASSUME NEW s \in Streams, Persist(s)
        PROVE  row'[k].status \in {"completed", "cancelled"}
    BY <1>k, <1>3 DEF Persist, TypeOK, Turn
  <1>4. ASSUME NEW c \in Cancels, CancelWrite(c)
        PROVE  row'[k].status \in {"completed", "cancelled"}
    BY <1>k, <1>4 DEF CancelWrite, TypeOK
  <1>5. ASSUME NEW s \in Streams,
               \/ \E q \in Keys : Submit(s, q)
               \/ Acquire(s) \/ Rewrite(s) \/ Replay(s) \/ BeginFails(s)
               \/ ReopenFails(s) \/ Adopt(s) \/ ReplayCompleted(s) \/ Route(s)
               \/ Stop(s) \/ RecordRefused(s) \/ Recorded(s) \/ Reply(s)
               \/ ReplyFails(s) \/ Fail(s) \/ Drafted(s) \/ Settle(s)
               \/ PersistFails(s) \/ Remember(s) \/ Finish(s) \/ Disconnect(s)
        PROVE  row' = row
    BY <1>5 DEF Submit, Acquire, Rewrite, Replay, BeginFails, ReopenFails, Adopt,
       ReplayCompleted, Route, Stop, RecordRefused, Recorded, Reply, ReplyFails, Fail,
       Drafted, Settle, PersistFails, Remember, Finish, Disconnect
  <1>6. ASSUME NEW c \in Cancels,
               (\E q \in Keys : Cancel(c, q)) \/ CancelFails(c) \/ CancelDone(c)
        PROVE  row' = row
    BY <1>6 DEF Cancel, CancelFails, CancelDone
  <1>7. Crash \/ UNCHANGED vars => row' = row
    BY DEF Crash, vars
  <1> QED
    BY <1>1, <1>2, <1>3, <1>4, <1>5, <1>6, <1>7 DEF Next, Advance

\* No retry, concurrent stream, failing store or restart takes back an answer:
\* a completed turn is at most cancelled by a request already under way.
THEOREM CompletedCorrect == Spec => CompletedStays
  <1>1. TurnInv /\ [Next]_vars
          => [\A k \in Keys :
                row[k].status = "completed"
                  => row'[k].status \in {"completed", "cancelled"}]_vars
    BY RowStep
  <1> QED
    BY TurnInit, TurnNext, <1>1, PTL DEF Spec, CompletedStays

----------------------------------------------------------------------------
(* The session buffer *)

\* A stream on its way to remember its answer.
Generating == {"understand", "record", "recorded", "reply", "failing", "failed",
               "draft", "drafted", "settle", "persist", "persisted"}

CancelsMarked == \A c \in Cancels : cancelPc[c] # "idle" => cancelKey[c] \in cancelled
Unremembered == \A s \in Streams : pc[s] \in Generating => remembered[key[s]] = 0
Persisted ==
    \A s \in Streams :
        pc[s] = "persisted" => row[key[s]].status = "completed" \/ key[s] \in cancelled

\* What the buffer lists is never generated again: the retry finds the answer
\* in the row, or the turn marked as cancelled and stops.
RememberedSettled ==
    \A k \in Keys : remembered[k] # 0 => row[k].status = "completed" \/ k \in cancelled

Buffer == CancelsMarked /\ Unremembered /\ Persisted /\ RememberedSettled /\ RememberedOnce

BufferInv == TurnInv /\ Buffer

\* The invariant of the runs in which no cancellation fails to be written.
CalmInv == BufferInv /\ "cancel_write" \notin Faults

\* A step under the lock that keeps the key and remembers nothing.
LEMMA BufferKept ==
    ASSUME BufferInv, NEW s \in Streams, pc[s] \in Holding,
           UNCHANGED <<cancelled, remembered, cancelVars>>,
           \A t \in Streams : t # s => pc'[t] = pc[t] /\ key'[t] = key[t],
           \A k \in Keys : k # key[s] => row'[k] = row[k],
           pc'[s] \in Generating => remembered[key'[s]] = 0,
           pc'[s] = "persisted" => row'[key'[s]].status = "completed",
           remembered[key[s]] # 0 => row'[key[s]].status = "completed" \/ key[s] \in cancelled
    PROVE  Buffer'
  <1>k. TypeOK /\ LockExclusive /\ Buffer
    BY DEF BufferInv, TurnInv, TypeInv, Answers
  <1>1. \A t \in Streams : t # s => pc[t] \notin Generating
    BY <1>k DEF LockExclusive, Generating, Holding
  <1>2. CancelsMarked' /\ RememberedOnce'
    BY <1>k DEF Buffer, CancelsMarked, RememberedOnce, cancelVars
  <1>3. Unremembered' /\ Persisted'
    BY <1>1 DEF Unremembered, Persisted, Generating
  <1>4. RememberedSettled'
    BY <1>k DEF Buffer, RememberedSettled
  <1> QED
    BY <1>2, <1>3, <1>4 DEF Buffer

\* A step that leaves the streams' places or moves one to where nothing is owed.
LEMMA BufferQuiet ==
    ASSUME BufferInv, UNCHANGED <<row, cancelled, remembered, cancelVars>>,
           \A t \in Streams :
               pc'[t] \in Generating => pc'[t] = pc[t] /\ key'[t] = key[t]
    PROVE  Buffer'
  <1>k. Buffer
    BY DEF BufferInv
  <1>1. CancelsMarked' /\ RememberedOnce' /\ RememberedSettled'
    BY <1>k DEF Buffer, CancelsMarked, RememberedOnce, RememberedSettled, cancelVars
  <1>2. Unremembered' /\ Persisted'
    BY <1>k DEF Buffer, Unremembered, Persisted, Generating
  <1> QED
    BY <1>1, <1>2 DEF Buffer

LEMMA BufferNext ==
    ASSUME "cancel_write" \notin Faults, BufferInv, [Next]_vars
    PROVE  BufferInv'
  <1>t. TurnInv'
    BY TurnNext DEF BufferInv
  <1>k. /\ TypeOK /\ KeyOwned /\ LockExclusive /\ WritersUnanswered
        /\ CancelsMarked /\ Unremembered /\ Persisted /\ RememberedSettled /\ RememberedOnce
    BY DEF BufferInv, TurnInv, TypeInv, Answers, Buffer
  <1>p. /\ pc \in [Streams -> StreamPc] /\ key \in [Streams -> Keys \cup {None}]
        /\ row \in [Keys -> Turn] /\ remembered \in [Keys -> 0..2]
        /\ \A s \in Streams : pc[s] \in Holding => key[s] \in Keys
    BY <1>k DEF TypeOK, KeyOwned, Busy
  <1>1. ASSUME NEW s \in Streams, NEW k \in Keys, Submit(s, k) PROVE Buffer'
    BY <1>p, <1>1, BufferQuiet DEF Submit, Goto, processVars, Generating
  <1>2. ASSUME NEW s \in Streams, Acquire(s) PROVE Buffer'
    BY <1>p, <1>2, BufferQuiet DEF Acquire, Goto, Generating
  <1>3. ASSUME NEW s \in Streams, Rewrite(s) \/ Adopt(s) PROVE Buffer'
    BY <1>p, <1>3, BufferQuiet DEF Rewrite, Adopt, Goto, Generating
  <1>4. ASSUME NEW s \in Streams,
               \/ Replay(s) \/ BeginFails(s) \/ ReopenFails(s) \/ ReplayCompleted(s)
               \/ Stop(s) \/ RecordRefused(s) \/ Fail(s) \/ PersistFails(s) \/ Finish(s)
               \/ Disconnect(s)
        PROVE  Buffer'
    <2>1. PICK how \in {"idle"} \cup Ended :
            Leave(s, how) /\ UNCHANGED <<row, cancelled, remembered, cancelVars>>
      BY <1>4 DEF Replay, BeginFails, ReopenFails, ReplayCompleted, Stop, RecordRefused, Fail,
         PersistFails, Finish, Disconnect, Ended
    <2> QED
      BY <1>p, <2>1, BufferQuiet DEF Leave, Goto, Generating, Ended
  <1>5. ASSUME NEW s \in Streams, Begin(s) \/ Reopen(s) PROVE Buffer'
    <2>1. /\ pc[s] \in {"begin", "reopen"} /\ pc'[s] \in {"adopt", "reopen"}
          /\ \A t \in Streams : t # s => pc'[t] = pc[t]
          /\ key' = key /\ UNCHANGED <<cancelled, remembered, cancelVars>>
          /\ \A k \in Keys : k # key[s] => row'[k] = row[k]
          /\ row'[key[s]] = row[key[s]] \/ row[key[s]].status # "completed"
      BY <1>p, <1>5, <1>k
         DEF Begin, Reopen, Goto, processVars, WritersUnanswered, Writing, NewTurn, Holding
    <2>2. pc[s] \in Holding /\ key[s] \in Keys
      BY <1>p, <2>1 DEF Holding
    <2>3. remembered[key[s]] # 0 => row'[key[s]].status = "completed" \/ key[s] \in cancelled
      BY <1>k, <2>1, <2>2 DEF RememberedSettled
    <2> QED
      BY <2>1, <2>2, <2>3, BufferKept DEF Generating
  <1>6. ASSUME NEW s \in Streams, Route(s) PROVE Buffer'
    <2>1. /\ pc[s] = "started" /\ pc'[s] = "understand" /\ key[s] \notin cancelled
          /\ turn[s].status # "completed"
          /\ \A t \in Streams : t # s => pc'[t] = pc[t]
          /\ key' = key /\ row' = row /\ UNCHANGED <<cancelled, remembered, cancelVars>>
      BY <1>p, <1>6 DEF Route, Goto, processVars, Tripped
    <2>2. pc[s] \in Holding /\ key[s] \in Keys
      BY <1>p, <2>1 DEF Holding
    <2>3. remembered[key[s]] = 0
      BY <1>k, <2>1, <2>2 DEF RememberedSettled, WritersUnanswered, Writing
    <2> QED
      BY <2>1, <2>2, <2>3, BufferKept
  <1>7. ASSUME NEW s \in Streams,
               \/ Record(s) \/ Recorded(s) \/ Reply(s) \/ ReplyFails(s) \/ FailWrite(s)
               \/ Draft(s) \/ Drafted(s) \/ Settle(s) \/ Persist(s)
        PROVE  Buffer'
    <2>1. /\ pc[s] \in Generating
          /\ \A t \in Streams : t # s => pc'[t] = pc[t]
          /\ key' = key /\ UNCHANGED <<cancelled, remembered, cancelVars>>
      BY <1>p, <1>7
         DEF Record, Recorded, Reply, ReplyFails, FailWrite, Draft, Drafted, Settle, Persist,
             Goto, processVars, Generating
    <2>2. pc[s] \in Holding /\ key[s] \in Keys /\ remembered[key[s]] = 0
      BY <1>k, <1>p, <2>1 DEF Unremembered, Generating, Holding
    <2>3. \A k \in Keys : k # key[s] => row'[k] = row[k]
      BY <1>p, <1>7
         DEF Record, Recorded, Reply, ReplyFails, FailWrite, Draft, Drafted, Settle, Persist,
             processVars
    <2>4. pc'[s] = "persisted" => row'[key[s]].status = "completed"
      <3>1. CASE Persist(s)
        <4>1. row'[key[s]] = [turn[s] EXCEPT !.status = "completed"] /\ turn[s] \in Turn
          BY <1>k, <1>p, <2>2, <3>1 DEF Persist, TypeOK
        <4> QED
          BY <4>1 DEF Turn
      <3>2. CASE ~Persist(s)
        BY <1>p, <1>7, <3>2
           DEF Record, Recorded, AfterRecord, Reply, ReplyFails, FailWrite, Draft, Drafted,
               Settle, Goto
      <3> QED
        BY <3>1, <3>2
    <2> QED
      BY <2>1, <2>2, <2>3, <2>4, BufferKept
  <1>8. ASSUME NEW s \in Streams, Remember(s) PROVE Buffer'
    <2>1. /\ pc[s] = "persisted" /\ pc' = [pc EXCEPT ![s] = "finish"]
          /\ remembered' = [remembered EXCEPT ![key[s]] = IF @ = 2 THEN 2 ELSE @ + 1]
          /\ UNCHANGED <<row, key, cancelled, cancelVars>>
      BY <1>8 DEF Remember, Goto
    <2>2. key[s] \in Keys /\ remembered[key[s]] = 0
      BY <1>k, <1>p, <2>1 DEF Unremembered, Generating, Holding
    <2>3. \A t \in Streams : pc'[t] \notin Generating
      BY <1>k, <1>p, <2>1 DEF LockExclusive, Generating, Holding
    <2>4. RememberedSettled' /\ RememberedOnce'
      BY <1>k, <1>p, <2>1, <2>2 DEF RememberedSettled, RememberedOnce, Persisted
    <2> QED
      BY <1>k, <2>1, <2>3, <2>4
         DEF Buffer, CancelsMarked, Unremembered, Persisted, Generating, cancelVars
  <1>9. ASSUME NEW c \in Cancels, NEW k \in Keys, Cancel(c, k) PROVE Buffer'
    <2>1. /\ cancelled' = cancelled \cup {k} /\ UNCHANGED <<row, remembered, pc, key>>
          /\ cancelKey' = [cancelKey EXCEPT ![c] = k]
          /\ \A d \in Cancels : d # c => cancelPc'[d] = cancelPc[d]
      BY <1>k, <1>9 DEF Cancel, TypeOK
    <2> QED
      BY <1>k, <2>1
         DEF TypeOK, Buffer, CancelsMarked, Unremembered, Persisted, RememberedSettled,
             RememberedOnce
  <1>10. ASSUME NEW c \in Cancels, CancelWrite(c) PROVE Buffer'
    <2>1. /\ cancelPc[c] = "write" /\ cancelPc' = [cancelPc EXCEPT ![c] = "written"]
          /\ \A k \in Keys : k # cancelKey[c] => row'[k] = row[k]
          /\ UNCHANGED <<cancelled, remembered, pc, key, cancelKey>>
      BY <1>k, <1>10 DEF CancelWrite, processVars, TypeOK
    <2>2. cancelKey[c] \in cancelled
      BY <1>k, <2>1 DEF CancelsMarked
    <2>3. CancelsMarked' /\ Unremembered' /\ RememberedOnce'
      BY <1>k, <2>1, <2>2 DEF TypeOK, CancelsMarked, Unremembered, RememberedOnce
    <2>4. Persisted'
      BY <1>k, <1>p, <2>1, <2>2 DEF Persisted, Holding
    <2>5. RememberedSettled'
      BY <1>k, <2>1, <2>2 DEF RememberedSettled
    <2> QED
      BY <2>3, <2>4, <2>5 DEF Buffer
  <1>11. ASSUME NEW c \in Cancels, CancelDone(c) PROVE Buffer'
    <2>1. /\ cancelPc' = [cancelPc EXCEPT ![c] = "idle"]
          /\ cancelKey' = [cancelKey EXCEPT ![c] = None]
          /\ UNCHANGED <<row, cancelled, remembered, pc, key>>
      BY <1>11 DEF CancelDone
    <2>2. CancelsMarked'
      BY <1>k, <2>1 DEF TypeOK, CancelsMarked
    <2> QED
      BY <1>k, <2>1, <2>2
         DEF Buffer, Unremembered, Persisted, RememberedSettled, RememberedOnce
  <1>12. ASSUME NEW c \in Cancels, CancelFails(c) PROVE Buffer'
    BY <1>12 DEF CancelFails
  <1>13. ASSUME Crash PROVE Buffer'
    BY <1>13 DEF Crash, Buffer, CancelsMarked, Unremembered, Persisted, RememberedSettled,
       RememberedOnce, Generating
  <1>14. ASSUME UNCHANGED vars PROVE Buffer'
    BY <1>14, BufferQuiet DEF vars, processVars, cancelVars
  <1> QED
    BY <1>t, <1>1, <1>2, <1>3, <1>4, <1>5, <1>6, <1>7, <1>8, <1>9, <1>10, <1>11, <1>12,
       <1>13, <1>14 DEF Next, Advance, BufferInv

\* As long as no cancellation fails to be written, the session buffer lists an
\* answer at most once, whatever is retried, disconnected or cancelled.
THEOREM RememberedCorrect ==
    "cancel_write" \notin Faults => (Spec => []RememberedOnce)
  <1>1. "cancel_write" \notin Faults /\ Init => CalmInv
    <2>1. Init => Buffer
      BY DEF Init, Buffer, CancelsMarked, Unremembered, Persisted, RememberedSettled,
         RememberedOnce, Generating
    <2> QED
      BY <2>1, TurnInit DEF BufferInv, CalmInv
  <1>2. CalmInv /\ [Next]_vars => CalmInv'
    <2> SUFFICES ASSUME "cancel_write" \notin Faults, BufferInv, [Next]_vars
                 PROVE  BufferInv'
      BY DEF CalmInv
    <2> QED
      BY BufferNext
  <1>3. CalmInv => RememberedOnce
    BY DEF CalmInv, BufferInv, Buffer
  <1> QED
    BY <1>1, <1>2, <1>3, PTL DEF Spec
=============================================================================
