------------------------------ MODULE MailTurns ------------------------------
(***************************************************************************)
(* The durable turn of one @mail scan and the requests that report its     *)
(* progress: POST /sessions/{id}/mail-scans, which validates a snapshot of *)
(* the scan, opens the turn or finds it by its idempotency key, reconciles *)
(* the two and stores the result.                                          *)
(*                                                                         *)
(* With a history store a request is two transactions, with the            *)
(* reconciliation between them, and requests interleave; without one the   *)
(* short-term buffer is read and replaced in one go.  Which of the two a   *)
(* deployment has never changes.  Requests are any, in any order:          *)
(* MailScans restricts them to those the dashboard sends.                  *)
(* Reply texts, counts, outcomes, details and time stamps are left out: a  *)
(* request is refused for them before it touches the turn.                 *)
(***************************************************************************)
EXTENDS Naturals, Sequences

CONSTANTS
    Posts,     \* calls of the endpoint
    Codes,     \* activity codes of the chat
    MailCodes, \* those of a mail scan
    Messages,  \* texts a user may have sent
    Requests,  \* the payloads considered
    NoTurn,    \* there is no such turn
    NoRequest  \* a call not made yet

ActivityStatus == {"pending", "running", "completed", "failed", "cancelled", "skipped"}
Terminal == {"completed", "failed", "cancelled"}
TurnStatus == {"generating"} \cup Terminal
ScanStatus == {"connecting", "queued", "running", "succeeded", "partial", "failed"}

Activities == Seq([code : Codes, status : ActivityStatus])
Payload == [message : Messages, status : TurnStatus, scan : ScanStatus, activities : Activities]
Turn == Payload

ASSUME ConstantsAssumption ==
    /\ MailCodes \subseteq Codes
    /\ Requests \subseteq Payload
    /\ NoTurn \notin Turn
    /\ NoRequest \notin Payload

Stages == {"unused", "sent", "merged", "stored", "refused", "lost"}

VARIABLES
    durable, \* whether there is a history store
    row,    \* the turn as stored, or NoTurn
    alive,  \* whether the session exists
    stage,  \* how far a call has come
    asked,  \* its payload
    seen,   \* the turn it found or opened
    merged  \* what it made of it

vars == <<durable, row, alive, stage, asked, seen, merged>>

TypeOK ==
    /\ durable \in BOOLEAN
    /\ row \in Turn \cup {NoTurn}
    /\ alive \in BOOLEAN
    /\ stage \in [Posts -> Stages]
    /\ asked \in [Posts -> Requests \cup {NoRequest}]
    /\ seen \in [Posts -> Turn \cup {NoTurn}]
    /\ merged \in [Posts -> Turn \cup {NoTurn}]
    /\ \A i \in Posts :
          /\ asked[i] = NoRequest <=> stage[i] = "unused"
          /\ stage[i] = "merged" => durable
          /\ stage[i] \in {"merged", "stored"} => seen[i] # NoTurn /\ merged[i] # NoTurn

-----------------------------------------------------------------------------
\* Reconciliation

\* Mutant: an activity has to be seen running before it ends.
CanMoveStrictly(from, to) ==
    \/ from = to
    \/ from = "pending" /\ to = "running"
    \/ from = "running" /\ to \in {"completed", "failed", "cancelled"}

\* The moves of an activity; one that fails or completes at once runs first.
CanMove(from, to) ==
    \/ from = to
    \/ from = "pending"
    \/ from = "running" /\ to \in {"completed", "failed", "cancelled"}

\* Mutant: the moves of the activities are not looked at.
MergeableUnchecked(old, new) ==
    new # <<>> =>
        /\ \A i, j \in 1..Len(new) : new[i].code = new[j].code => i = j
        /\ \A i \in 1..Len(new) : new[i].code \in MailCodes
        /\ Len(old) <= Len(new)
        /\ \A i \in 1..Len(old) : new[i].code = old[i].code

\* A snapshot announces new activities only behind those announced before.
Mergeable(old, new) ==
    new # <<>> =>
        /\ \A i, j \in 1..Len(new) : new[i].code = new[j].code => i = j
        /\ \A i \in 1..Len(new) : new[i].code \in MailCodes
        /\ Len(old) <= Len(new)
        /\ \A i \in 1..Len(old) :
              new[i].code = old[i].code /\ CanMove(old[i].status, new[i].status)

Merge(old, new) == IF new = <<>> THEN old ELSE new

Done(activities) ==
    \A i \in 1..Len(activities) : activities[i].status \in {"completed", "skipped"}

\* Mutant: only the work under way is ended.
SettledRunning(activities, status) ==
    IF status \in {"failed", "cancelled"}
    THEN [i \in 1..Len(activities) |->
            [activities[i] EXCEPT !.status = IF @ = "running" THEN status ELSE @]]
    ELSE activities

\* Work under way ends as its turn does, work not begun is skipped.
Settled(activities, status) ==
    IF status \in {"failed", "cancelled"}
    THEN [i \in 1..Len(activities) |->
            [activities[i] EXCEPT !.status =
                CASE @ = "running" -> status [] @ = "pending" -> "skipped" [] OTHER -> @]]
    ELSE activities

Reconcilable(old, r) ==
    /\ Mergeable(old, r.activities)
    /\ r.status = "completed" => Done(Merge(old, r.activities))

Reconciled(old, r) == Settled(Merge(old, r.activities), r.status)

ScansOf(status) ==
    CASE status = "generating" -> {"connecting", "queued", "running"}
      [] status = "completed" -> {"succeeded", "partial"}
      [] status = "failed" -> {"failed"}
      [] status = "cancelled" -> ScanStatus

Valid(r) == r.scan \in ScansOf(r.status) /\ Reconcilable(<<>>, r)

Draft(r) == [r EXCEPT !.activities = Reconciled(<<>>, r)]

\* A turn that has ended accepts only its own verdict again.
Acceptable(t, r) ==
    /\ t.message = r.message
    /\ IF t.status = "generating" THEN Reconcilable(t.activities, r) ELSE t.status = r.status

\* Mutant: the same verdict replaces an ended turn.
UpdateAgain(t, r) == [r EXCEPT !.activities = Reconciled(t.activities, r)]

Update(t, r) ==
    IF t.status = "generating"
    THEN [r EXCEPT !.activities = Reconciled(t.activities, r)]
    ELSE t

-----------------------------------------------------------------------------
Init ==
    /\ durable \in BOOLEAN
    /\ row = NoTurn
    /\ alive = TRUE
    /\ stage = [i \in Posts |-> "unused"]
    /\ asked = [i \in Posts |-> NoRequest]
    /\ seen = [i \in Posts |-> NoTurn]
    /\ merged = [i \in Posts |-> NoTurn]

Send(i, r) ==
    /\ stage[i] = "unused"
    /\ stage' = [stage EXCEPT ![i] = "sent"]
    /\ asked' = [asked EXCEPT ![i] = r]
    /\ UNCHANGED <<durable, row, alive, seen, merged>>

\* No session, no sense in the payload, or a key used for another text.
Refuse(i) ==
    /\ stage[i] = "sent"
    /\ \/ ~alive
       \/ ~Valid(asked[i])
       \/ row # NoTurn /\ row.message # asked[i].message
    /\ stage' = [stage EXCEPT ![i] = "refused"]
    /\ UNCHANGED <<durable, row, alive, asked, seen, merged>>

\* begin_turn inserts the turn or returns the one that has its key; the two
\* are reconciled as soon as it returns.
Begin(i) ==
    /\ durable
    /\ stage[i] = "sent"
    /\ alive
    /\ Valid(asked[i])
    /\ LET r == asked[i]
           found == IF row = NoTurn THEN Draft(r) ELSE row
       IN /\ found.message = r.message
          /\ row' = found
          /\ seen' = [seen EXCEPT ![i] = found]
          /\ \/ /\ Acceptable(found, r)
                /\ stage' = [stage EXCEPT ![i] = "merged"]
                /\ merged' = [merged EXCEPT ![i] = Update(found, r)]
             \/ /\ ~Acceptable(found, r)
                /\ stage' = [stage EXCEPT ![i] = "refused"]
                /\ UNCHANGED merged
    /\ UNCHANGED <<durable, alive, asked>>

\* update_turn replaces whatever the row holds, if there still is one.
Store(i) ==
    /\ stage[i] = "merged"
    /\ \/ /\ row # NoTurn
          /\ row' = merged[i]
          /\ stage' = [stage EXCEPT ![i] = "stored"]
       \/ /\ row = NoTurn
          /\ stage' = [stage EXCEPT ![i] = "refused"]
          /\ UNCHANGED row
    /\ UNCHANGED <<durable, alive, asked, seen, merged>>

\* The buffer's turn is read, reconciled and replaced with no await between.
Upsert(i) ==
    /\ ~durable
    /\ stage[i] = "sent"
    /\ alive
    /\ Valid(asked[i])
    /\ LET r == asked[i]
       IN \/ /\ row = NoTurn
             /\ row' = Draft(r)
             /\ stage' = [stage EXCEPT ![i] = "stored"]
             /\ seen' = [seen EXCEPT ![i] = row']
             /\ merged' = [merged EXCEPT ![i] = row']
          \/ /\ row # NoTurn
             /\ Acceptable(row, r)
             /\ row' = Update(row, r)
             /\ stage' = [stage EXCEPT ![i] = "stored"]
             /\ seen' = [seen EXCEPT ![i] = row]
             /\ merged' = [merged EXCEPT ![i] = row']
          \/ /\ row # NoTurn
             /\ ~Acceptable(row, r)
             /\ stage' = [stage EXCEPT ![i] = "refused"]
             /\ UNCHANGED <<row, seen, merged>>
    /\ UNCHANGED <<durable, alive, asked>>

\* The call never arrives, or dies with its worker or its connection.
Lose(i) ==
    /\ stage[i] \in {"sent", "merged"}
    /\ stage' = [stage EXCEPT ![i] = "lost"]
    /\ UNCHANGED <<durable, row, alive, asked, seen, merged>>

\* Younger turns push it out of the buffer, or the session's time is up.
Evict ==
    /\ ~durable
    /\ row # NoTurn
    /\ row' = NoTurn
    /\ UNCHANGED <<durable, alive, stage, asked, seen, merged>>

DeleteSession ==
    /\ alive
    /\ alive' = FALSE
    /\ row' = NoTurn
    /\ UNCHANGED <<durable, stage, asked, seen, merged>>

Serve(i) == Refuse(i) \/ Begin(i) \/ Store(i) \/ Upsert(i) \/ Lose(i)

Next ==
    \/ \E i \in Posts : Serve(i) \/ \E r \in Requests : Send(i, r)
    \/ Evict
    \/ DeleteSession

Spec == Init /\ [][Next]_vars

-----------------------------------------------------------------------------
\* Properties

\* A turn says one thing: its scan status is one its own status allows, no
\* activity of a turn that has ended is under way or waiting, and a completed
\* turn has no failed or cancelled work.
Coherent(t) ==
    /\ t.scan \in ScansOf(t.status)
    /\ \A i \in 1..Len(t.activities) :
          /\ t.status \in Terminal => t.activities[i].status \notin {"pending", "running"}
          /\ t.status = "completed" => t.activities[i].status \in {"completed", "skipped"}

\* What is stored, and what any call in flight is about to store over it,
\* keeps to that, however the calls interleave and whatever they ask.
TurnCoherent ==
    /\ row # NoTurn => Coherent(row)
    /\ \A i \in Posts : stage[i] = "merged" => Coherent(merged[i])

\* The lifecycle a reader is promised.
TurnStage == IF row = NoTurn THEN "none" ELSE IF row.status = "generating" THEN "open" ELSE row.status
TurnSteps == IF row = NoTurn THEN <<>> ELSE row.activities
Lifecycle == INSTANCE MailTurnLifecycle WITH stage <- TurnStage, steps <- TurnSteps

\* The buffer keeps the promise.
TurnRefined == Lifecycle!Spec

\* The history store keeps it except where calls overlap: a step outside the
\* lifecycle stores over a turn that another call has changed since it was read.
LostByOverlap ==
    [][\/ Lifecycle!Next
       \/ \E i \in Posts : /\ stage[i] = "merged" /\ stage'[i] = "stored"
                           /\ seen[i] # row]_row

\* A call made again, its answer lost, would be accepted and change nothing.
ReplayHarmless ==
    \A i \in Posts : stage[i] = "merged" =>
        /\ Acceptable(merged[i], asked[i])
        /\ Update(merged[i], asked[i]) = merged[i]
=============================================================================
