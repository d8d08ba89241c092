--------------------------- MODULE MailTurnsProofs ---------------------------
(***************************************************************************)
(* The promises about the turn of an @mail scan: of the endpoint, for any  *)
(* number of calls with any payloads, and of the dashboard's scans, for    *)
(* any providers, attempts, stops and failures.                            *)
(***************************************************************************)
EXTENDS MailScans, SequenceTheorems, TLAPS

-----------------------------------------------------------------------------
\* Reconciliation

Activity == [code : Codes, status : ActivityStatus]

LEMMA ActivitiesFacts ==
    ASSUME NEW a \in Activities
    PROVE  /\ a \in Seq(Activity) /\ Len(a) \in Nat /\ DOMAIN a = 1..Len(a)
           /\ \A i \in 1..Len(a) : /\ a[i] \in Activity
                                   /\ a[i].code \in Codes /\ a[i].status \in ActivityStatus
<1>1. a \in Seq(Activity)
  BY DEF Activities, Activity
<1>2. Len(a) \in Nat /\ DOMAIN a = 1..Len(a)
  BY <1>1, LenProperties
<1>3. ASSUME NEW i \in 1..Len(a) PROVE a[i] \in Activity
  BY <1>1, ElementOfSeq
<1> QED BY <1>1, <1>2, <1>3 DEF Activity

LEMMA FunctionIsSeq ==
    ASSUME NEW S, NEW n \in Nat, NEW f \in [1..n -> S]
    PROVE  f \in Seq(S) /\ Len(f) = n
<1>1. [i \in 1..n |-> f[i]] \in Seq(S) /\ Len([i \in 1..n |-> f[i]]) = n
  OBVIOUS
<1>2. f = [i \in 1..n |-> f[i]]
  OBVIOUS
<1> QED BY <1>1, <1>2

LEMMA SameActivities ==
    ASSUME NEW a \in Activities, NEW b \in Activities, Len(a) = Len(b),
           \A i \in 1..Len(a) : a[i].code = b[i].code /\ a[i].status = b[i].status
    PROVE  a = b
<1>1. ASSUME NEW i \in 1..Len(a) PROVE a[i] = b[i]
  BY ActivitiesFacts DEF Activity
<1> QED BY <1>1, ActivitiesFacts, SeqEqual

\* Settling keeps the codes and touches unfinished work only.
LEMMA SettledIs ==
    ASSUME NEW a \in Activities, NEW s \in TurnStatus
    PROVE  /\ Settled(a, s) \in Activities
           /\ Len(Settled(a, s)) = Len(a)
           /\ \A i \in 1..Len(a) :
                 /\ Settled(a, s)[i].code = a[i].code
                 /\ Settled(a, s)[i].status =
                       IF s \in {"failed", "cancelled"}
                       THEN CASE a[i].status = "running" -> s
                              [] a[i].status = "pending" -> "skipped"
                              [] OTHER -> a[i].status
                       ELSE a[i].status
<1>1. CASE s \notin {"failed", "cancelled"}
  BY <1>1 DEF Settled
<1>2. CASE s \in {"failed", "cancelled"}
  <2> DEFINE new(i) == [a[i] EXCEPT !.status =
                CASE @ = "running" -> s [] @ = "pending" -> "skipped" [] OTHER -> @]
  <2>1. Settled(a, s) = [i \in 1..Len(a) |-> new(i)]
    BY <1>2 DEF Settled
  <2>2. ASSUME NEW i \in 1..Len(a)
        PROVE  /\ new(i) \in Activity
               /\ new(i).code = a[i].code
               /\ new(i).status = CASE a[i].status = "running" -> s
                                    [] a[i].status = "pending" -> "skipped"
                                    [] OTHER -> a[i].status
    BY <1>2, ActivitiesFacts DEF ActivityStatus, Activity
  <2>3. Settled(a, s) \in [1..Len(a) -> Activity]
    BY <2>1, <2>2
  <2>4. Settled(a, s) \in Seq(Activity) /\ Len(Settled(a, s)) = Len(a)
    BY <2>3, FunctionIsSeq, ActivitiesFacts
  <2>5. ASSUME NEW i \in 1..Len(a) PROVE Settled(a, s)[i] = new(i)
    BY <2>1
  <2> QED BY <1>2, <2>2, <2>4, <2>5 DEF Activities, Activity
<1> QED BY <1>1, <1>2

\* The status an activity is left with, in a turn of that status.
LEMMA SettledDone ==
    ASSUME NEW a \in Activities, NEW s \in TurnStatus, s = "completed" => Done(a)
    PROVE  \A i \in 1..Len(a) :
              /\ s \in Terminal => Settled(a, s)[i].status \notin {"pending", "running"}
              /\ s = "completed" => Settled(a, s)[i].status \in {"completed", "skipped"}
  BY SettledIs, ActivitiesFacts DEF Done, Terminal, TurnStatus, ActivityStatus

LEMMA NoActivities == <<>> \in Activities /\ Len(<<>>) = 0
  BY EmptySeq DEF Activities

LEMMA RequestFacts ==
    ASSUME NEW r \in Payload
    PROVE  /\ r.message \in Messages /\ r.status \in TurnStatus /\ r.scan \in ScanStatus
           /\ r.activities \in Activities
  BY DEF Payload

LEMMA MergeIs ==
    ASSUME NEW old \in Activities, NEW new \in Activities, Mergeable(old, new)
    PROVE  /\ Merge(old, new) \in Activities
           /\ Len(old) <= Len(Merge(old, new))
           /\ \A i \in 1..Len(old) : /\ Merge(old, new)[i].code = old[i].code
                                     /\ CanMove(old[i].status, Merge(old, new)[i].status)
<1>1. CASE new = <<>>
  BY <1>1, ActivitiesFacts DEF Merge, CanMove
<1>2. CASE new # <<>>
  BY <1>2, ActivitiesFacts DEF Merge, Mergeable
<1> QED BY <1>1, <1>2

\* What a request makes of the activities of a turn: none is lost, each moves
\* forward, and none is left open by an end.
LEMMA ReconciledIs ==
    ASSUME NEW old \in Activities, NEW r \in Payload, Reconcilable(old, r)
    PROVE  /\ Reconciled(old, r) \in Activities
           /\ Lifecycle!Forward(old, Reconciled(old, r))
           /\ \A i \in 1..Len(Reconciled(old, r)) :
                 /\ r.status \in Terminal =>
                       Reconciled(old, r)[i].status \notin {"pending", "running"}
                 /\ r.status = "completed" =>
                       Reconciled(old, r)[i].status \in {"completed", "skipped"}
<1> DEFINE m == Merge(old, r.activities)
           n == Reconciled(old, r)
<1>1. /\ r.activities \in Activities /\ r.status \in TurnStatus
      /\ Mergeable(old, r.activities) /\ (r.status = "completed" => Done(m))
  BY RequestFacts DEF Reconcilable
<1>2. /\ m \in Activities /\ Len(old) <= Len(m)
      /\ \A i \in 1..Len(old) : m[i].code = old[i].code /\ CanMove(old[i].status, m[i].status)
  BY <1>1, MergeIs
<1>3. n = Settled(m, r.status)
  BY DEF Reconciled
<1> HIDE DEF m, n
<1>4. /\ n \in Activities /\ Len(n) = Len(m)
      /\ \A i \in 1..Len(m) :
            /\ n[i].code = m[i].code
            /\ n[i].status = IF r.status \in {"failed", "cancelled"}
                             THEN CASE m[i].status = "running" -> r.status
                                    [] m[i].status = "pending" -> "skipped"
                                    [] OTHER -> m[i].status
                             ELSE m[i].status
  BY <1>1, <1>2, <1>3, SettledIs
<1>5. \A i \in 1..Len(n) :
         /\ r.status \in Terminal => n[i].status \notin {"pending", "running"}
         /\ r.status = "completed" => n[i].status \in {"completed", "skipped"}
  BY <1>1, <1>2, <1>3, <1>4, SettledDone
<1>6. ASSUME NEW i \in 1..Len(old)
      PROVE  /\ n[i].code = old[i].code
             /\ \/ n[i].status = old[i].status
                \/ Lifecycle!Rank[n[i].status] > Lifecycle!Rank[old[i].status]
  <2>1. i \in 1..Len(m)
    BY <1>2, ActivitiesFacts
  <2>2. old[i].status \in ActivityStatus /\ m[i].status \in ActivityStatus
    BY <2>1, <1>2, ActivitiesFacts
  <2>3. CanMove(old[i].status, m[i].status)
    BY <1>2
  <2>4. n[i].status = old[i].status
           \/ (old[i].status = "pending" /\ n[i].status # "pending")
           \/ (old[i].status = "running" /\ n[i].status \in {"completed", "failed", "cancelled"})
    BY <1>4, <2>1, <2>2, <2>3 DEF CanMove, ActivityStatus
  <2>5. n[i].status \in ActivityStatus
    BY <1>4, <2>1, ActivitiesFacts
  <2> QED BY <1>2, <1>4, <2>1, <2>2, <2>4, <2>5 DEF Lifecycle!Rank, ActivityStatus
<1> QED BY <1>2, <1>4, <1>5, <1>6, ActivitiesFacts DEF Lifecycle!Forward, m, n

\* The turn a request makes of given activities.
Made(old, r) == [r EXCEPT !.activities = Reconciled(old, r)]

LEMMA MadeIs ==
    ASSUME NEW old \in Activities, NEW r \in Payload, Reconcilable(old, r),
           r.scan \in ScansOf(r.status)
    PROVE  /\ Made(old, r) \in Turn
           /\ Coherent(Made(old, r))
           /\ Made(old, r).message = r.message /\ Made(old, r).status = r.status
           /\ Made(old, r).scan = r.scan
           /\ Made(old, r).activities = Reconciled(old, r)
<1>1. /\ Made(old, r).message = r.message /\ Made(old, r).status = r.status
      /\ Made(old, r).scan = r.scan
      /\ Made(old, r).activities = Reconciled(old, r)
  BY DEF Made, Payload
<1>2. Made(old, r) \in Turn
  BY ReconciledIs, RequestFacts DEF Made, Turn, Payload
<1>3. Coherent(Made(old, r))
  BY <1>1, ReconciledIs DEF Coherent
<1> QED BY <1>1, <1>2, <1>3

\* The same request again is accepted and makes the same turn.
LEMMA MadeAgain ==
    ASSUME NEW old \in Activities, NEW r \in Payload, Reconcilable(old, r),
           r.scan \in ScansOf(r.status)
    PROVE  Acceptable(Made(old, r), r) /\ Update(Made(old, r), r) = Made(old, r)
<1> DEFINE u == Made(old, r)
<1>1. /\ u \in Turn /\ u.message = r.message /\ u.status = r.status
      /\ u.activities = Reconciled(old, r)
  BY MadeIs
<1>2. CASE r.status # "generating"
  BY <1>1, <1>2 DEF Acceptable, Update
<1>3. CASE r.status = "generating"
  <2>1. u.activities = Merge(old, r.activities)
    BY <1>1, <1>3 DEF Reconciled, Settled
  <2>2. r.activities \in Activities /\ Mergeable(old, r.activities)
    BY RequestFacts DEF Reconcilable
  <2>3. Mergeable(u.activities, r.activities)
    <3>1. CASE r.activities = <<>>
      BY <3>1 DEF Mergeable
    <3>2. CASE r.activities # <<>>
      <4>1. u.activities = r.activities
        BY <2>1, <3>2 DEF Merge
      <4>2. Len(r.activities) \in Nat
        BY <2>2, ActivitiesFacts
      <4> QED BY <2>2, <3>2, <4>1, <4>2 DEF Mergeable, CanMove
    <3> QED BY <3>1, <3>2
  <2>4. Reconcilable(u.activities, r)
    BY <2>3, <1>3 DEF Reconcilable
  <2>5. Merge(u.activities, r.activities) = u.activities
    BY <2>1 DEF Merge
  <2>6. Reconciled(u.activities, r) = Reconciled(old, r)
    BY <1>1, <1>3, <2>5 DEF Reconciled, Settled
  <2> HIDE DEF u
  <2>7. Acceptable(u, r)
    BY <1>1, <1>3, <2>4 DEF Acceptable
  <2>8. Update(u, r) = [r EXCEPT !.activities = Reconciled(old, r)]
    BY <1>1, <1>3, <2>6 DEF Update
  <2> QED BY <2>7, <2>8 DEF u, Made
<1> QED BY <1>2, <1>3

LEMMA DraftIs ==
    ASSUME NEW r \in Payload, Valid(r)
    PROVE  /\ Draft(r) \in Turn /\ Coherent(Draft(r))
           /\ Draft(r).message = r.message /\ Draft(r).status = r.status
           /\ Draft(r).scan = r.scan /\ Draft(r).activities = Reconciled(<<>>, r)
           /\ Acceptable(Draft(r), r) /\ Update(Draft(r), r) = Draft(r)
<1>1. Draft(r) = Made(<<>>, r)
  BY DEF Draft, Made
<1>2. Reconcilable(<<>>, r) /\ r.scan \in ScansOf(r.status) /\ <<>> \in Activities
  BY NoActivities DEF Valid
<1> QED BY <1>1, <1>2, MadeIs, MadeAgain

LEMMA UpdateIs ==
    ASSUME NEW t \in Turn, NEW r \in Payload, Coherent(t), Valid(r), Acceptable(t, r)
    PROVE  /\ Update(t, r) \in Turn /\ Coherent(Update(t, r))
           /\ Update(t, r).message = t.message
           /\ Update(t, r).status = r.status
           /\ t.status # "generating" => Update(t, r) = t
           /\ t.status = "generating" =>
                 Reconcilable(t.activities, r) /\ Update(t, r) = Made(t.activities, r)
           /\ Acceptable(Update(t, r), r) /\ Update(Update(t, r), r) = Update(t, r)
<1>1. r.scan \in ScansOf(r.status) /\ t.activities \in Activities /\ t.message = r.message
  BY RequestFacts DEF Valid, Turn, Acceptable
<1>2. CASE t.status = "generating"
  <2>1. Reconcilable(t.activities, r) /\ Update(t, r) = Made(t.activities, r)
    BY <1>2 DEF Acceptable, Update, Made
  <2> QED BY <1>1, <1>2, <2>1, MadeIs, MadeAgain
<1>3. CASE t.status # "generating"
  BY <1>3 DEF Acceptable, Update
<1> QED BY <1>2, <1>3

-----------------------------------------------------------------------------
\* The endpoint

\* A call that has reconciled holds what its request makes of the turn it saw.
Kept(i) ==
    /\ Valid(asked[i])
    /\ Coherent(seen[i])
    /\ Acceptable(seen[i], asked[i])
    /\ merged[i] = Update(seen[i], asked[i])

RowCoherent == row # NoTurn => Coherent(row)
CallsKept == \A i \in Posts : stage[i] \in {"merged", "stored"} => Kept(i)

ServerInv == TypeOK /\ RowCoherent /\ CallsKept

LEMMA ServerInit == Init => ServerInv
  BY DEF Init, ServerInv, TypeOK, RowCoherent, CallsKept, Stages

\* What a call asks is a payload.
LEMMA AskedPayload ==
    ASSUME TypeOK, NEW i \in Posts, stage[i] # "unused"
    PROVE  asked[i] \in Requests /\ asked[i] \in Payload
<1>1. asked[i] \in Requests
  BY DEF TypeOK
<1> QED BY <1>1, ConstantsAssumption

LEMMA KeptTurn ==
    ASSUME TypeOK, CallsKept, NEW i \in Posts, stage[i] \in {"merged", "stored"}
    PROVE  /\ seen[i] \in Turn /\ merged[i] \in Turn
           /\ Coherent(merged[i])
           /\ Acceptable(merged[i], asked[i])
           /\ Update(merged[i], asked[i]) = merged[i]
<1>1. seen[i] \in Turn /\ asked[i] \in Payload /\ Kept(i)
  BY AskedPayload DEF TypeOK, CallsKept
<1> QED BY <1>1, UpdateIs DEF Kept

LEMMA SendKeeps ==
    ASSUME ServerInv, NEW i \in Posts, NEW r \in Requests, Send(i, r)
    PROVE  ServerInv'
<1>1. NoRequest # r
  BY ConstantsAssumption
<1>2. TypeOK'
  BY <1>1 DEF ServerInv, TypeOK, Send, Stages
<1>3. CallsKept'
  BY DEF ServerInv, TypeOK, CallsKept, Kept, Send
<1> QED BY <1>2, <1>3 DEF ServerInv, RowCoherent, Send

\* A call that ends without a turn of its own.
LEMMA GivenUp ==
    ASSUME ServerInv, NEW i \in Posts, NEW s \in {"refused", "lost"}, stage[i] # "unused",
           stage' = [stage EXCEPT ![i] = s],
           UNCHANGED <<durable, row, alive, asked, seen, merged>>
    PROVE  ServerInv'
<1>1. TypeOK'
  BY DEF ServerInv, TypeOK, Stages
<1>2. CallsKept'
  BY DEF ServerInv, TypeOK, CallsKept, Kept
<1> QED BY <1>1, <1>2 DEF ServerInv, RowCoherent

\* A call that has seen turn t, and either refuses it or makes its own of it.
LEMMA Reconciling ==
    ASSUME ServerInv, NEW i \in Posts, NEW t \in Turn, Coherent(t), stage[i] = "sent",
           Valid(asked[i]), Acceptable(t, asked[i]),
           NEW s \in {"merged", "stored"},
           stage' = [stage EXCEPT ![i] = s], seen' = [seen EXCEPT ![i] = t],
           merged' = [merged EXCEPT ![i] = Update(t, asked[i])],
           row' \in {t, Update(t, asked[i])},
           s = "merged" => durable, UNCHANGED <<durable, alive, asked>>
    PROVE  ServerInv'
<1>1. asked[i] \in Payload
  BY AskedPayload DEF ServerInv
<1>2. Update(t, asked[i]) \in Turn /\ Coherent(Update(t, asked[i]))
  BY <1>1, UpdateIs
<1>3. t # NoTurn /\ Update(t, asked[i]) # NoTurn
  BY <1>2, ConstantsAssumption
<1>4. TypeOK'
  BY <1>2, <1>3 DEF ServerInv, TypeOK, Stages
<1>5. CallsKept'
  BY DEF ServerInv, TypeOK, CallsKept, Kept
<1>6. RowCoherent'
  BY <1>2 DEF RowCoherent
<1> QED BY <1>4, <1>5, <1>6 DEF ServerInv

LEMMA BeginKeeps ==
    ASSUME ServerInv, NEW i \in Posts, Begin(i)
    PROVE  ServerInv'
<1> DEFINE r == asked[i]
           t == IF row = NoTurn THEN Draft(r) ELSE row
<1>1. /\ durable /\ stage[i] = "sent" /\ Valid(r) /\ row' = t
      /\ seen' = [seen EXCEPT ![i] = t] /\ UNCHANGED <<durable, alive, asked>>
      /\ \/ /\ Acceptable(t, r) /\ stage' = [stage EXCEPT ![i] = "merged"]
            /\ merged' = [merged EXCEPT ![i] = Update(t, r)]
         \/ /\ stage' = [stage EXCEPT ![i] = "refused"] /\ UNCHANGED merged
  BY DEF Begin
<1>2. r \in Payload
  BY <1>1, AskedPayload DEF ServerInv
<1>3. t \in Turn /\ Coherent(t)
  BY <1>1, <1>2, DraftIs DEF ServerInv, TypeOK, RowCoherent
<1> HIDE DEF t
<1>4. CASE Acceptable(t, r) /\ stage' = [stage EXCEPT ![i] = "merged"]
           /\ merged' = [merged EXCEPT ![i] = Update(t, r)]
  BY <1>1, <1>3, <1>4, Reconciling
<1>5. CASE stage' = [stage EXCEPT ![i] = "refused"] /\ UNCHANGED merged
  <2>1. TypeOK'
    BY <1>1, <1>3, <1>5 DEF ServerInv, TypeOK, Stages
  <2>2. CallsKept'
    BY <1>1, <1>5 DEF ServerInv, TypeOK, CallsKept, Kept
  <2> QED BY <2>1, <2>2, <1>1, <1>3 DEF ServerInv, RowCoherent
<1> QED BY <1>1, <1>4, <1>5

LEMMA StoreKeeps ==
    ASSUME ServerInv, NEW i \in Posts, Store(i)
    PROVE  ServerInv'
<1>1. CASE row = NoTurn
  BY <1>1, GivenUp DEF Store
<1>2. CASE row # NoTurn
  <2>1. /\ stage[i] = "merged" /\ row' = merged[i]
        /\ stage' = [stage EXCEPT ![i] = "stored"]
        /\ UNCHANGED <<durable, alive, asked, seen, merged>>
    BY <1>2 DEF Store
  <2>2. merged[i] \in Turn /\ Coherent(merged[i])
    BY <2>1, KeptTurn DEF ServerInv
  <2>3. TypeOK'
    BY <2>1, <2>2 DEF ServerInv, TypeOK, Stages
  <2>4. CallsKept'
    BY <2>1 DEF ServerInv, TypeOK, CallsKept, Kept
  <2> QED BY <2>1, <2>2, <2>3, <2>4 DEF ServerInv, RowCoherent
<1> QED BY <1>1, <1>2

\* The turn is dropped, with its session or from the buffer.
LEMMA DropKeeps ==
    ASSUME ServerInv, row' = NoTurn, alive' \in BOOLEAN,
           UNCHANGED <<durable, stage, asked, seen, merged>>
    PROVE  ServerInv'
<1>1. TypeOK'
  BY DEF ServerInv, TypeOK
<1>2. CallsKept'
  BY DEF ServerInv, TypeOK, CallsKept, Kept
<1> QED BY <1>1, <1>2 DEF ServerInv, RowCoherent

LEMMA UpsertKeeps ==
    ASSUME ServerInv, NEW i \in Posts, Upsert(i)
    PROVE  ServerInv'
<1> DEFINE r == asked[i]
<1>1. stage[i] = "sent" /\ Valid(r) /\ r \in Payload
  BY AskedPayload DEF Upsert, ServerInv
<1>2. CASE row = NoTurn
  BY <1>1, <1>2, DraftIs, Reconciling DEF Upsert
<1>3. CASE row # NoTurn /\ Acceptable(row, r)
  BY <1>1, <1>3, Reconciling DEF Upsert, ServerInv, TypeOK, RowCoherent
<1>4. CASE row # NoTurn /\ ~Acceptable(row, r)
  BY <1>1, <1>4, GivenUp DEF Upsert
<1> QED BY <1>2, <1>3, <1>4

LEMMA ServerStep ==
    ASSUME ServerInv, [Next]_vars
    PROVE  ServerInv'
<1>1. ASSUME NEW i \in Posts, Refuse(i) PROVE ServerInv'
  BY <1>1, GivenUp DEF Refuse
<1>2. ASSUME NEW i \in Posts, Lose(i) PROVE ServerInv'
  BY <1>2, GivenUp DEF Lose
<1>3. CASE DeleteSession \/ Evict
  BY <1>3, DropKeeps DEF DeleteSession, Evict, ServerInv, TypeOK
<1>4. CASE UNCHANGED vars
  BY <1>4 DEF vars, ServerInv, TypeOK, RowCoherent, CallsKept, Kept
<1> QED BY <1>1, <1>2, <1>3, <1>4, SendKeeps, BeginKeeps, StoreKeeps, UpsertKeeps
        DEF Next, Serve

LEMMA ServerCorrect == Spec => []ServerInv
<1>1. ServerInv /\ [Next]_vars => ServerInv'
  BY ServerStep
<1> QED BY <1>1, ServerInit, PTL DEF Spec

\* Every value of the endpoint's state has its type.
THEOREM TypeCorrect == Spec => []TypeOK
<1>1. ServerInv => TypeOK
  BY DEF ServerInv
<1> QED BY <1>1, ServerCorrect, PTL

\* However calls interleave, what is stored and what is about to be stored is
\* coherent.
THEOREM CoherentCorrect == Spec => []TurnCoherent
<1>1. ServerInv => TurnCoherent
  BY KeptTurn DEF ServerInv, TurnCoherent, RowCoherent
<1> QED BY <1>1, ServerCorrect, PTL

\* A call that is made again would be accepted and change nothing.
THEOREM ReplayCorrect == Spec => []ReplayHarmless
<1>1. ServerInv => ReplayHarmless
  BY KeptTurn DEF ServerInv, ReplayHarmless
<1> QED BY <1>1, ServerCorrect, PTL

-----------------------------------------------------------------------------
\* The lifecycle

LEMMA CoherentEnds ==
    ASSUME NEW t \in Turn, Coherent(t)
    PROVE  /\ t.activities \in Lifecycle!Activities
           /\ t.status \in Terminal => Lifecycle!Ended(t.status, t.activities)
           /\ t.status = "generating" => Lifecycle!Ended("open", t.activities)
<1>1. t.activities \in Activities
  BY RequestFacts DEF Turn
<1>2. DOMAIN Lifecycle!Rank = ActivityStatus
  BY DEF Lifecycle!Rank, ActivityStatus
<1>3. t.activities \in Lifecycle!Activities
  BY <1>1, <1>2 DEF Activities, Lifecycle!Activities
<1>4. t.status \in Terminal => Lifecycle!Ended(t.status, t.activities)
  <2> SUFFICES ASSUME t.status \in Terminal, NEW i \in 1..Len(t.activities)
               PROVE  /\ Lifecycle!Rank[t.activities[i].status] = 2
                      /\ t.status = "completed" =>
                            t.activities[i].status \in {"completed", "skipped"}
    BY DEF Lifecycle!Ended
  <2>1. t.activities[i].status \in ActivityStatus
    BY <1>1, ActivitiesFacts
  <2> QED BY <2>1 DEF Coherent, Lifecycle!Rank, ActivityStatus, Terminal
<1>5. Lifecycle!Ended("open", t.activities)
  BY DEF Lifecycle!Ended, Lifecycle!Ends
<1> QED BY <1>3, <1>4, <1>5

\* A turn replaced by what a request makes of it takes a step of the lifecycle.
LEMMA UpdateRecords ==
    ASSUME NEW t \in Turn, NEW r \in Payload, Coherent(t), Valid(r), Acceptable(t, r),
           row = t, row' = Update(t, r)
    PROVE  Lifecycle!Next \/ UNCHANGED row
<1>1. CASE t.status # "generating"
  BY <1>1, UpdateIs
<1>2. CASE t.status = "generating"
  <2>1. /\ row' \in Turn /\ Coherent(row') /\ row'.status = r.status
        /\ Reconcilable(t.activities, r) /\ t.activities \in Activities
        /\ row'.activities = Reconciled(t.activities, r)
    BY <1>2, UpdateIs, MadeIs, RequestFacts DEF Valid, Turn
  <2>2. row # NoTurn /\ row' # NoTurn /\ r.status \in TurnStatus
    BY <2>1, ConstantsAssumption, RequestFacts
  <2>3. TurnStage = "open" /\ TurnSteps = t.activities
    BY <1>2, <2>2 DEF TurnStage, TurnSteps
  <2>4. /\ TurnStage' = IF row'.status = "generating" THEN "open" ELSE row'.status
        /\ TurnSteps' = row'.activities
    BY <2>2 DEF TurnStage, TurnSteps
  <2>5. Lifecycle!Forward(TurnSteps, TurnSteps')
    BY <2>1, <2>3, <2>4, ReconciledIs
  <2>6. Lifecycle!Ended(TurnStage', TurnSteps') /\ TurnSteps' \in Lifecycle!Activities
    BY <2>1, <2>2, <2>4, CoherentEnds DEF TurnStatus
  <2> QED BY <2>1, <2>2, <2>3, <2>4, <2>5, <2>6
          DEF Lifecycle!Next, Lifecycle!Record, Lifecycle!Ends, TurnStatus, Terminal
<1> QED BY <1>1, <1>2

LEMMA DraftRecords ==
    ASSUME NEW r \in Payload, Valid(r), row = NoTurn, row' = Draft(r)
    PROVE  Lifecycle!Next
<1>1. /\ row' \in Turn /\ Coherent(row') /\ row'.status \in TurnStatus
  BY DraftIs, RequestFacts
<1>2. row' # NoTurn
  BY <1>1, ConstantsAssumption
<1>3. TurnStage = "none" /\ TurnSteps = <<>>
  BY DEF TurnStage, TurnSteps
<1>4. /\ TurnStage' = IF row'.status = "generating" THEN "open" ELSE row'.status
      /\ TurnSteps' = row'.activities
  BY <1>2 DEF TurnStage, TurnSteps
<1>5. Lifecycle!Forward(TurnSteps, TurnSteps')
  BY <1>1, <1>3, <1>4, NoActivities, ActivitiesFacts, RequestFacts DEF Lifecycle!Forward, Turn
<1>6. Lifecycle!Ended(TurnStage', TurnSteps') /\ TurnSteps' \in Lifecycle!Activities
  BY <1>1, <1>4, CoherentEnds DEF TurnStatus
<1> QED BY <1>1, <1>3, <1>4, <1>5, <1>6
        DEF Lifecycle!Next, Lifecycle!Record, Lifecycle!Ends, TurnStatus, Terminal

LEMMA DropRecords ==
    ASSUME row' = NoTurn
    PROVE  Lifecycle!Next
  BY DEF Lifecycle!Next, Lifecycle!Forget, TurnStage, TurnSteps

LEMMA SameRow ==
    ASSUME UNCHANGED row
    PROVE  UNCHANGED <<TurnStage, TurnSteps>>
  BY DEF TurnStage, TurnSteps

Overlap == \E i \in Posts : stage[i] = "merged" /\ stage'[i] = "stored" /\ seen[i] # row

LEMMA LifecycleStep ==
    ASSUME ServerInv, [Next]_vars
    PROVE  Lifecycle!Next \/ UNCHANGED row \/ (durable /\ Overlap)
<1>1. ASSUME NEW i \in Posts, Begin(i) PROVE Lifecycle!Next \/ UNCHANGED row
  <2>1. asked[i] \in Payload /\ Valid(asked[i])
    BY <1>1, AskedPayload DEF ServerInv, Begin
  <2> QED BY <1>1, <2>1, DraftRecords DEF Begin
<1>2. ASSUME NEW i \in Posts, Store(i)
      PROVE  Lifecycle!Next \/ UNCHANGED row \/ (durable /\ Overlap)
  <2>1. stage[i] = "merged" /\ durable /\ asked[i] \in Payload /\ Kept(i)
    BY <1>2, AskedPayload DEF ServerInv, TypeOK, CallsKept, Store
  <2>2. CASE seen[i] # row /\ row # NoTurn
    BY <1>2, <2>1, <2>2 DEF Store, ServerInv, TypeOK, Overlap
  <2>3. CASE seen[i] = row /\ row # NoTurn
    BY <1>2, <2>1, <2>3, UpdateRecords DEF Store, Kept, ServerInv, TypeOK
  <2> QED BY <1>2, <2>2, <2>3 DEF Store
<1>3. ASSUME NEW i \in Posts, Upsert(i) PROVE Lifecycle!Next \/ UNCHANGED row
  <2>1. asked[i] \in Payload /\ Valid(asked[i])
    BY <1>3, AskedPayload DEF ServerInv, Upsert
  <2>2. CASE row = NoTurn /\ row' = Draft(asked[i])
    BY <2>1, <2>2, DraftRecords
  <2>3. CASE row # NoTurn /\ Acceptable(row, asked[i]) /\ row' = Update(row, asked[i])
    BY <2>1, <2>3, UpdateRecords DEF ServerInv, TypeOK, RowCoherent
  <2> QED BY <1>3, <2>2, <2>3 DEF Upsert
<1>4. CASE Evict \/ DeleteSession
  BY <1>4, DropRecords DEF Evict, DeleteSession
<1>5. CASE \E i \in Posts : Refuse(i) \/ Lose(i) \/ \E r \in Requests : Send(i, r)
  BY <1>5 DEF Refuse, Lose, Send
<1>6. CASE UNCHANGED vars
  BY <1>6 DEF vars
<1> QED BY <1>1, <1>2, <1>3, <1>4, <1>5, <1>6 DEF Next, Serve

\* Without a history store the endpoint keeps the promised lifecycle, whatever
\* is posted: every step is one of the lifecycle or leaves it alone.
THEOREM BufferCorrect == Spec /\ ~durable => TurnRefined
<1>1. Init => Lifecycle!Init
  BY DEF Init, Lifecycle!Init, TurnStage, TurnSteps
<1>2. ServerInv /\ ~durable /\ [Next]_vars => [Lifecycle!Next]_<<TurnStage, TurnSteps>>
  BY LifecycleStep, SameRow
<1>3. [Next]_vars => UNCHANGED durable
  BY DEF Next, Serve, Send, Refuse, Begin, Store, Upsert, Lose, Evict, DeleteSession, vars
<1>4. ~durable /\ [Next]_vars => ~durable'
  BY <1>3
<1> QED BY <1>1, <1>2, <1>4, ServerCorrect, PTL DEF Spec, TurnRefined, Lifecycle!Spec

\* With one, a step outside that lifecycle is a call storing over a turn that
\* another has changed since it was read.
THEOREM OverlapCorrect == Spec => LostByOverlap
<1>1. ServerInv /\ [Next]_vars =>
        [\/ Lifecycle!Next
         \/ \E i \in Posts : /\ stage[i] = "merged" /\ stage'[i] = "stored"
                             /\ seen[i] # row]_row
  BY LifecycleStep DEF Overlap
<1> QED BY <1>1, ServerCorrect, PTL DEF Spec, LostByOverlap

-----------------------------------------------------------------------------
\* The dashboard's snapshots

LEMMA SnapshotsAre ==
    /\ \A a \in Snapshots : a \in Activities /\ Len(a) = 3 /\ \A i \in 1..3 : a[i].code = Plan[i]
    /\ \A a \in Activities : Len(a) = 3 /\ (\A i \in 1..3 : a[i].code = Plan[i]) => a \in Snapshots
<1> DEFINE snap(f) == [i \in 1..3 |-> [code |-> Plan[i], status |-> f[i]]]
<1>1. ASSUME NEW f \in [1..3 -> ActivityStatus]
      PROVE  /\ snap(f) \in Activities /\ Len(snap(f)) = 3
             /\ \A i \in 1..3 : snap(f)[i] = [code |-> Plan[i], status |-> f[i]]
  <2>1. snap(f) \in [1..3 -> Activity]
    BY DashboardAssumption, ConstantsAssumption DEF Activity
  <2> QED BY <2>1, FunctionIsSeq DEF Activities, Activity
<1>2. \A a \in Snapshots : a \in Activities /\ Len(a) = 3 /\ \A i \in 1..3 : a[i].code = Plan[i]
  BY <1>1 DEF Snapshots
<1>3. ASSUME NEW a \in Activities, Len(a) = 3, \A i \in 1..3 : a[i].code = Plan[i]
      PROVE  a \in Snapshots
  <2> DEFINE g == [i \in 1..3 |-> a[i].status]
  <2>1. g \in [1..3 -> ActivityStatus]
    BY <1>3, ActivitiesFacts
  <2>2. /\ snap(g) \in Activities /\ Len(snap(g)) = Len(a)
        /\ \A i \in 1..3 : snap(g)[i] = [code |-> Plan[i], status |-> g[i]]
    BY <1>1, <1>3, <2>1
  <2>3. \A i \in 1..Len(a) : a[i].code = snap(g)[i].code /\ a[i].status = snap(g)[i].status
    BY <1>3, <2>2
  <2>4. a = snap(g)
    BY <2>2, <2>3, SameActivities
  <2> QED BY <2>1, <2>4 DEF Snapshots
<1> QED BY <1>2, <1>3

LEMMA StepsAre ==
    ASSUME NEW a \in ActivityStatus, NEW b \in ActivityStatus, NEW c \in ActivityStatus
    PROVE  /\ Steps(a, b, c) \in Snapshots
           /\ Steps(a, b, c) \in Activities /\ Len(Steps(a, b, c)) = 3
           /\ Steps(a, b, c)[1].status = a /\ Steps(a, b, c)[2].status = b
           /\ Steps(a, b, c)[3].status = c
<1> DEFINE s == Steps(a, b, c)
<1>1. /\ [code |-> Plan[1], status |-> a] \in Activity
      /\ [code |-> Plan[2], status |-> b] \in Activity
      /\ [code |-> Plan[3], status |-> c] \in Activity
  BY DashboardAssumption, ConstantsAssumption DEF Activity
<1>2. /\ s \in Seq(Activity) /\ Len(s) = 3
      /\ s[1] = [code |-> Plan[1], status |-> a] /\ s[2] = [code |-> Plan[2], status |-> b]
      /\ s[3] = [code |-> Plan[3], status |-> c]
  BY <1>1 DEF Steps
<1>3. s \in Activities
  BY <1>2 DEF Activities, Activity
<1>4. \A i \in 1..3 : s[i].code = Plan[i]
  BY <1>2
<1> QED BY <1>2, <1>3, <1>4, SnapshotsAre

LEMMA SettledSnapshot ==
    ASSUME NEW a \in Snapshots, NEW s \in TurnStatus
    PROVE  Settled(a, s) \in Snapshots
<1>1. a \in Activities /\ Len(a) = 3 /\ \A i \in 1..3 : a[i].code = Plan[i]
  BY SnapshotsAre
<1>2. /\ Settled(a, s) \in Activities /\ Len(Settled(a, s)) = 3
      /\ \A i \in 1..3 : Settled(a, s)[i].code = Plan[i]
  BY <1>1, SettledIs
<1> QED BY <1>2, SnapshotsAre

LEMMA DashboardPayloads == DashboardRequests \subseteq Payload /\ DashboardRequests \subseteq Requests
<1>1. Requests \subseteq Payload
  BY ConstantsAssumption
<1> QED BY <1>1, DashboardAssumption

\* What the endpoint makes of the dashboard's requests looks like one of them.
LEMMA DashboardTurn ==
    ASSUME NEW old \in Activities, NEW r \in DashboardRequests
    PROVE  Made(old, r) \in DashboardRequests /\ Merge(old, r.activities) = r.activities
<1>1. r.activities \in Snapshots /\ r.status \in TurnStatus
  BY DEF DashboardRequests
<1>2. Len(r.activities) = 3 /\ Len(<<>>) = 0
  BY <1>1, SnapshotsAre, NoActivities
<1>3. r.activities # <<>>
  BY <1>2
<1>4. Merge(old, r.activities) = r.activities
  BY <1>3 DEF Merge
<1>5. Reconciled(old, r) \in Snapshots
  BY <1>1, <1>4, SettledSnapshot DEF Reconciled
<1> QED BY <1>4, <1>5 DEF Made, DashboardRequests

LEMMA ReportIs ==
    ASSUME NEW s \in ScanStatus
    PROVE  /\ Report(s) \in DashboardRequests
           /\ Report(s).message = Text /\ Report(s).status = StatusOf(s)
           /\ Report(s).scan = s /\ Report(s).activities = Snapshot(s)
           /\ Snapshot(s) \in Snapshots /\ StatusOf(s) \in TurnStatus
<1>1. Snapshot(s) \in Snapshots
  BY StepsAre DEF Snapshot, ActivityStatus
<1>2. StatusOf(s) \in TurnStatus
  BY DEF StatusOf, TurnStatus, Terminal
<1> QED BY <1>1, <1>2 DEF Report, DashboardRequests

LEMMA AggregateIs == \A p : Aggregate(p) \in ScanStatus
  BY DEF Aggregate, ScanStatus

-----------------------------------------------------------------------------
\* The dashboard's state has its types, and the endpoint sees its requests only

DashboardOnly ==
    /\ row # NoTurn => row \in DashboardRequests
    /\ \A i \in Posts :
          /\ stage[i] # "unused" => asked[i] \in DashboardRequests
          /\ stage[i] \in {"merged", "stored"} => merged[i] \in DashboardRequests

Started == phase # "idle" => attempt # 0

DashInv == ServerInv /\ ScanTypeOK /\ DashboardOnly /\ Started

LEMMA DashInit == ScanInit => DashInv
<1> SUFFICES ASSUME ScanInit PROVE DashInv
  OBVIOUS
<1>1. ServerInv
  BY ServerInit DEF ScanInit
<1>2. Snapshot("connecting") \in Snapshots /\ "connecting" \in ScanStatus
  BY ReportIs DEF ScanStatus
<1>3. <<>> \in Seq(Entry)
  BY EmptySeq
<1>4. ScanTypeOK
  BY <1>1, <1>2, <1>3, DashboardAssumption DEF ServerInv, ScanTypeOK, ScanInit
<1>5. DashboardOnly
  BY DEF ScanInit, Init, DashboardOnly
<1> QED BY <1>1, <1>4, <1>5 DEF DashInv, Started, ScanInit

\* Every step of the dashboard and its endpoint is one the endpoint can take.
LEMMA ServesDashboard ==
    ASSUME ScanTypeOK, [ScanNext]_scanVars
    PROVE  [Next]_vars
<1>1. ASSUME NEW i \in Posts, PostNext(i) PROVE Next
  <2>1. Head(queue) \in Entry
    BY <1>1, HeadTailProperties DEF PostNext, ScanTypeOK
  <2>2. Head(queue).request \in Requests
    BY <2>1, DashboardPayloads DEF Entry
  <2> QED BY <1>1, <2>2 DEF PostNext, Next
<1>2. ASSUME NEW i \in Posts, ScanFails(i) PROVE Next
  <2>1. Report("failed") \in Requests
    BY ReportIs, DashboardPayloads DEF ScanStatus
  <2> QED BY <1>2, <2>1 DEF ScanFails, Next
<1>3. ASSUME NEW i \in Posts, ServeScan(i) \/ Crash(i) PROVE Next
  BY <1>3 DEF ServeScan, Crash, Next, Serve
<1>4. ASSUME NEW i \in Posts, Answer(i) \/ LoseAnswer(i) PROVE UNCHANGED vars
  BY <1>4 DEF Answer, LoseAnswer
<1>5. ASSUME NEW p \in Providers, NEW s \in Reported, Publish(p, s) PROVE UNCHANGED vars
  BY <1>5 DEF Publish
<1>6. CASE Start \/ DropNext \/ Finish \/ StopScan \/ StopSaving
  BY <1>6 DEF Start, DropNext, Finish, StopScan, StopSaving, Abort
<1>7. CASE Delete \/ Forget
  BY <1>7 DEF Delete, Forget, Next
<1>8. CASE UNCHANGED scanVars
  BY <1>8 DEF scanVars
<1> QED BY <1>1, <1>2, <1>3, <1>4, <1>5, <1>6, <1>7, <1>8 DEF ScanNext

LEMMA SendDashboard ==
    ASSUME DashInv, NEW i \in Posts, NEW r \in DashboardRequests, Send(i, r)
    PROVE  DashboardOnly'
  BY DEF DashInv, ServerInv, TypeOK, DashboardOnly, Send

LEMMA BeginDashboard ==
    ASSUME DashInv, NEW i \in Posts, Begin(i)
    PROVE  DashboardOnly'
<1> DEFINE r == asked[i]
           t == IF row = NoTurn THEN Draft(r) ELSE row
<1>1. /\ stage[i] = "sent" /\ Valid(r) /\ row' = t /\ UNCHANGED asked
      /\ \/ /\ Acceptable(t, r) /\ stage' = [stage EXCEPT ![i] = "merged"]
            /\ merged' = [merged EXCEPT ![i] = Update(t, r)]
         \/ /\ stage' = [stage EXCEPT ![i] = "refused"] /\ UNCHANGED merged
  BY DEF Begin
<1>2. r \in DashboardRequests /\ r \in Payload
  BY <1>1, DashboardPayloads DEF DashInv, DashboardOnly
<1>3. t \in DashboardRequests
  <2>1. CASE row = NoTurn
    BY <1>2, <2>1, DashboardTurn, NoActivities DEF Draft, Made
  <2> QED BY <2>1 DEF DashInv, DashboardOnly
<1>4. Update(t, r) \in DashboardRequests
  BY <1>2, <1>3, DashboardTurn, RequestFacts, DashboardPayloads DEF Update, Made, Turn
<1> QED BY <1>1, <1>3, <1>4 DEF DashInv, ServerInv, TypeOK, DashboardOnly

LEMMA UpsertDashboard ==
    ASSUME DashInv, NEW i \in Posts, Upsert(i)
    PROVE  DashboardOnly'
<1> DEFINE r == asked[i]
<1>1. r \in DashboardRequests /\ r \in Payload
  BY DashboardPayloads DEF Upsert, DashInv, DashboardOnly
<1>2. Draft(r) \in DashboardRequests
  BY <1>1, DashboardTurn, NoActivities DEF Draft, Made
<1>3. row # NoTurn => Update(row, r) \in DashboardRequests
  BY <1>1, DashboardTurn, RequestFacts, DashboardPayloads DEF Update, Made, DashInv, DashboardOnly
<1>4. \/ /\ row' \in DashboardRequests
         /\ stage' = [stage EXCEPT ![i] = "stored"] /\ merged' = [merged EXCEPT ![i] = row']
      \/ stage' = [stage EXCEPT ![i] = "refused"] /\ UNCHANGED <<row, merged>>
  BY <1>2, <1>3 DEF Upsert
<1>5. UNCHANGED asked /\ stage[i] = "sent"
  BY DEF Upsert
<1> QED BY <1>1, <1>4, <1>5 DEF DashInv, ServerInv, TypeOK, DashboardOnly

LEMMA DashboardOnlyStep ==
    ASSUME DashInv, [ScanNext]_scanVars
    PROVE  DashboardOnly'
<1>1. ASSUME NEW i \in Posts, PostNext(i) PROVE DashboardOnly'
  <2>1. Head(queue) \in Entry
    BY <1>1, HeadTailProperties DEF PostNext, DashInv, ScanTypeOK
  <2> QED BY <1>1, <2>1, SendDashboard DEF PostNext, Entry
<1>2. ASSUME NEW i \in Posts, ScanFails(i) PROVE DashboardOnly'
  BY <1>2, SendDashboard, ReportIs DEF ScanFails, ScanStatus
<1>3. ASSUME NEW i \in Posts, Refuse(i) \/ Lose(i) PROVE DashboardOnly'
  BY <1>3 DEF Refuse, Lose, DashInv, ServerInv, TypeOK, DashboardOnly
<1>4. ASSUME NEW i \in Posts, Store(i) PROVE DashboardOnly'
  BY <1>4 DEF Store, DashInv, ServerInv, TypeOK, DashboardOnly
<1>5. ASSUME NEW i \in Posts, ServeScan(i) \/ Crash(i) PROVE DashboardOnly'
  BY <1>3, <1>4, <1>5, BeginDashboard, UpsertDashboard DEF ServeScan, Crash
<1>6. CASE UNCHANGED vars
  BY <1>6 DEF vars, DashInv, DashboardOnly
<1>7. ASSUME NEW i \in Posts, Answer(i) \/ LoseAnswer(i) PROVE UNCHANGED vars
  BY <1>7 DEF Answer, LoseAnswer
<1>8. ASSUME NEW p \in Providers, NEW s \in Reported, Publish(p, s) PROVE UNCHANGED vars
  BY <1>8 DEF Publish
<1>9. CASE Start \/ DropNext \/ Finish \/ StopScan \/ StopSaving
  BY <1>6, <1>9 DEF Start, DropNext, Finish, StopScan, StopSaving, Abort
<1>10. CASE Delete \/ Forget
  BY <1>10 DEF Delete, DeleteSession, Forget, Evict, DashInv, DashboardOnly
<1>11. CASE UNCHANGED scanVars
  BY <1>6, <1>11 DEF scanVars
<1> QED BY <1>1, <1>2, <1>5, <1>6, <1>7, <1>8, <1>9, <1>10, <1>11 DEF ScanNext

LEMMA QueueTypes ==
    ASSUME ScanTypeOK
    PROVE  /\ \A r \in DashboardRequests, n \in 0..MaxAttempts :
                 Append(queue, [request |-> r, attempt |-> n]) \in Seq(Entry)
           /\ queue # <<>> => /\ Head(queue) \in Entry
                              /\ Head(queue).request \in DashboardRequests
                              /\ Head(queue).attempt \in 0..MaxAttempts
                              /\ Tail(queue) \in Seq(Entry)
<1>1. queue \in Seq(Entry)
  BY DEF ScanTypeOK
<1>2. ASSUME NEW r \in DashboardRequests, NEW n \in 0..MaxAttempts
      PROVE  Append(queue, [request |-> r, attempt |-> n]) \in Seq(Entry)
  BY <1>1, AppendProperties DEF Entry
<1>3. queue # <<>> => Head(queue) \in Entry /\ Tail(queue) \in Seq(Entry)
  BY <1>1, HeadTailProperties
<1> QED BY <1>2, <1>3 DEF Entry

LEMMA ScanTypesStep ==
    ASSUME DashInv, TypeOK', [ScanNext]_scanVars
    PROVE  ScanTypeOK'
<1> USE DashboardAssumption
<1>1. ScanTypeOK
  BY DEF DashInv
<1>2. CASE Start
  <2>1. Report("connecting") \in DashboardRequests /\ Snapshot("connecting") \in Snapshots
    BY ReportIs DEF ScanStatus
  <2>2. attempt' \in 0..MaxAttempts
    BY <1>1, <1>2 DEF Start, ScanTypeOK
  <2>3. queue' \in Seq(Entry)
    BY <1>1, <1>2, <2>1, <2>2, QueueTypes DEF Start, Enqueue
  <2>4. trouble' \subseteq Troubles
    BY <1>1, <1>2 DEF Start, ScanTypeOK, Strike, Troubles
  <2> QED BY <1>1, <1>2, <2>1, <2>2, <2>3, <2>4 DEF Start, ScanTypeOK, TurnStatus
<1>3. ASSUME NEW p \in Providers, NEW s \in Reported, Publish(p, s) PROVE ScanTypeOK'
  <2> DEFINE now == Aggregate(polled')
  <2>1. now \in ScanStatus /\ Report(now) \in DashboardRequests /\ Snapshot(now) \in Snapshots
    BY AggregateIs, ReportIs
  <2>2. /\ shownScan' = now /\ shown' = Snapshot(now)
        /\ phase' = IF StatusOf(now) = "generating" THEN "scanning" ELSE "saving"
        /\ polled' = [polled EXCEPT ![p] = s]
        /\ queue' = Append(queue, [request |-> Report(now), attempt |-> attempt]) \/ queue' = queue
        /\ UNCHANGED <<vars, attempt, verdict, awaited, owner, aborted, trouble>>
    <3>1. \/ Len(queue) < MaxQueue /\ Enqueue(Report(now), attempt)
          \/ now = Aggregate(polled) /\ UNCHANGED queue
      BY <1>3 DEF Publish
    <3> QED BY <1>3, <3>1 DEF Publish, Enqueue
  <2> HIDE DEF now
  <2>3. queue' \in Seq(Entry)
    <3>1. queue \in Seq(Entry) /\ attempt \in 0..MaxAttempts
      BY <1>1 DEF ScanTypeOK
    <3> QED BY <1>1, <2>1, <2>2, <3>1, QueueTypes
  <2>4. polled' \in [Providers -> ScanStatus \cup {"unknown"}]
    BY <1>1, <2>2 DEF ScanTypeOK
  <2> QED BY <1>1, <2>1, <2>2, <2>3, <2>4 DEF ScanTypeOK
<1>4. ASSUME NEW i \in Posts, PostNext(i) PROVE ScanTypeOK'
  <2>1. /\ queue # <<>> /\ queue' = Tail(queue)
        /\ awaited' = [awaited EXCEPT ![i] = "queue"]
        /\ owner' = [owner EXCEPT ![i] = Head(queue).attempt]
        /\ UNCHANGED <<attempt, phase, verdict, polled, shownScan, shown, aborted, trouble>>
    BY <1>4 DEF PostNext
  <2> QED BY <1>1, <2>1, QueueTypes DEF ScanTypeOK
<1>5. CASE DropNext
  BY <1>1, <1>5, QueueTypes DEF ScanTypeOK, DropNext
<1>6. ASSUME NEW i \in Posts, Answer(i) PROVE ScanTypeOK'
  <2>1. stage[i] = "stored" => merged[i].activities \in Snapshots
    BY DEF DashInv, DashboardOnly, DashboardRequests
  <2> QED BY <1>1, <1>6, <2>1 DEF ScanTypeOK, Answer
<1>7. ASSUME NEW i \in Posts, LoseAnswer(i) \/ Crash(i) PROVE ScanTypeOK'
  BY <1>1, <1>7 DEF ScanTypeOK, LoseAnswer, Crash, Strike, Troubles
<1>8. StatusOf(Aggregate(polled)) \in TurnStatus
  BY AggregateIs, ReportIs
<1>9. CASE Finish
  BY <1>1, <1>8, <1>9 DEF ScanTypeOK, Finish, Conclude
<1>10. Settled(shown, "cancelled") \in Snapshots
  BY <1>1, SettledSnapshot DEF ScanTypeOK, TurnStatus, Terminal
<1>11. ASSUME Abort, phase \in {"scanning", "saving"}
       PROVE  /\ aborted' \subseteq Attempts
              /\ awaited' \in [Posts -> {"no", "queue", "aside"}]
              /\ trouble' \subseteq Troubles
              /\ UNCHANGED <<vars, attempt, polled, shownScan, owner>>
  BY <1>1, <1>11 DEF ScanTypeOK, Abort, Strike, Troubles, DashInv, Started, Attempts
<1>12. CASE StopScan
  <2>1. StopReport \in DashboardRequests
    BY <1>1, <1>10 DEF StopReport, DashboardRequests, TurnStatus, Terminal, ScanTypeOK
  <2>2. queue' \in Seq(Entry)
    BY <1>1, <1>12, <2>1, QueueTypes DEF StopScan, Enqueue
  <2>3. Abort /\ phase = "scanning" /\ phase' = "over" /\ verdict' = "cancelled"
        /\ shown' = Settled(shown, "cancelled")
    BY <1>12 DEF StopScan
  <2> QED BY <1>1, <1>10, <1>11, <2>2, <2>3 DEF ScanTypeOK, TurnStatus, Terminal
<1>13. CASE StopSaving
  <2>1. Abort /\ phase = "saving" /\ Conclude /\ UNCHANGED <<shown, queue>>
    BY <1>13 DEF StopSaving
  <2> QED BY <1>1, <1>8, <1>11, <2>1 DEF ScanTypeOK, Conclude
<1>14. ASSUME NEW i \in Posts, ScanFails(i) PROVE ScanTypeOK'
  <2>1. Snapshot("failed") \in Snapshots
    BY ReportIs DEF ScanStatus
  <2> QED BY <1>1, <1>14, <2>1 DEF ScanTypeOK, ScanFails, Strike, Troubles, TurnStatus,
                                   Terminal, ScanStatus
<1>15. ASSUME NEW i \in Posts, ServeScan(i) PROVE ScanTypeOK'
  BY <1>1, <1>15 DEF ScanTypeOK, ServeScan, clientVars
<1>16. CASE Delete \/ Forget
  BY <1>1, <1>16 DEF ScanTypeOK, Delete, Forget, Strike, Troubles
<1>17. CASE UNCHANGED scanVars
  BY <1>1, <1>17 DEF ScanTypeOK, scanVars, clientVars
<1> QED BY <1>2, <1>3, <1>4, <1>5, <1>6, <1>7, <1>9, <1>12, <1>13, <1>14, <1>15, <1>16, <1>17
        DEF ScanNext

LEMMA StartedStep ==
    ASSUME DashInv, [ScanNext]_scanVars
    PROVE  Started'
<1>1. attempt \in Nat
  BY DashboardAssumption DEF DashInv, ScanTypeOK
<1>2. CASE Start
  BY <1>1, <1>2 DEF Start, Started
<1>3. CASE DropNext \/ Finish \/ StopScan \/ StopSaving \/ Delete \/ Forget
  BY <1>3 DEF DropNext, Finish, StopScan, StopSaving, Abort, Conclude, Delete, Forget, Started, DashInv
<1>4. ASSUME NEW p \in Providers, NEW s \in Reported, Publish(p, s) PROVE Started'
  BY <1>4 DEF Publish, Started, DashInv
<1>5. ASSUME NEW i \in Posts, PostNext(i) \/ Answer(i) \/ LoseAnswer(i) \/ ScanFails(i)
                              \/ ServeScan(i) \/ Crash(i)
      PROVE  Started'
  BY <1>5 DEF PostNext, Answer, LoseAnswer, ScanFails, ServeScan, Crash, clientVars, Started, DashInv
<1>6. CASE UNCHANGED scanVars
  BY <1>6 DEF scanVars, clientVars, Started, DashInv
<1> QED BY <1>2, <1>3, <1>4, <1>5, <1>6 DEF ScanNext

LEMMA DashStep ==
    ASSUME DashInv, [ScanNext]_scanVars
    PROVE  DashInv'
<1>1. [Next]_vars
  BY ServesDashboard DEF DashInv
<1>2. ServerInv'
  BY <1>1, ServerStep DEF DashInv
<1>3. ScanTypeOK'
  BY <1>2, ScanTypesStep DEF ServerInv
<1> QED BY <1>2, <1>3, DashboardOnlyStep, StartedStep DEF DashInv

LEMMA DashCorrect == ScanSpec => []DashInv
<1>1. DashInv /\ [ScanNext]_scanVars => DashInv'
  BY DashStep
<1> QED BY <1>1, DashInit, PTL DEF ScanSpec

\* Every value of the dashboard's state and of the endpoint's has its type.
THEOREM ScanTypeCorrect == ScanSpec => []ScanTypeOK
<1>1. DashInv => ScanTypeOK
  BY DEF DashInv
<1> QED BY <1>1, DashCorrect, PTL

-----------------------------------------------------------------------------
\* Before a stop, a failure, a deletion or an eviction

Calm == trouble \cap {"stopped", "failed", "lost", "deleted", "evicted"} = {}

\* One post is under way at a time, and the turn is as its handler saw it.
CalmInv ==
    Calm =>
        /\ alive
        /\ aborted = {}
        /\ \A i \in Posts :
              /\ awaited[i] # "aside"
              /\ stage[i] \in {"sent", "merged"} => awaited[i] = "queue"
              /\ stage[i] = "merged" => row # NoTurn /\ seen[i] = row
        /\ \A i, j \in Posts : awaited[i] = "queue" /\ awaited[j] = "queue" => i = j

LEMMA CalmBefore ==
    ASSUME Calm', trouble \subseteq trouble'
    PROVE  Calm
  BY DEF Calm

LEMMA Struck ==
    ASSUME NEW t \in {"stopped", "failed", "lost", "deleted", "evicted"}, Strike(t)
    PROVE  ~Calm'
<1>1. t \in trouble'
  BY DEF Strike
<1> QED BY <1>1 DEF Calm

\* Troubles are never forgotten.
LEMMA TroubleGrows ==
    ASSUME [ScanNext]_scanVars
    PROVE  trouble \subseteq trouble'
<1>1. CASE Start
  BY <1>1 DEF Start, Strike
<1>2. CASE DropNext \/ Finish
  BY <1>2 DEF DropNext, Finish
<1>3. CASE StopScan \/ StopSaving \/ Delete \/ Forget
  BY <1>3 DEF StopScan, StopSaving, Abort, Delete, Forget, Strike
<1>4. ASSUME NEW p \in Providers, NEW s \in Reported, Publish(p, s) PROVE trouble \subseteq trouble'
  BY <1>4 DEF Publish
<1>5. ASSUME NEW i \in Posts, PostNext(i) \/ Answer(i) \/ ServeScan(i)
      PROVE  trouble \subseteq trouble'
  BY <1>5 DEF PostNext, Answer, ServeScan, clientVars
<1>6. ASSUME NEW i \in Posts, LoseAnswer(i) \/ ScanFails(i) \/ Crash(i)
      PROVE  trouble \subseteq trouble'
  BY <1>6 DEF LoseAnswer, ScanFails, Crash, Strike
<1>7. CASE UNCHANGED scanVars
  BY <1>7 DEF scanVars, clientVars
<1> QED BY <1>1, <1>2, <1>3, <1>4, <1>5, <1>6, <1>7 DEF ScanNext

LEMMA CalmInit == ScanInit => CalmInv
  BY DEF ScanInit, Init, CalmInv

\* A step that leaves the dashboard calm is none that strikes.
LEMMA CalmSteps ==
    ASSUME [ScanNext]_scanVars, Calm'
    PROVE  \/ Start \/ DropNext \/ Finish
           \/ \E p \in Providers : \E s \in Reported : Publish(p, s)
           \/ \E i \in Posts : PostNext(i) \/ Answer(i) \/ ServeScan(i)
           \/ UNCHANGED scanVars
<1>1. ~StopScan /\ ~StopSaving /\ ~Delete /\ ~Forget
  BY Struck DEF StopScan, StopSaving, Abort, Delete, Forget
<1>2. ASSUME NEW i \in Posts PROVE ~LoseAnswer(i) /\ ~ScanFails(i) /\ ~Crash(i)
  BY Struck DEF LoseAnswer, ScanFails, Crash
<1> QED BY <1>1, <1>2 DEF ScanNext

LEMMA CalmStep ==
    ASSUME DashInv, CalmInv, [ScanNext]_scanVars
    PROVE  CalmInv'
<1> SUFFICES ASSUME Calm' PROVE CalmInv'
  BY DEF CalmInv
<1>1. Calm
  BY CalmBefore, TroubleGrows
<1>2. /\ alive /\ aborted = {}
      /\ \A i \in Posts :
            /\ awaited[i] # "aside"
            /\ stage[i] \in {"sent", "merged"} => awaited[i] = "queue"
            /\ stage[i] = "merged" => row # NoTurn /\ seen[i] = row
      /\ \A i, j \in Posts : awaited[i] = "queue" /\ awaited[j] = "queue" => i = j
  BY <1>1 DEF CalmInv
<1>3. /\ stage \in [Posts -> Stages] /\ seen \in [Posts -> Turn \cup {NoTurn}]
      /\ awaited \in [Posts -> {"no", "queue", "aside"}]
  BY DEF DashInv, ScanTypeOK, TypeOK
<1>4. CASE UNCHANGED <<row, alive, stage, seen, awaited, aborted>>
  BY <1>2, <1>4 DEF CalmInv
<1>5. CASE Start \/ DropNext \/ Finish \/ UNCHANGED scanVars
  BY <1>4, <1>5 DEF Start, DropNext, Finish, scanVars, clientVars, vars
<1>6. ASSUME NEW p \in Providers, NEW s \in Reported, Publish(p, s) PROVE CalmInv'
  BY <1>4, <1>6 DEF Publish, vars
<1>7. ASSUME NEW i \in Posts, PostNext(i) PROVE CalmInv'
  <2>1. /\ ~Waiting /\ stage' = [stage EXCEPT ![i] = "sent"]
        /\ awaited' = [awaited EXCEPT ![i] = "queue"]
        /\ UNCHANGED <<row, alive, seen, aborted>>
    BY <1>7 DEF PostNext, Send
  <2> QED BY <1>2, <1>3, <2>1 DEF CalmInv, Waiting
<1>8. ASSUME NEW i \in Posts, Answer(i) PROVE CalmInv'
  BY <1>2, <1>3, <1>8 DEF CalmInv, Answer, vars
<1>9. ASSUME NEW i \in Posts, ServeScan(i) PROVE CalmInv'
  <2>1. UNCHANGED <<awaited, aborted>>
    BY <1>9 DEF ServeScan, clientVars
  <2>2. CASE Refuse(i)
    BY <1>2, <1>3, <2>1, <2>2 DEF CalmInv, Refuse
  <2>3. CASE Begin(i)
    <3> DEFINE r == asked[i]
               t == IF row = NoTurn THEN Draft(r) ELSE row
    <3>1. /\ stage[i] = "sent" /\ Valid(r) /\ alive' = alive /\ row' = t
          /\ seen' = [seen EXCEPT ![i] = t]
          /\ stage' = [stage EXCEPT ![i] = "merged"] \/ stage' = [stage EXCEPT ![i] = "refused"]
      BY <2>3 DEF Begin
    <3>2. t # NoTurn
      BY <3>1, AskedPayload, DraftIs, ConstantsAssumption DEF DashInv, ServerInv
    <3>3. \A j \in Posts : j # i => stage[j] \notin {"sent", "merged"}
      BY <1>2, <3>1
    <3> HIDE DEF t
    <3> QED BY <1>2, <1>3, <2>1, <3>1, <3>2, <3>3 DEF CalmInv
  <2>4. CASE Store(i)
    <3>1. \A j \in Posts : j # i => stage[j] \notin {"sent", "merged"}
      BY <1>2, <2>4 DEF Store
    <3>2. /\ stage' = [stage EXCEPT ![i] = "stored"] \/ stage' = [stage EXCEPT ![i] = "refused"]
          /\ UNCHANGED <<alive, seen>>
      BY <2>4 DEF Store
    <3> QED BY <1>2, <1>3, <2>1, <3>1, <3>2 DEF CalmInv
  <2>5. CASE Upsert(i)
    <3>1. \A j \in Posts : j # i => stage[j] \notin {"sent", "merged"}
      BY <1>2, <2>5 DEF Upsert
    <3>2. /\ stage' = [stage EXCEPT ![i] = "stored"] \/ stage' = [stage EXCEPT ![i] = "refused"]
          /\ alive' = alive
      BY <2>5 DEF Upsert
    <3> QED BY <1>2, <1>3, <2>1, <3>1, <3>2 DEF CalmInv
  <2>6. CASE awaited[i] = "no" /\ Lose(i)
    BY <1>2, <2>6 DEF Lose
  <2> QED BY <1>9, <2>2, <2>3, <2>4, <2>5, <2>6 DEF ServeScan
<1> QED BY <1>5, <1>6, <1>7, <1>8, <1>9, CalmSteps

\* Without a stop, a failure, a deletion or an eviction an ended turn stays as
\* it is.
THEOREM EndKeptCorrect == ScanSpec => EndKept
<1>1. ASSUME DashInv, CalmInv, [ScanNext]_scanVars,
             row # NoTurn, row.status \in Terminal, Calm'
      PROVE  row' = row
  <2>1. Calm
    BY <1>1, CalmBefore, TroubleGrows
  <2>2. ASSUME NEW i \in Posts, Store(i) PROVE row' = row
    <3>1. stage[i] = "merged" /\ seen[i] = row /\ Kept(i)
      BY <1>1, <2>1, <2>2 DEF Store, CalmInv, DashInv, ServerInv, CallsKept
    <3>2. merged[i] = row
      BY <1>1, <3>1 DEF Kept, Update, Terminal
    <3> QED BY <2>2, <3>2 DEF Store
  <2>3. ASSUME NEW i \in Posts, PostNext(i) \/ Answer(i) \/ ServeScan(i) PROVE row' = row
    BY <1>1, <2>2, <2>3 DEF PostNext, Send, Answer, ServeScan, Refuse, Begin, Upsert, Update,
                            Lose, Terminal, vars
  <2>4. ASSUME NEW p \in Providers, NEW s \in Reported, Publish(p, s) PROVE row' = row
    BY <2>4 DEF Publish, vars
  <2>5. CASE Start \/ DropNext \/ Finish \/ UNCHANGED scanVars
    BY <2>5 DEF Start, DropNext, Finish, scanVars, vars
  <2> QED BY <1>1, <2>3, <2>4, <2>5, CalmSteps
<1>2. DashInv /\ CalmInv /\ [ScanNext]_scanVars => CalmInv'
  BY CalmStep
<1>3. DashInv /\ CalmInv /\ [ScanNext]_scanVars =>
        [row # NoTurn /\ row.status \in Terminal /\ row' # row =>
           trouble' \cap {"stopped", "failed", "lost", "deleted", "evicted"} # {}]_scanVars
  BY <1>1 DEF Calm
<1> QED BY <1>2, <1>3, CalmInit, DashCorrect, PTL DEF ScanSpec, EndKept

-----------------------------------------------------------------------------
\* Before anything disturbs the scan

IsReport(r) == r = Report(r.scan)
Now == Aggregate(polled)

\* The scan has been started once, or not at all.
QuietStart ==
    /\ attempt \in {0, 1}
    /\ attempt = 0 => phase = "idle"
    /\ phase = "idle" =>
          /\ attempt = 0
          /\ queue = <<>> /\ row = NoTurn
          /\ \A i \in Posts : stage[i] = "unused" /\ awaited[i] = "no"

\* Whatever is queued, posted or stored reports a status as the dashboard does.
QuietReports ==
    /\ \A k \in 1..Len(queue) : IsReport(queue[k].request)
    /\ row # NoTurn => IsReport(row)
    /\ \A i \in Posts :
          /\ stage[i] # "unused" => IsReport(asked[i])
          /\ stage[i] = "merged" => merged[i] = asked[i]
          /\ stage[i] = "stored" /\ awaited[i] = "queue" => merged[i] = asked[i] /\ row = asked[i]
          /\ stage[i] = "refused" => asked[i].scan = "connecting"

\* Nothing follows the report of the end.
QuietEnd ==
    /\ phase = "scanning" => StatusOf(Now) = "generating"
    /\ \A k \in 1..Len(queue) : queue[k].request.status # "generating" =>
          k = Len(queue) /\ phase # "scanning"
    /\ \A i \in Posts : stage[i] # "unused" /\ asked[i].status # "generating" =>
          queue = <<>> /\ phase # "scanning"
    /\ row # NoTurn /\ row.status # "generating" =>
          queue = <<>> /\ phase # "scanning" /\ \A i \in Posts : stage[i] # "sent"

\* The end is queued, posted or stored.
QuietSaving ==
    phase = "saving" =>
        /\ shownScan = Now /\ StatusOf(Now) # "generating"
        /\ \/ queue # <<>> /\ queue[Len(queue)].request = Report(Now)
           \/ /\ queue = <<>>
              /\ \E i \in Posts :
                    awaited[i] = "queue" /\ stage[i] # "unused" /\ asked[i] = Report(Now)
           \/ queue = <<>> /\ ~Waiting /\ row = Report(Now) /\ shown = Snapshot(Now)

QuietOver ==
    phase = "over" =>
        /\ shownScan = Now /\ verdict = StatusOf(Now)
        /\ row = Report(Now) /\ shown = Snapshot(Now)
        /\ queue = <<>> /\ ~Waiting

Sole == \A p, q \in Providers : p = q

\* The reports of a scan of one mailbox do not fall back to "connecting".
QuietSole ==
    Sole =>
        /\ Now = "connecting" =>
              /\ \A k \in 1..Len(queue) : queue[k].request.scan = "connecting"
              /\ \A i \in Posts : stage[i] # "unused" => asked[i].scan = "connecting"
              /\ row # NoTurn => row.scan = "connecting"
        /\ \A k \in 1..Len(queue) : queue[k].request.scan = "connecting" =>
              /\ \A l \in 1..k : queue[l].request.scan = "connecting"
              /\ \A i \in Posts : stage[i] # "unused" => asked[i].scan = "connecting"
              /\ row # NoTurn => row.scan = "connecting"
        /\ \A i \in Posts :
              /\ stage[i] = "sent" /\ asked[i].scan = "connecting" /\ row # NoTurn =>
                    row.scan = "connecting"
              /\ stage[i] # "refused"

QuietState ==
    QuietStart /\ QuietReports /\ QuietEnd /\ QuietSaving /\ QuietOver /\ QuietSole

QuietInv == trouble = {} => QuietState

-----------------------------------------------------------------------------
\* What becomes of one report after another

\* The three activities of a snapshot.
LEMMA SnapshotIs ==
    ASSUME NEW s \in ScanStatus
    PROVE  /\ Snapshot(s) \in Snapshots /\ Snapshot(s) \in Activities /\ Len(Snapshot(s)) = 3
           /\ \A i \in 1..3 : Snapshot(s)[i].code = Plan[i]
           /\ s = "connecting" =>
                 /\ Snapshot(s)[1].status = "running" /\ Snapshot(s)[2].status = "pending"
                 /\ Snapshot(s)[3].status = "pending"
           /\ s \in {"queued", "running"} =>
                 /\ Snapshot(s)[1].status = "completed" /\ Snapshot(s)[2].status = "running"
                 /\ Snapshot(s)[3].status = "pending"
           /\ s = "failed" =>
                 /\ Snapshot(s)[1].status = "completed" /\ Snapshot(s)[2].status = "failed"
                 /\ Snapshot(s)[3].status = "skipped"
           /\ s \in {"succeeded", "partial"} =>
                 /\ Snapshot(s)[1].status = "completed" /\ Snapshot(s)[2].status = "completed"
                 /\ Snapshot(s)[3].status = "completed"
<1>1. /\ Snapshot(s) \in Snapshots /\ Snapshot(s) \in Activities /\ Len(Snapshot(s)) = 3
      /\ \A i \in 1..3 : Snapshot(s)[i].code = Plan[i]
  BY ReportIs, SnapshotsAre
<1>2. /\ "running" \in ActivityStatus /\ "pending" \in ActivityStatus
      /\ "completed" \in ActivityStatus /\ "failed" \in ActivityStatus
      /\ "skipped" \in ActivityStatus
  BY DEF ActivityStatus
<1>3. ASSUME s = "connecting"
      PROVE  /\ Snapshot(s)[1].status = "running" /\ Snapshot(s)[2].status = "pending"
             /\ Snapshot(s)[3].status = "pending"
  <2>1. Snapshot(s) = Steps("running", "pending", "pending")
    BY <1>3 DEF Snapshot
  <2> QED BY <2>1, StepsAre DEF ActivityStatus
<1>4. ASSUME s \in {"queued", "running"}
      PROVE  /\ Snapshot(s)[1].status = "completed" /\ Snapshot(s)[2].status = "running"
             /\ Snapshot(s)[3].status = "pending"
  <2>1. Snapshot(s) = Steps("completed", "running", "pending")
    BY <1>4 DEF Snapshot
  <2> QED BY <2>1, StepsAre DEF ActivityStatus
<1>5. ASSUME s = "failed"
      PROVE  /\ Snapshot(s)[1].status = "completed" /\ Snapshot(s)[2].status = "failed"
             /\ Snapshot(s)[3].status = "skipped"
  <2>1. Snapshot(s) = Steps("completed", "failed", "skipped")
    BY <1>5 DEF Snapshot
  <2> QED BY <2>1, StepsAre DEF ActivityStatus
<1>6. ASSUME s \in {"succeeded", "partial"}
      PROVE  /\ Snapshot(s)[1].status = "completed" /\ Snapshot(s)[2].status = "completed"
             /\ Snapshot(s)[3].status = "completed"
  <2>1. Snapshot(s) = Steps("completed", "completed", "completed")
    BY <1>6 DEF Snapshot
  <2> QED BY <2>1, StepsAre DEF ActivityStatus
<1> QED BY <1>1, <1>3, <1>4, <1>5, <1>6

\* A snapshot is settled as it is reported.
LEMMA SnapshotSettled ==
    ASSUME NEW s \in ScanStatus
    PROVE  /\ Settled(Snapshot(s), StatusOf(s)) = Snapshot(s)
           /\ StatusOf(s) = "completed" => Done(Snapshot(s))
<1> DEFINE a == Snapshot(s)
           b == Settled(a, StatusOf(s))
<1>1. /\ a \in Activities /\ Len(a) = 3
      /\ s = "failed" => a[1].status = "completed" /\ a[2].status = "failed" /\ a[3].status = "skipped"
      /\ s \in {"succeeded", "partial"} =>
            a[1].status = "completed" /\ a[2].status = "completed" /\ a[3].status = "completed"
  BY SnapshotIs
<1>2. StatusOf(s) \in TurnStatus
  BY ReportIs
<1> HIDE DEF a
<1>3. CASE StatusOf(s) = "failed"
  <2>1. s = "failed"
    BY <1>3 DEF StatusOf
  <2>2. /\ b \in Activities /\ Len(b) = Len(a)
        /\ \A i \in 1..Len(a) :
              /\ b[i].code = a[i].code
              /\ a[i].status \notin {"running", "pending"} => b[i].status = a[i].status
    BY <1>1, <1>2, SettledIs
  <2>3. \A i \in 1..Len(a) : b[i].status = a[i].status
    BY <1>1, <2>1, <2>2
  <2>4. b = a
    BY <1>1, <2>2, <2>3, SameActivities
  <2> QED BY <1>3, <2>4 DEF a
<1>4. CASE StatusOf(s) # "failed"
  <2>1. StatusOf(s) # "cancelled"
    BY DEF StatusOf
  <2>2. b = a
    BY <1>4, <2>1 DEF Settled
  <2>3. StatusOf(s) = "completed" => s \in {"succeeded", "partial"}
    BY DEF StatusOf
  <2>4. StatusOf(s) = "completed" => Done(a)
    BY <1>1, <2>3 DEF Done
  <2> QED BY <2>2, <2>4 DEF a
<1> QED BY <1>3, <1>4

\* Every report merges with an earlier one, except "connecting" once begun.
LEMMA SnapshotsMerge ==
    ASSUME NEW s \in ScanStatus, NEW t \in ScanStatus,
           StatusOf(s) = "generating", t = "connecting" => s = "connecting"
    PROVE  Mergeable(Snapshot(s), Snapshot(t))
<1> DEFINE a == Snapshot(s)
           b == Snapshot(t)
<1>1. s \in {"connecting", "queued", "running"}
  BY DEF StatusOf, ScanStatus
<1>2. /\ Len(a) = 3 /\ Len(b) = 3
      /\ \A i \in 1..3 : a[i].code = Plan[i] /\ b[i].code = Plan[i]
  BY SnapshotIs
<1>3. \A i \in 1..3 : CanMove(a[i].status, b[i].status)
  <2>1. CanMove(a[1].status, b[1].status)
    BY <1>1, SnapshotIs DEF CanMove, ScanStatus
  <2>2. CanMove(a[2].status, b[2].status)
    BY <1>1, SnapshotIs DEF CanMove, ScanStatus
  <2>3. CanMove(a[3].status, b[3].status)
    BY <1>1, SnapshotIs DEF CanMove, ScanStatus
  <2> HIDE DEF a, b
  <2> QED BY <2>1, <2>2, <2>3
<1> HIDE DEF a, b
<1>4. Mergeable(a, b)
  BY <1>2, <1>3, DashboardAssumption DEF Mergeable
<1> QED BY <1>4 DEF a, b

LEMMA ReportValid ==
    ASSUME NEW s \in ScanStatus
    PROVE  /\ Valid(Report(s)) /\ Draft(Report(s)) = Report(s)
           /\ \A old \in Activities : Reconciled(old, Report(s)) = Snapshot(s)
<1> DEFINE r == Report(s)
<1>1. /\ r \in DashboardRequests /\ r.status = StatusOf(s) /\ r.scan = s
      /\ r.activities = Snapshot(s)
  BY ReportIs
<1>2. s \in ScansOf(StatusOf(s))
  BY DEF ScansOf, StatusOf, ScanStatus
<1> HIDE DEF r
<1>3. ASSUME NEW old \in Activities
      PROVE  Merge(old, r.activities) = Snapshot(s) /\ Reconciled(old, r) = Snapshot(s)
  BY <1>1, DashboardTurn, SnapshotSettled DEF Reconciled
<1>4. <<>> \in Activities /\ Len(<<>>) = 0
  BY NoActivities
<1>5. Mergeable(<<>>, Snapshot(s))
  <2>1. Len(Snapshot(s)) = 3 /\ \A i \in 1..3 : Snapshot(s)[i].code = Plan[i]
    BY SnapshotIs
  <2> QED BY <1>4, <2>1, DashboardAssumption DEF Mergeable
<1>6. Valid(r)
  BY <1>1, <1>2, <1>3, <1>4, <1>5, SnapshotSettled DEF Valid, Reconcilable
<1>7. Draft(r) = r
  BY <1>1, <1>3, <1>4 DEF Draft, DashboardRequests
<1> QED BY <1>3, <1>6, <1>7 DEF r

\* One report after another: it is stored as it is, or falls back.
LEMMA ReportAfter ==
    ASSUME NEW s \in ScanStatus, NEW t \in ScanStatus, StatusOf(s) = "generating"
    PROVE  /\ Acceptable(Report(s), Report(t)) => Update(Report(s), Report(t)) = Report(t)
           /\ ~Acceptable(Report(s), Report(t)) => t = "connecting" /\ s # "connecting"
<1>1. /\ Report(s).status = "generating" /\ Report(s).message = Text
      /\ Report(s).activities = Snapshot(s) /\ Snapshot(s) \in Activities
      /\ Report(t).message = Text /\ Report(t).activities = Snapshot(t)
      /\ Report(t).status = StatusOf(t) /\ Report(t) \in DashboardRequests
  BY ReportIs, SnapshotsAre
<1>2. Update(Report(s), Report(t)) = Report(t)
  BY <1>1, ReportValid DEF Update, DashboardRequests
<1>3. ASSUME t = "connecting" => s = "connecting"
      PROVE  Acceptable(Report(s), Report(t))
  <2>1. Mergeable(Snapshot(s), Snapshot(t))
    BY <1>3, SnapshotsMerge
  <2>2. Merge(Snapshot(s), Snapshot(t)) = Snapshot(t)
    BY <1>1, DashboardTurn
  <2> QED BY <1>1, <2>1, <2>2, SnapshotSettled DEF Acceptable, Reconcilable
<1> QED BY <1>2, <1>3

\* The status of a scan of which nothing is known, and of one of one mailbox.
LEMMA AggregateUnknown ==
    ASSUME NEW p, \A x \in Providers : p[x] = "unknown"
    PROVE  Aggregate(p) = "connecting"
  BY DashboardAssumption DEF Aggregate, Results

LEMMA AggregateSole ==
    ASSUME Sole, NEW x \in Providers, NEW p \in [Providers -> ScanStatus \cup {"unknown"}]
    PROVE  Aggregate(p) = IF p[x] \in {"unknown", "connecting"} THEN "connecting" ELSE p[x]
<1>1. \A y \in Providers : y = x
  BY DEF Sole
<1>2. /\ \A v : (\E y \in Providers : p[y] = v) <=> p[x] = v
      /\ \A S : (\A y \in Providers : p[y] \in S) <=> p[x] \in S
  BY <1>1
<1>3. p[x] \in ScanStatus \cup {"unknown"}
  OBVIOUS
<1> QED BY <1>2, <1>3 DEF Aggregate, Results, ScanStatus

LEMMA NoFallBack ==
    ASSUME Sole, NEW x \in Providers, NEW s \in ScanStatus,
           polled \in [Providers -> ScanStatus \cup {"unknown"}],
           Follows(polled[x], s), polled' = [polled EXCEPT ![x] = s], Now' = "connecting"
    PROVE  Now = "connecting"
<1>1. polled' \in [Providers -> ScanStatus \cup {"unknown"}] /\ polled'[x] = s
  OBVIOUS
<1>2. Now = IF polled[x] \in {"unknown", "connecting"} THEN "connecting" ELSE polled[x]
  BY AggregateSole DEF Now
<1>3. Now' = IF polled'[x] \in {"unknown", "connecting"} THEN "connecting" ELSE polled'[x]
  <2>1. Aggregate(polled') = IF polled'[x] \in {"unknown", "connecting"} THEN "connecting" ELSE polled'[x]
    BY <1>1, AggregateSole
  <2> QED BY <2>1 DEF Now
<1>4. s = "connecting"
  BY <1>1, <1>3 DEF ScanStatus
<1> QED BY <1>2, <1>4 DEF Follows, ScanStatus

-----------------------------------------------------------------------------
\* The steps of an undisturbed scan

LEMMA QueueShape ==
    ASSUME ScanTypeOK
    PROVE  /\ Len(queue) \in Nat /\ (queue # <<>> => Len(queue) >= 1) /\ (queue = <<>> => Len(queue) = 0)
           /\ \A k \in 1..Len(queue) : /\ queue[k].request \in DashboardRequests
                                       /\ queue[k].request.scan \in ScanStatus
<1>1. queue \in Seq(Entry)
  BY DEF ScanTypeOK
<1>2. Len(queue) \in Nat /\ (queue # <<>> => Len(queue) >= 1) /\ Len(<<>>) = 0
  BY <1>1, LenProperties, EmptySeq
<1>3. ASSUME NEW k \in 1..Len(queue) PROVE queue[k] \in Entry
  BY <1>1, ElementOfSeq
<1> QED BY <1>2, <1>3 DEF Entry, DashboardRequests

LEMMA Queued ==
    ASSUME ScanTypeOK, NEW r \in DashboardRequests, NEW n \in 0..MaxAttempts, Enqueue(r, n)
    PROVE  /\ queue' # <<>> /\ Len(queue') = Len(queue) + 1
           /\ \A k \in 1..Len(queue) : queue'[k] = queue[k]
           /\ queue'[Len(queue) + 1].request = r
<1>1. queue \in Seq(Entry) /\ [request |-> r, attempt |-> n] \in Entry
  BY DEF ScanTypeOK, Entry
<1> QED BY <1>1, AppendProperties DEF Enqueue

LEMMA Dequeued ==
    ASSUME ScanTypeOK, queue # <<>>, queue' = Tail(queue)
    PROVE  /\ Len(queue) \in Nat \ {0} /\ Head(queue) = queue[1]
           /\ Len(queue') = Len(queue) - 1
           /\ \A k \in 1..Len(queue') : queue'[k] = queue[k + 1]
           /\ queue' = <<>> <=> Len(queue) = 1
<1>1. queue \in Seq(Entry)
  BY DEF ScanTypeOK
<1>2. /\ queue' \in Seq(Entry) /\ Len(queue') = Len(queue) - 1
      /\ \A k \in 1..Len(queue') : queue'[k] = queue[k + 1]
  BY <1>1, HeadTailProperties
<1>3. /\ Len(queue) \in Nat \ {0} /\ Len(<<>>) = 0
      /\ queue' # <<>> => Len(queue') \in Nat \ {0}
  BY <1>1, <1>2, EmptySeq
<1>4. Head(queue) = queue[1]
  BY <1>1
<1> QED BY <1>2, <1>3, <1>4

LEMMA QuietCalm ==
    ASSUME CalmInv, trouble = {}
    PROVE  /\ alive /\ aborted = {}
           /\ \A i \in Posts :
                 /\ awaited[i] # "aside"
                 /\ stage[i] \in {"sent", "merged"} => awaited[i] = "queue"
                 /\ stage[i] = "merged" => row # NoTurn /\ seen[i] = row
           /\ \A i, j \in Posts : awaited[i] = "queue" /\ awaited[j] = "queue" => i = j
  BY DEF CalmInv, Calm

LEMMA QuietTypes ==
    ASSUME DashInv
    PROVE  /\ ScanTypeOK
           /\ stage \in [Posts -> Stages] /\ asked \in [Posts -> Requests \cup {NoRequest}]
           /\ merged \in [Posts -> Turn \cup {NoTurn}]
           /\ awaited \in [Posts -> {"no", "queue", "aside"}]
           /\ \A i \in Posts : stage[i] # "unused" =>
                 asked[i] \in DashboardRequests /\ asked[i].scan \in ScanStatus
           /\ row # NoTurn => row \in DashboardRequests /\ row.scan \in ScanStatus
           /\ attempt \in 0..MaxAttempts /\ shownScan \in ScanStatus /\ Now \in ScanStatus
  BY AggregateIs DEF DashInv, ScanTypeOK, TypeOK, DashboardOnly, DashboardRequests, Now

LEMMA StatusFacts ==
    /\ StatusOf("connecting") = "generating"
    /\ \A s \in ScanStatus : /\ Report(s).scan = s /\ Report(s).status = StatusOf(s)
                             /\ Report(s) \in DashboardRequests /\ IsReport(Report(s))
                             /\ Report(s).activities = Snapshot(s)
<1>1. ASSUME NEW s \in ScanStatus
      PROVE  /\ Report(s).scan = s /\ Report(s).status = StatusOf(s)
             /\ Report(s) \in DashboardRequests /\ Report(s).activities = Snapshot(s)
  BY ReportIs
<1> QED BY <1>1 DEF StatusOf, IsReport

LEMMA QuietStarts ==
    ASSUME DashInv, QuietState, Start, attempt = 0
    PROVE  QuietState'
<1>1. phase = "idle" /\ queue = <<>> /\ row = NoTurn
      /\ \A i \in Posts : stage[i] = "unused" /\ awaited[i] = "no"
  BY DEF QuietState, QuietStart
<1>2. /\ attempt' = 1 /\ phase' = "scanning" /\ polled' = [p \in Providers |-> "unknown"]
      /\ Enqueue(Report("connecting"), 1)
      /\ UNCHANGED <<row, stage, asked, merged, awaited>>
  BY DEF Start, vars
<1>3. Now' = "connecting"
  <2>1. Aggregate(polled') = "connecting"
    BY <1>2, AggregateUnknown
  <2> QED BY <2>1 DEF Now
<1>4. /\ Len(queue') = 1 /\ queue'[1].request = Report("connecting")
  <2>1. 1 \in 0..MaxAttempts /\ "connecting" \in ScanStatus
    BY DashboardAssumption DEF Start, ScanStatus
  <2> QED BY <1>1, <1>2, <2>1, QuietTypes, QueueShape, Queued, StatusFacts
<1>5. /\ Report("connecting").scan = "connecting" /\ Report("connecting").status = "generating"
      /\ IsReport(Report("connecting"))
  BY StatusFacts DEF ScanStatus
<1>6. QuietStart' /\ QuietSaving' /\ QuietOver'
  BY <1>2 DEF QuietStart, QuietSaving, QuietOver
<1>7. QuietReports'
  BY <1>1, <1>2, <1>4, <1>5 DEF QuietReports
<1>8. QuietEnd'
  BY <1>1, <1>2, <1>3, <1>4, <1>5, StatusFacts DEF QuietEnd
<1>9. QuietSole'
  BY <1>1, <1>2, <1>4, <1>5 DEF QuietSole
<1> QED BY <1>6, <1>7, <1>8, <1>9 DEF QuietState

LEMMA QuietPublishes ==
    ASSUME DashInv, QuietState, NEW p \in Providers, NEW s \in Reported, Publish(p, s)
    PROVE  QuietState'
<1> DEFINE now == Aggregate(polled')
<1>1. /\ phase = "scanning" /\ Follows(polled[p], s) /\ polled' = [polled EXCEPT ![p] = s]
      /\ shownScan' = now /\ phase' = IF StatusOf(now) = "generating" THEN "scanning" ELSE "saving"
      /\ \/ Enqueue(Report(now), attempt)
         \/ now = Aggregate(polled) /\ queue' = queue
      /\ UNCHANGED <<row, stage, asked, merged, attempt, awaited>>
  BY DEF Publish, vars
<1>2. now \in ScanStatus /\ Now' = now
  BY AggregateIs DEF Now
<1> HIDE DEF now
<1>3. /\ Report(now).scan = now /\ Report(now).status = StatusOf(now)
      /\ Report(now) \in DashboardRequests /\ IsReport(Report(now))
  BY <1>2, StatusFacts
<1>4. /\ Len(queue) \in Nat
      /\ \/ /\ queue' # <<>> /\ Len(queue') = Len(queue) + 1
            /\ \A k \in 1..Len(queue) : queue'[k] = queue[k]
            /\ queue'[Len(queue) + 1].request = Report(now)
         \/ now = Now /\ queue' = queue
  BY <1>1, <1>3, QuietTypes, QueueShape, Queued DEF Now
<1>5. attempt = 1 /\ StatusOf(Now) = "generating"
  BY <1>1 DEF QuietState, QuietStart, QuietEnd
<1>6. QuietStart' /\ QuietOver'
  BY <1>1, <1>5 DEF QuietStart, QuietOver
<1>7. QuietReports'
  BY <1>1, <1>3, <1>4 DEF QuietState, QuietReports
<1>8. QuietEnd'
  <2>1. /\ \A k \in 1..Len(queue) : queue[k].request.status = "generating"
        /\ \A i \in Posts : stage[i] # "unused" => asked[i].status = "generating"
        /\ row # NoTurn => row.status = "generating"
    BY <1>1 DEF QuietState, QuietEnd
  <2>2. \A k \in 1..Len(queue') : queue'[k].request.status # "generating" =>
           k = Len(queue') /\ phase' # "scanning"
    BY <1>1, <1>3, <1>4, <2>1
  <2> QED BY <1>1, <1>2, <2>1, <2>2 DEF QuietEnd
<1>9. QuietSaving'
  BY <1>1, <1>2, <1>4, <1>5 DEF QuietSaving
<1>10. QuietSole'
  <2> SUFFICES ASSUME Sole PROVE QuietSole'
    BY DEF QuietSole, Sole
  <2>1. now = "connecting" => Now = "connecting"
    <3>1. s \in ScanStatus /\ polled \in [Providers -> ScanStatus \cup {"unknown"}]
      BY DashboardAssumption, QuietTypes DEF ScanTypeOK
    <3> QED BY <1>1, <1>2, <3>1, NoFallBack
  <2>2. QuietSole
    BY DEF QuietState
  <2>3. now = "connecting" =>
           /\ \A k \in 1..Len(queue') : queue'[k].request.scan = "connecting"
           /\ \A i \in Posts : stage[i] # "unused" => asked[i].scan = "connecting"
           /\ row # NoTurn => row.scan = "connecting"
    BY <1>3, <1>4, <2>1, <2>2 DEF QuietSole
  <2>4. ASSUME NEW k \in 1..Len(queue'), queue'[k].request.scan = "connecting"
        PROVE  /\ \A l \in 1..k : queue'[l].request.scan = "connecting"
               /\ \A i \in Posts : stage[i] # "unused" => asked[i].scan = "connecting"
               /\ row # NoTurn => row.scan = "connecting"
    <3>1. CASE k \in 1..Len(queue)
      BY <1>4, <2>2, <2>4, <3>1 DEF QuietSole
    <3>2. CASE k \notin 1..Len(queue)
      BY <1>3, <1>4, <2>3, <2>4, <3>2
    <3> QED BY <3>1, <3>2
  <2> QED BY <1>1, <1>2, <2>2, <2>3, <2>4 DEF QuietSole
<1> QED BY <1>6, <1>7, <1>8, <1>9, <1>10 DEF QuietState

LEMMA QuietPosts ==
    ASSUME DashInv, CalmInv, trouble = {}, QuietState, NEW i \in Posts, PostNext(i)
    PROVE  QuietState'
<1>1. /\ queue # <<>> /\ ~Waiting /\ queue' = Tail(queue) /\ stage[i] = "unused"
      /\ stage' = [stage EXCEPT ![i] = "sent"]
      /\ asked' = [asked EXCEPT ![i] = Head(queue).request]
      /\ awaited' = [awaited EXCEPT ![i] = "queue"]
      /\ UNCHANGED <<row, merged, attempt, phase, verdict, polled, shownScan, shown>>
  BY DEF PostNext, Send
<1>2. /\ Len(queue) \in Nat \ {0} /\ Head(queue) = queue[1] /\ Len(queue') = Len(queue) - 1
      /\ \A k \in 1..Len(queue') : k + 1 \in 1..Len(queue) /\ queue'[k] = queue[k + 1]
      /\ queue' = <<>> <=> Len(queue) = 1
  BY <1>1, QuietTypes, Dequeued
<1>3. /\ stage \in [Posts -> Stages] /\ asked \in [Posts -> Requests \cup {NoRequest}]
      /\ awaited \in [Posts -> {"no", "queue", "aside"}]
      /\ \A j \in Posts : stage[j] # "sent"
  BY <1>1, QuietTypes, QuietCalm DEF Waiting
<1>4. /\ asked'[i] = queue[1].request /\ stage'[i] = "sent" /\ awaited'[i] = "queue"
      /\ \A j \in Posts : j # i => /\ asked'[j] = asked[j] /\ stage'[j] = stage[j]
                                   /\ awaited'[j] = awaited[j]
      /\ Now' = Now
  BY <1>1, <1>2, <1>3 DEF Now
<1>5. phase # "idle" /\ phase # "over"
  BY <1>1 DEF QuietState, QuietStart, QuietOver
<1>6. QuietStart' /\ QuietOver'
  BY <1>1, <1>5 DEF QuietState, QuietStart, QuietOver
<1>7. QuietReports'
  BY <1>1, <1>2, <1>4 DEF QuietState, QuietReports
<1>8. QuietEnd'
  <2>1. /\ \A k \in 1..Len(queue) : queue[k].request.status # "generating" =>
              k = Len(queue) /\ phase # "scanning"
        /\ \A j \in Posts : stage[j] # "unused" => asked[j].status = "generating"
        /\ row # NoTurn => row.status = "generating"
        /\ phase = "scanning" => StatusOf(Now) = "generating"
    BY <1>1 DEF QuietState, QuietEnd
  <2>2. \A k \in 1..Len(queue') : queue'[k].request.status # "generating" =>
           k = Len(queue') /\ phase # "scanning"
    BY <1>2, <2>1
  <2>3. queue[1].request.status # "generating" => queue' = <<>> /\ phase # "scanning"
    BY <1>2, <2>1
  <2> QED BY <1>1, <1>4, <2>1, <2>2, <2>3 DEF QuietEnd
<1>9. QuietSaving'
  <2> SUFFICES ASSUME phase = "saving" PROVE QuietSaving'
    BY <1>1 DEF QuietSaving
  <2>1. queue[Len(queue)].request = Report(Now) /\ shownScan = Now /\ StatusOf(Now) # "generating"
    BY <1>1 DEF QuietState, QuietSaving
  <2>2. CASE Len(queue) = 1
    BY <1>1, <1>2, <1>4, <2>1, <2>2 DEF QuietSaving
  <2>3. CASE Len(queue) # 1
    BY <1>1, <1>2, <1>4, <2>1, <2>3 DEF QuietSaving
  <2> QED BY <2>2, <2>3
<1>10. QuietSole'
  <2> SUFFICES ASSUME Sole PROVE QuietSole'
    BY DEF QuietSole, Sole
  <2>1. QuietSole
    BY DEF QuietState
  <2>2. Now = "connecting" =>
           /\ \A k \in 1..Len(queue') : queue'[k].request.scan = "connecting"
           /\ \A j \in Posts : stage'[j] # "unused" => asked'[j].scan = "connecting"
           /\ row # NoTurn => row.scan = "connecting"
    BY <1>2, <1>4, <2>1 DEF QuietSole
  <2>3. ASSUME NEW k \in 1..Len(queue'), queue'[k].request.scan = "connecting"
        PROVE  /\ \A l \in 1..k : queue'[l].request.scan = "connecting"
               /\ \A j \in Posts : stage'[j] # "unused" => asked'[j].scan = "connecting"
               /\ row # NoTurn => row.scan = "connecting"
    <3>1. k + 1 \in 1..Len(queue) /\ queue[k + 1].request.scan = "connecting"
      BY <1>2, <2>3
    <3>2. /\ \A l \in 1..(k + 1) : queue[l].request.scan = "connecting"
          /\ \A j \in Posts : stage[j] # "unused" => asked[j].scan = "connecting"
          /\ row # NoTurn => row.scan = "connecting"
      BY <2>1, <3>1 DEF QuietSole
    <3>3. \A l \in 1..k : queue'[l] = queue[l + 1] /\ l + 1 \in 1..(k + 1)
      BY <1>2
    <3>4. 1 \in 1..(k + 1)
      BY <1>2
    <3> QED BY <1>4, <3>2, <3>3, <3>4
  <2>4. queue[1].request.scan = "connecting" /\ row # NoTurn => row.scan = "connecting"
    BY <1>2, <2>1 DEF QuietSole
  <2>5. \A j \in Posts : stage[j] # "refused"
    BY <2>1 DEF QuietSole
  <2> QED BY <1>1, <1>3, <1>4, <2>2, <2>3, <2>4, <2>5 DEF QuietSole
<1> QED BY <1>6, <1>7, <1>8, <1>9, <1>10 DEF QuietState

LEMMA QuietAnswers ==
    ASSUME DashInv, CalmInv, trouble = {}, QuietState, NEW i \in Posts, Answer(i)
    PROVE  QuietState'
<1>1. /\ awaited[i] # "no" /\ stage[i] \in {"stored", "refused"}
      /\ awaited' = [awaited EXCEPT ![i] = "no"]
      /\ shown' = IF stage[i] = "stored" THEN merged[i].activities ELSE shown
      /\ UNCHANGED <<row, stage, asked, merged, attempt, phase, verdict, polled, shownScan, queue>>
  BY DEF Answer, vars
<1>2. awaited \in [Posts -> {"no", "queue", "aside"}] /\ Now \in ScanStatus /\ Now' = Now
  BY <1>1, QuietTypes DEF Now
<1>3. /\ awaited[i] = "queue" /\ Waiting
      /\ \A j \in Posts : awaited[j] = "queue" => j = i
  BY <1>1, <1>2, QuietCalm DEF Waiting
<1>4. ~Waiting'
  BY <1>1, <1>2, <1>3 DEF Waiting
<1>5. \A j \in Posts : awaited'[j] = "queue" => awaited[j] = "queue"
  BY <1>1, <1>2
<1>6. QuietStart' /\ QuietOver'
  BY <1>1, <1>2, <1>3 DEF QuietState, QuietStart, QuietOver
<1>7. QuietReports'
  BY <1>1, <1>5 DEF QuietState, QuietReports
<1>8. QuietEnd' /\ QuietSole'
  BY <1>1, <1>2 DEF QuietState, QuietEnd, QuietSole
<1>9. QuietSaving'
  <2> SUFFICES ASSUME phase = "saving" PROVE QuietSaving'
    BY <1>1 DEF QuietSaving
  <2>1. shownScan = Now /\ StatusOf(Now) # "generating"
    BY DEF QuietState, QuietSaving
  <2>2. CASE queue # <<>>
    BY <1>1, <1>2, <2>1, <2>2 DEF QuietState, QuietSaving
  <2>3. CASE queue = <<>>
    <3>1. asked[i] = Report(Now)
      BY <1>3, <2>3 DEF QuietState, QuietSaving
    <3>2. Report(Now).scan = Now /\ Report(Now).activities = Snapshot(Now)
      BY <1>2, StatusFacts
    <3>3. stage[i] # "refused"
      BY <2>1, <3>1, <3>2, StatusFacts DEF QuietState, QuietReports
    <3>4. stage[i] = "stored" /\ merged[i] = Report(Now) /\ row = Report(Now)
      BY <1>1, <1>3, <3>1, <3>3 DEF QuietState, QuietReports
    <3> QED BY <1>1, <1>2, <1>4, <2>1, <2>3, <3>2, <3>4 DEF QuietSaving
  <2> QED BY <2>2, <2>3
<1> QED BY <1>6, <1>7, <1>8, <1>9 DEF QuietState

LEMMA QuietFinishes ==
    ASSUME QuietState, Finish
    PROVE  QuietState'
<1>1. /\ phase = "saving" /\ queue = <<>> /\ ~Waiting
      /\ phase' = "over" /\ verdict' = StatusOf(Now)
      /\ UNCHANGED <<row, stage, asked, merged, attempt, polled, shownScan, shown, queue, awaited>>
  BY DEF Finish, Conclude, Now, vars
<1>2. Now' = Now /\ ~Waiting'
  BY <1>1 DEF Now, Waiting
<1>3. shownScan = Now /\ row = Report(Now) /\ shown = Snapshot(Now)
  BY <1>1 DEF QuietState, QuietSaving, Waiting
<1>4. QuietStart' /\ QuietSaving' /\ QuietOver'
  BY <1>1, <1>2, <1>3 DEF QuietState, QuietStart, QuietSaving, QuietOver
<1>5. QuietReports'
  BY <1>1 DEF QuietState, QuietReports
<1>6. QuietEnd' /\ QuietSole'
  BY <1>1, <1>2 DEF QuietState, QuietEnd, QuietSole
<1> QED BY <1>4, <1>5, <1>6 DEF QuietState

\* The endpoint takes the only post under way, and makes of it what it asks.
LEMMA QuietBegins ==
    ASSUME DashInv, CalmInv, trouble = {}, QuietState, NEW i \in Posts, Begin(i),
           UNCHANGED clientVars
    PROVE  QuietState'
<1> DEFINE r == asked[i]
           t == IF row = NoTurn THEN Draft(r) ELSE row
<1>1. /\ stage[i] = "sent" /\ row' = t /\ asked' = asked
      /\ \/ /\ Acceptable(t, r) /\ stage' = [stage EXCEPT ![i] = "merged"]
            /\ merged' = [merged EXCEPT ![i] = Update(t, r)]
         \/ /\ ~Acceptable(t, r) /\ stage' = [stage EXCEPT ![i] = "refused"]
            /\ merged' = merged
      /\ UNCHANGED <<attempt, phase, verdict, polled, shownScan, shown, queue, awaited>>
  BY DEF Begin, clientVars
<1>2. /\ stage \in [Posts -> Stages] /\ merged \in [Posts -> Turn \cup {NoTurn}]
      /\ r.scan \in ScanStatus /\ (row # NoTurn => row.scan \in ScanStatus)
      /\ awaited[i] = "queue" /\ Waiting /\ Waiting' /\ Now' = Now
      /\ \A j \in Posts : j # i => awaited[j] # "queue" /\ stage[j] \notin {"sent", "merged"}
  BY <1>1, QuietTypes, QuietCalm DEF Waiting, Now
<1>3. r = Report(r.scan)
  BY <1>1 DEF QuietState, QuietReports, IsReport
<1>4. row # NoTurn => row = Report(row.scan) /\ StatusOf(row.scan) = "generating"
  <2>1. row # NoTurn => row = Report(row.scan) /\ row.status = "generating"
    BY <1>1 DEF QuietState, QuietReports, QuietEnd, IsReport
  <2> QED BY <1>2, <2>1, StatusFacts
<1>5. \/ row = NoTurn /\ t = r /\ Acceptable(t, r) /\ Update(t, r) = r
      \/ row # NoTurn /\ t = row /\ Acceptable(t, r) /\ Update(t, r) = r
      \/ row # NoTurn /\ t = row /\ ~Acceptable(t, r) /\ r.scan = "connecting" /\ row.scan # "connecting"
  <2>1. CASE row = NoTurn
    <3>1. r \in Payload /\ Valid(r) /\ Draft(r) = r
      BY <1>2, <1>3, ReportValid, ReportIs, DashboardPayloads
    <3> QED BY <2>1, <3>1, DraftIs
  <2>2. CASE row # NoTurn
    <3>1. /\ Acceptable(row, r) => Update(row, r) = r
          /\ ~Acceptable(row, r) => r.scan = "connecting" /\ row.scan # "connecting"
      BY <1>2, <1>3, <1>4, <2>2, ReportAfter
    <3> QED BY <2>2, <3>1
  <2> QED BY <2>1, <2>2
<1> HIDE DEF t
<1>6. /\ \/ row = NoTurn /\ row' = r
         \/ row # NoTurn /\ row' = row
      /\ \/ stage'[i] = "merged" /\ merged'[i] = r
         \/ stage'[i] = "refused" /\ r.scan = "connecting" /\ row # NoTurn /\ row.scan # "connecting"
      /\ \A j \in Posts : j # i => stage'[j] = stage[j] /\ merged'[j] = merged[j]
  BY <1>1, <1>2, <1>5
<1> HIDE DEF r
<1>7. phase # "idle" /\ phase # "over"
  BY <1>1, <1>2 DEF QuietState, QuietStart, QuietOver
<1>8. QuietStart' /\ QuietOver'
  BY <1>1, <1>7 DEF QuietState, QuietStart, QuietOver
<1>9. QuietReports'
  <2>1. \A j \in Posts :
           /\ stage'[j] # "unused" => IsReport(asked[j])
           /\ stage'[j] = "merged" => merged'[j] = asked[j]
           /\ ~(stage'[j] = "stored" /\ awaited[j] = "queue")
           /\ stage'[j] = "refused" => asked[j].scan = "connecting"
    BY <1>1, <1>2, <1>6 DEF QuietState, QuietReports, r
  <2>2. row' # NoTurn => IsReport(row')
    BY <1>3, <1>6 DEF QuietState, QuietReports, IsReport
  <2> QED BY <1>1, <2>1, <2>2 DEF QuietState, QuietReports
<1>10. QuietEnd'
  <2>1. \A j \in Posts : /\ stage'[j] # "sent"
                         /\ stage'[j] # "unused" => stage[j] # "unused"
    BY <1>1, <1>2, <1>6
  <2>2. row' # NoTurn /\ row'.status # "generating" => queue = <<>> /\ phase # "scanning"
    BY <1>1, <1>6 DEF QuietState, QuietEnd, r
  <2> QED BY <1>1, <1>2, <2>1, <2>2 DEF QuietState, QuietEnd
<1>11. QuietSaving'
  <2>1. \A j \in Posts : stage[j] # "unused" => stage'[j] # "unused"
    BY <1>6
  <2> QED BY <1>1, <1>2, <2>1 DEF QuietState, QuietSaving
<1>12. QuietSole'
  <2> SUFFICES ASSUME Sole PROVE QuietSole'
    BY DEF QuietSole, Sole
  <2>1. QuietSole
    BY DEF QuietState
  <2>2. stage'[i] = "merged"
    BY <1>1, <1>6, <2>1 DEF QuietSole, r
  <2>3. \A j \in Posts : /\ stage'[j] # "sent" /\ stage'[j] # "refused"
                         /\ stage'[j] # "unused" => stage[j] # "unused"
    BY <1>1, <1>2, <1>6, <2>1, <2>2 DEF QuietSole
  <2>4. (\A j \in Posts : stage[j] # "unused" => asked[j].scan = "connecting")
           /\ (row # NoTurn => row.scan = "connecting")
        => (row' # NoTurn => row'.scan = "connecting")
    BY <1>1, <1>6 DEF r
  <2> QED BY <1>1, <1>2, <2>1, <2>3, <2>4 DEF QuietSole
<1> QED BY <1>8, <1>9, <1>10, <1>11, <1>12 DEF QuietState

LEMMA QuietStores ==
    ASSUME DashInv, CalmInv, trouble = {}, QuietState, NEW i \in Posts, Store(i),
           UNCHANGED clientVars
    PROVE  QuietState'
<1>1. /\ stage[i] = "merged" /\ row # NoTurn
  BY QuietCalm DEF Store
<1>2. /\ row' = merged[i] /\ stage' = [stage EXCEPT ![i] = "stored"] /\ asked' = asked
      /\ merged' = merged
      /\ UNCHANGED <<attempt, phase, verdict, polled, shownScan, shown, queue, awaited>>
  BY <1>1 DEF Store, clientVars
<1>3. merged[i] = asked[i] /\ IsReport(asked[i])
  BY <1>1 DEF QuietState, QuietReports
<1>4. /\ stage \in [Posts -> Stages] /\ awaited[i] = "queue" /\ Waiting /\ Waiting' /\ Now' = Now
      /\ \A j \in Posts : j # i => awaited[j] # "queue" /\ stage[j] \notin {"sent", "merged"}
  BY <1>1, <1>2, QuietTypes, QuietCalm DEF Waiting, Now
<1>5. /\ stage'[i] = "stored" /\ \A j \in Posts : j # i => stage'[j] = stage[j]
      /\ row' = asked[i]
  BY <1>2, <1>3, <1>4
<1>6. \A j \in Posts : /\ stage'[j] # "sent"
                       /\ stage'[j] # "unused" <=> stage[j] # "unused"
                       /\ stage'[j] = "refused" <=> stage[j] = "refused"
  BY <1>1, <1>4, <1>5
<1>7. phase # "idle" /\ phase # "over"
  BY <1>1, <1>4 DEF QuietState, QuietStart, QuietOver
<1>8. QuietStart' /\ QuietOver'
  BY <1>2, <1>7 DEF QuietState, QuietStart, QuietOver
<1>9. QuietReports'
  <2>1. \A j \in Posts :
           /\ stage'[j] # "unused" => IsReport(asked[j])
           /\ stage'[j] = "merged" => merged[j] = asked[j]
           /\ stage'[j] = "stored" /\ awaited[j] = "queue" => merged[j] = asked[j] /\ row' = asked[j]
           /\ stage'[j] = "refused" => asked[j].scan = "connecting"
    BY <1>3, <1>4, <1>5 DEF QuietState, QuietReports
  <2> QED BY <1>2, <1>3, <1>5, <2>1 DEF QuietState, QuietReports
<1>10. QuietEnd'
  <2>1. row'.status # "generating" => queue = <<>> /\ phase # "scanning"
    BY <1>1, <1>5 DEF QuietState, QuietEnd
  <2> QED BY <1>2, <1>4, <1>6, <2>1 DEF QuietState, QuietEnd
<1>11. QuietSaving'
  BY <1>2, <1>4, <1>6 DEF QuietState, QuietSaving
<1>12. QuietSole'
  <2> SUFFICES ASSUME Sole PROVE QuietSole'
    BY DEF QuietSole, Sole
  <2>1. QuietSole
    BY DEF QuietState
  <2>2. (\A j \in Posts : stage[j] # "unused" => asked[j].scan = "connecting")
        => row'.scan = "connecting"
    BY <1>1, <1>5
  <2> QED BY <1>2, <1>4, <1>6, <2>1, <2>2 DEF QuietSole
<1> QED BY <1>8, <1>9, <1>10, <1>11, <1>12 DEF QuietState

\* The buffer makes of the only post under way what it asks, in one go.
LEMMA QuietUpserts ==
    ASSUME DashInv, CalmInv, trouble = {}, QuietState, NEW i \in Posts, Upsert(i),
           UNCHANGED clientVars
    PROVE  QuietState'
<1> DEFINE r == asked[i]
<1>1. /\ stage[i] = "sent" /\ asked' = asked
      /\ UNCHANGED <<attempt, phase, verdict, polled, shownScan, shown, queue, awaited>>
  BY DEF Upsert, clientVars
<1>2. /\ stage \in [Posts -> Stages] /\ merged \in [Posts -> Turn \cup {NoTurn}]
      /\ r.scan \in ScanStatus /\ (row # NoTurn => row.scan \in ScanStatus)
      /\ awaited[i] = "queue" /\ Waiting /\ Waiting' /\ Now' = Now
      /\ \A j \in Posts : j # i => awaited[j] # "queue" /\ stage[j] \notin {"sent", "merged"}
  BY <1>1, QuietTypes, QuietCalm DEF Waiting, Now
<1>3. r = Report(r.scan)
  BY <1>1 DEF QuietState, QuietReports, IsReport
<1>4. row # NoTurn => row = Report(row.scan) /\ StatusOf(row.scan) = "generating"
  <2>1. row # NoTurn => row = Report(row.scan) /\ row.status = "generating"
    BY <1>1 DEF QuietState, QuietReports, QuietEnd, IsReport
  <2> QED BY <1>2, <2>1, StatusFacts
<1>5. /\ Draft(r) = r
      /\ row # NoTurn /\ Acceptable(row, r) => Update(row, r) = r
      /\ row # NoTurn /\ ~Acceptable(row, r) => r.scan = "connecting" /\ row.scan # "connecting"
  <2>1. Draft(r) = r
    BY <1>2, <1>3, ReportValid
  <2>2. ASSUME row # NoTurn
        PROVE  /\ Acceptable(row, r) => Update(row, r) = r
               /\ ~Acceptable(row, r) => r.scan = "connecting" /\ row.scan # "connecting"
    BY <1>2, <1>3, <1>4, <2>2, ReportAfter
  <2> QED BY <2>1, <2>2
<1> HIDE DEF r
<1>6. \/ /\ row' = r /\ stage' = [stage EXCEPT ![i] = "stored"]
         /\ merged' = [merged EXCEPT ![i] = r]
      \/ /\ row' = row /\ stage' = [stage EXCEPT ![i] = "refused"] /\ merged' = merged
         /\ r.scan = "connecting" /\ row # NoTurn /\ row.scan # "connecting"
  BY <1>5 DEF Upsert, r
<1>7. /\ \/ row' = r /\ stage'[i] = "stored" /\ merged'[i] = r
         \/ /\ row' = row /\ stage'[i] = "refused"
            /\ r.scan = "connecting" /\ row # NoTurn /\ row.scan # "connecting"
      /\ \A j \in Posts : j # i => stage'[j] = stage[j] /\ merged'[j] = merged[j]
  BY <1>2, <1>6
<1>8. phase # "idle" /\ phase # "over"
  BY <1>1, <1>2 DEF QuietState, QuietStart, QuietOver
<1>9. QuietStart' /\ QuietOver'
  BY <1>1, <1>8 DEF QuietState, QuietStart, QuietOver
<1>10. QuietReports'
  <2>1. \A j \in Posts :
           /\ stage'[j] # "unused" => IsReport(asked[j])
           /\ stage'[j] = "merged" => merged'[j] = asked[j]
           /\ stage'[j] = "stored" /\ awaited[j] = "queue" => merged'[j] = asked[j] /\ row' = asked[j]
           /\ stage'[j] = "refused" => asked[j].scan = "connecting"
    BY <1>1, <1>2, <1>7 DEF QuietState, QuietReports, r
  <2>2. row' # NoTurn => IsReport(row')
    BY <1>3, <1>7 DEF QuietState, QuietReports, IsReport
  <2> QED BY <1>1, <2>1, <2>2 DEF QuietState, QuietReports
<1>11. QuietEnd'
  <2>1. \A j \in Posts : /\ stage'[j] # "sent"
                         /\ stage'[j] # "unused" => stage[j] # "unused"
    BY <1>1, <1>2, <1>7
  <2>2. row' # NoTurn /\ row'.status # "generating" => queue = <<>> /\ phase # "scanning"
    BY <1>1, <1>7 DEF QuietState, QuietEnd, r
  <2> QED BY <1>1, <1>2, <2>1, <2>2 DEF QuietState, QuietEnd
<1>12. QuietSaving'
  <2>1. \A j \in Posts : stage[j] # "unused" => stage'[j] # "unused"
    BY <1>7
  <2> QED BY <1>1, <1>2, <2>1 DEF QuietState, QuietSaving
<1>13. QuietSole'
  <2> SUFFICES ASSUME Sole PROVE QuietSole'
    BY DEF QuietSole, Sole
  <2>1. QuietSole
    BY DEF QuietState
  <2>2. stage'[i] = "stored" /\ row' = r
    BY <1>1, <1>7, <2>1 DEF QuietSole, r
  <2>3. \A j \in Posts : /\ stage'[j] # "sent" /\ stage'[j] # "refused"
                         /\ stage'[j] # "unused" => stage[j] # "unused"
    BY <1>1, <1>2, <1>7, <2>1, <2>2 DEF QuietSole
  <2>4. (\A j \in Posts : stage[j] # "unused" => asked[j].scan = "connecting")
        => row'.scan = "connecting"
    BY <1>1, <2>2 DEF r
  <2> QED BY <1>1, <1>2, <2>1, <2>3, <2>4 DEF QuietSole
<1> QED BY <1>9, <1>10, <1>11, <1>12, <1>13 DEF QuietState

\* An undisturbed endpoint neither refuses a report outright nor loses one.
LEMMA QuietServes ==
    ASSUME DashInv, CalmInv, trouble = {}, QuietState, NEW i \in Posts, ServeScan(i)
    PROVE  QuietState'
<1>1. ~Refuse(i)
  <2> SUFFICES ASSUME stage[i] = "sent" PROVE alive /\ Valid(asked[i]) /\ (row # NoTurn => row.message = asked[i].message)
    BY DEF Refuse
  <2>1. asked[i] = Report(asked[i].scan) /\ asked[i].scan \in ScanStatus
    BY QuietTypes DEF QuietState, QuietReports, IsReport
  <2>2. asked[i].message = Text /\ (row # NoTurn => row.message = Text)
    BY QuietTypes DEF DashboardRequests
  <2> QED BY <2>1, <2>2, ReportValid, QuietCalm
<1>2. ~(awaited[i] = "no" /\ Lose(i))
  BY QuietCalm DEF Lose
<1> QED BY <1>1, <1>2, QuietBegins, QuietStores, QuietUpserts DEF ServeScan

LEMMA QuietStep ==
    ASSUME DashInv, CalmInv, QuietInv, [ScanNext]_scanVars
    PROVE  QuietInv'
<1> SUFFICES ASSUME trouble' = {} PROVE QuietState'
  BY DEF QuietInv
<1>1. trouble = {} /\ Calm'
  BY TroubleGrows DEF Calm
<1>2. QuietState
  BY <1>1 DEF QuietInv
<1>3. CASE Start
  <2>1. attempt = 0
    BY <1>3 DEF Start, Strike
  <2> QED BY <1>2, <1>3, <2>1, QuietStarts
<1>4. ~DropNext
  BY <1>1, QuietCalm DEF DropNext
<1>5. CASE UNCHANGED scanVars
  BY <1>2, <1>5 DEF scanVars, clientVars, vars, QuietState, QuietStart, QuietReports, QuietEnd,
                    QuietSaving, QuietOver, QuietSole, Now, Waiting
<1> QED BY <1>1, <1>2, <1>3, <1>4, <1>5, CalmSteps, QuietFinishes, QuietPublishes, QuietPosts,
           QuietAnswers, QuietServes

LEMMA QuietInit == ScanInit => QuietInv
<1> SUFFICES ASSUME ScanInit PROVE QuietState
  BY DEF QuietInv
<1>1. Len(<<>>) = 0
  BY NoActivities
<1> QED BY <1>1 DEF ScanInit, Init, QuietState, QuietStart, QuietReports, QuietEnd, QuietSaving,
                    QuietOver, QuietSole

LEMMA QuietCorrect == ScanSpec => []QuietInv
<1>1. DashInv /\ CalmInv /\ [ScanNext]_scanVars => CalmInv'
  BY CalmStep
<1>2. DashInv /\ CalmInv /\ QuietInv /\ [ScanNext]_scanVars => QuietInv'
  BY QuietStep
<1> QED BY <1>1, <1>2, CalmInit, QuietInit, DashCorrect, PTL DEF ScanSpec

\* When a scan that nothing disturbed is over, the history holds what is shown.
THEOREM VerdictCorrect == ScanSpec => []VerdictStored
<1>1. ASSUME DashInv, QuietInv PROVE VerdictStored
  <2> SUFFICES ASSUME phase = "over", trouble = {}
               PROVE  /\ row # NoTurn /\ row.status = verdict /\ row.scan = shownScan
                      /\ row.activities = shown
    BY DEF VerdictStored
  <2>1. row = Report(Now) /\ verdict = StatusOf(Now) /\ shownScan = Now /\ shown = Snapshot(Now)
    BY <1>1 DEF QuietInv, QuietState, QuietOver
  <2>2. Now \in ScanStatus
    BY AggregateIs DEF Now
  <2>3. row \in Payload /\ row.status = verdict /\ row.scan = shownScan /\ row.activities = shown
    BY <2>1, <2>2, StatusFacts, DashboardPayloads
  <2> QED BY <2>3, ConstantsAssumption DEF Turn
<1> QED BY <1>1, DashCorrect, QuietCorrect, PTL

\* An undisturbed scan has a post refused only when it falls back to "connecting",
\* and a scan of one mailbox has none refused.
THEOREM RefusalCorrect == ScanSpec => []OnlyRelapseRefused
<1>1. ASSUME QuietInv PROVE OnlyRelapseRefused
  BY <1>1 DEF QuietInv, QuietState, QuietReports, QuietSole, Sole, OnlyRelapseRefused
<1> QED BY <1>1, QuietCorrect, PTL
=============================================================================
