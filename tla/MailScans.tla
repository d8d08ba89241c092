------------------------------ MODULE MailScans ------------------------------
(***************************************************************************)
(* An @mail scan as the dashboard runs it over MailTurns: one digest run   *)
(* per provider is polled, every change of the aggregate is shown and      *)
(* queued to be posted, the posts go out one at a time, and the user may   *)
(* stop the scan or try again under the same idempotency key.              *)
(*                                                                         *)
(* A stop or a cut connection ends the dashboard's wait for a post, not    *)
(* the post: its handler, or the request itself, may still be under way.   *)
(* What the dashboard shows of a turn is its own last snapshot or, when an *)
(* answer comes, what was stored.                                          *)
(***************************************************************************)
EXTENDS MailTurns, FiniteSets

CONSTANTS
    Providers,   \* whose mailboxes the command names
    Text,        \* the user's message
    Plan,        \* the codes of a scan's activities, in order
    MaxAttempts, \* how often the scan is started
    MaxQueue,    \* snapshots waiting to be posted
    Reported,    \* the statuses of a run that a provider goes through
    MaxTroubles  \* how many kinds of disturbance strike

Snapshots ==
    {[i \in 1..3 |-> [code |-> Plan[i], status |-> f[i]]] : f \in [1..3 -> ActivityStatus]}

DashboardRequests ==
    [message : {Text}, status : TurnStatus, scan : ScanStatus, activities : Snapshots]

ASSUME DashboardAssumption ==
    /\ Text \in Messages
    /\ Plan \in [1..3 -> MailCodes]
    /\ \A i, j \in 1..3 : Plan[i] = Plan[j] => i = j
    /\ DashboardRequests \subseteq Requests
    /\ Providers # {} /\ Reported \subseteq ScanStatus
    /\ MaxAttempts \in Nat /\ MaxQueue \in Nat /\ MaxTroubles \in Nat

Attempts == 1..MaxAttempts
Results == {"succeeded", "partial", "failed"}

VARIABLES
    attempt,   \* how many times the scan has been started
    phase,     \* "idle", "scanning", "saving" or "over"
    verdict,   \* generationStatus of the message
    polled,    \* what is known of a provider's run
    shownScan, \* mailScan of the message
    shown,     \* activities of the message
    queue,     \* snapshots to be posted, with the attempt whose stop drops them
    awaited,   \* whether the queue waits for a post, or something beside it
    owner,     \* the attempt whose stop ends the wait for a post
    aborted,   \* the attempts that were stopped
    trouble    \* history: what has disturbed the scan

clientVars == <<attempt, phase, verdict, polled, shownScan, shown, queue,
                awaited, owner, aborted, trouble>>
scanVars == <<vars, clientVars>>

Troubles == {"stopped", "failed", "lost", "deleted", "evicted", "retried"}
Entry == [request : DashboardRequests, attempt : 0..MaxAttempts]

ScanTypeOK ==
    /\ TypeOK
    /\ attempt \in 0..MaxAttempts
    /\ phase \in {"idle", "scanning", "saving", "over"}
    /\ verdict \in TurnStatus \cup {"none"}
    /\ polled \in [Providers -> ScanStatus \cup {"unknown"}]
    /\ shownScan \in ScanStatus
    /\ shown \in Snapshots
    /\ queue \in Seq(Entry)
    /\ awaited \in [Posts -> {"no", "queue", "aside"}]
    /\ owner \in [Posts -> 0..MaxAttempts]
    /\ aborted \subseteq Attempts
    /\ trouble \subseteq Troubles

-----------------------------------------------------------------------------
\* What the dashboard makes of the runs it polls

Steps(a, b, c) ==
    <<[code |-> Plan[1], status |-> a], [code |-> Plan[2], status |-> b],
      [code |-> Plan[3], status |-> c]>>

Snapshot(s) ==
    CASE s = "connecting" -> Steps("running", "pending", "pending")
      [] s \in {"queued", "running"} -> Steps("completed", "running", "pending")
      [] s = "failed" -> Steps("completed", "failed", "skipped")
      [] OTHER -> Steps("completed", "completed", "completed")

\* Mutant: a run of which nothing is known is reported as such.
AggregateRaw(p) ==
    LET Some(s) == \E x \in Providers : p[x] = s
        All(S) == \A x \in Providers : p[x] \in S
    IN IF All(Results)
       THEN IF All({"failed"}) THEN "failed"
            ELSE IF All({"succeeded"}) THEN "succeeded" ELSE "partial"
       ELSE IF Some("running") THEN "running"
            ELSE IF Some("queued") THEN "queued"
            ELSE IF Some("unknown") THEN "unknown" ELSE "connecting"

Aggregate(p) ==
    LET Some(s) == \E x \in Providers : p[x] = s
        All(S) == \A x \in Providers : p[x] \in S
    IN IF All(Results)
       THEN IF All({"failed"}) THEN "failed"
            ELSE IF All({"succeeded"}) THEN "succeeded" ELSE "partial"
       ELSE IF Some("running") THEN "running"
            ELSE IF Some("queued") THEN "queued" ELSE "connecting"

StatusOf(s) ==
    CASE s = "failed" -> "failed"
      [] s \in {"succeeded", "partial"} -> "completed"
      [] OTHER -> "generating"

Report(s) ==
    [message |-> Text, status |-> StatusOf(s), scan |-> s, activities |-> Snapshot(s)]

\* What a stop posts: the turn as shown, with its unfinished work called off.
StopReport ==
    [message |-> Text, status |-> "cancelled", scan |-> shownScan,
     activities |-> Settled(shown, "cancelled")]

Strike(t) ==
    /\ trouble' = trouble \cup {t}
    /\ Cardinality(trouble') <= MaxTroubles

Waiting == \E i \in Posts : awaited[i] = "queue"

Enqueue(r, n) == queue' = Append(queue, [request |-> r, attempt |-> n])

-----------------------------------------------------------------------------
ScanInit ==
    /\ Init
    /\ attempt = 0
    /\ phase = "idle"
    /\ verdict = "none"
    /\ polled = [p \in Providers |-> "unknown"]
    /\ shownScan = "connecting"
    /\ shown = Snapshot("connecting")
    /\ queue = <<>>
    /\ awaited = [i \in Posts |-> "no"]
    /\ owner = [i \in Posts |-> 0]
    /\ aborted = {}
    /\ trouble = {}

\* The message is sent, or tried again under its key; what it last showed of
\* the scan stays until the next answer of a provider.
Start ==
    /\ phase \in {"idle", "over"}
    /\ attempt < MaxAttempts
    /\ Len(queue) < MaxQueue
    /\ attempt' = attempt + 1
    /\ phase' = "scanning"
    /\ verdict' = "generating"
    /\ polled' = [p \in Providers |-> "unknown"]
    /\ shown' = Snapshot("connecting")
    /\ Enqueue(Report("connecting"), attempt')
    /\ IF attempt = 0 THEN UNCHANGED trouble ELSE Strike("retried")
    /\ UNCHANGED <<vars, shownScan, awaited, owner, aborted>>

\* What the next poll of a provider's run may find: a run that was reported
\* is never "connecting" again, one that ended stays ended, and a stuck one
\* goes back from running to queued.
Follows(old, new) ==
    CASE old = "unknown" -> new \in {"connecting", "failed"}
      [] old \in {"connecting", "queued", "running"} -> new \in ScanStatus \ {"connecting"}
      [] OTHER -> FALSE

\* A provider's answer is shown and, if it changes the snapshot or its counts,
\* queued.  The last one ends the scan.
Publish(p, s) ==
    /\ phase = "scanning"
    /\ Follows(polled[p], s)
    /\ polled' = [polled EXCEPT ![p] = s]
    /\ LET now == Aggregate(polled')
       IN /\ shownScan' = now
          /\ shown' = Snapshot(now)
          /\ phase' = IF StatusOf(now) = "generating" THEN "scanning" ELSE "saving"
          /\ \/ Len(queue) < MaxQueue /\ Enqueue(Report(now), attempt)
             \/ now = Aggregate(polled) /\ UNCHANGED queue
    /\ UNCHANGED <<vars, attempt, verdict, awaited, owner, aborted, trouble>>

\* Mutant: it does not wait for the last one.
PostNextAtOnce(i) ==
    /\ queue # <<>>
    /\ Head(queue).attempt \notin aborted
    /\ Send(i, Head(queue).request)
    /\ queue' = Tail(queue)
    /\ awaited' = [awaited EXCEPT ![i] = "queue"]
    /\ owner' = [owner EXCEPT ![i] = Head(queue).attempt]
    /\ UNCHANGED <<attempt, phase, verdict, polled, shownScan, shown, aborted, trouble>>

\* The next snapshot goes out when the last one was answered or given up.
PostNext(i) ==
    /\ queue # <<>>
    /\ ~Waiting
    /\ Head(queue).attempt \notin aborted
    /\ Send(i, Head(queue).request)
    /\ queue' = Tail(queue)
    /\ awaited' = [awaited EXCEPT ![i] = "queue"]
    /\ owner' = [owner EXCEPT ![i] = Head(queue).attempt]
    /\ UNCHANGED <<attempt, phase, verdict, polled, shownScan, shown, aborted, trouble>>

\* A fetch whose signal was aborted fails before it is sent.
DropNext ==
    /\ queue # <<>>
    /\ ~Waiting
    /\ Head(queue).attempt \in aborted
    /\ queue' = Tail(queue)
    /\ UNCHANGED <<vars, attempt, phase, verdict, polled, shownScan, shown,
                   awaited, owner, aborted, trouble>>

Answer(i) ==
    /\ awaited[i] # "no"
    /\ stage[i] \in {"stored", "refused"}
    /\ awaited' = [awaited EXCEPT ![i] = "no"]
    /\ shown' = IF stage[i] = "stored" THEN merged[i].activities ELSE shown
    /\ UNCHANGED <<vars, attempt, phase, verdict, polled, shownScan, queue,
                   owner, aborted, trouble>>

\* The connection fails, whatever has become of the post.
LoseAnswer(i) ==
    /\ awaited[i] # "no"
    /\ awaited' = [awaited EXCEPT ![i] = "no"]
    /\ Strike("lost")
    /\ UNCHANGED <<vars, attempt, phase, verdict, polled, shownScan, shown, queue,
                   owner, aborted>>

Conclude == verdict' = StatusOf(Aggregate(polled)) /\ phase' = "over"

\* The last post of the scan was answered or given up.
Finish ==
    /\ phase = "saving"
    /\ queue = <<>>
    /\ ~Waiting
    /\ Conclude
    /\ UNCHANGED <<vars, attempt, polled, shownScan, shown, queue, awaited, owner,
                   aborted, trouble>>

Abort ==
    /\ aborted' = aborted \cup {attempt}
    /\ awaited' = [i \in Posts |-> IF owner[i] = attempt THEN "no" ELSE awaited[i]]
    /\ Strike("stopped")
    /\ UNCHANGED <<vars, attempt, polled, shownScan, owner>>

\* The user stops the scan: what waits is dropped, and the cancelled turn is
\* posted behind it, without waiting for the handler of the post under way.
StopScan ==
    /\ phase = "scanning"
    /\ Len(queue) < MaxQueue
    /\ Abort
    /\ phase' = "over"
    /\ verdict' = "cancelled"
    /\ shown' = Settled(shown, "cancelled")
    /\ Enqueue(StopReport, 0)

\* Once the scan itself is over, a stop only ends the wait for its last post.
StopSaving ==
    /\ phase = "saving"
    /\ Abort
    /\ Conclude
    /\ UNCHANGED <<shown, queue>>

\* The mailboxes cannot be listed: the failed turn is posted beside the queue.
ScanFails(i) ==
    /\ phase = "scanning"
    /\ \A p \in Providers : polled[p] = "unknown"
    /\ phase' = "over"
    /\ verdict' = "failed"
    /\ shownScan' = "failed"
    /\ shown' = Snapshot("failed")
    /\ Send(i, Report("failed"))
    /\ awaited' = [awaited EXCEPT ![i] = "aside"]
    /\ owner' = [owner EXCEPT ![i] = attempt]
    /\ Strike("failed")
    /\ UNCHANGED <<attempt, polled, queue, aborted>>

\* The server's steps; a handler that dies is a connection lost.
ServeScan(i) ==
    /\ \/ Refuse(i) \/ Begin(i) \/ Store(i) \/ Upsert(i)
       \/ /\ awaited[i] = "no"
          /\ Lose(i)
    /\ UNCHANGED clientVars

Crash(i) ==
    /\ awaited[i] # "no"
    /\ Lose(i)
    /\ awaited' = [awaited EXCEPT ![i] = "no"]
    /\ Strike("lost")
    /\ UNCHANGED <<attempt, phase, verdict, polled, shownScan, shown, queue, owner, aborted>>

Delete ==
    /\ DeleteSession
    /\ Strike("deleted")
    /\ UNCHANGED <<attempt, phase, verdict, polled, shownScan, shown, queue,
                   awaited, owner, aborted>>

Forget ==
    /\ Evict
    /\ Strike("evicted")
    /\ UNCHANGED <<attempt, phase, verdict, polled, shownScan, shown, queue,
                   awaited, owner, aborted>>

ScanNext ==
    \/ Start \/ DropNext \/ Finish \/ StopScan \/ StopSaving \/ Delete \/ Forget
    \/ \E p \in Providers : \E s \in Reported : Publish(p, s)
    \/ \E i \in Posts :
          PostNext(i) \/ Answer(i) \/ LoseAnswer(i) \/ ScanFails(i) \/ ServeScan(i) \/ Crash(i)

ScanSpec == ScanInit /\ [][ScanNext]_scanVars

-----------------------------------------------------------------------------
\* Properties

\* When a scan that nothing disturbed is over, the history holds what the
\* dashboard shows: the verdict, the scan's result and the activities.
VerdictStored ==
    phase = "over" /\ trouble = {} =>
        /\ row # NoTurn
        /\ row.status = verdict
        /\ row.scan = shownScan
        /\ row.activities = shown

\* Until something disturbs a scan, a refused post says "connecting", and the
\* dashboard has several providers.  (With one provider no such post follows
\* one that reports progress: only a provider that is done while another has
\* not begun takes the whole back to "connecting".)
OnlyRelapseRefused ==
    trouble = {} =>
        \A i \in Posts : stage[i] = "refused" =>
            asked[i].scan = "connecting" /\ \E p, q \in Providers : p # q

\* An ended turn changes only after a stop, a scan that failed at once, a lost
\* answer, the deletion of its session or its eviction from the buffer; trying
\* again leaves it alone.
EndKept ==
    [][row # NoTurn /\ row.status \in Terminal /\ row' # row =>
           trouble' \cap {"stopped", "failed", "lost", "deleted", "evicted"} # {}]_scanVars
=============================================================================
