---------------------------- MODULE TaskEpisodes ----------------------------
(***************************************************************************)
(* Task episodes, the chat's memory of what a user asked to have done: the *)
(* task_episodes rows of one session's turns, the settler of a process     *)
(* that writes them and parks a write the store did not acknowledge, the   *)
(* users' approvals, completions, rejections and deletions through the     *)
(* episodes a process has cached, retention, and the retrieval that brings *)
(* approved episodes back into later turns.                                *)
(*                                                                         *)
(* A step is one SQL statement with the code before it, or the code that   *)
(* resumes after one.  The session may be served by several processes,     *)
(* each with its own controller; a turn's key and its turn are one.        *)
(* Episodes are numbered in the order in which the settlers mint them, and *)
(* an updated_at, drawn from the clocks in step order, never decides.      *)
(***************************************************************************)
EXTENDS Naturals, FiniteSets

CONSTANTS
    Procs,       \* processes that serve the session
    Turns,       \* turns of the session that ask for a task
    MaxEpisodes, \* episodes minted in a run
    MaxItems,    \* EPISODIC_RETRIEVAL_MAX_ITEMS
    Users,       \* requests about an episode that clients have open
    Faults,      \* the kinds of fault a run considers, each once
    MaxFaults,   \* how many of them strike
    None         \* no turn, no episode, no status

Status == {"system_generated", "user_approved", "completed", "rejected"}

FaultKinds == {"unacked", "restart", "hangup", "expire"}

ASSUME ConstantsAssumption ==
    /\ MaxEpisodes \in Nat /\ MaxItems \in Nat \ {0}
    /\ Faults \subseteq FaultKinds /\ MaxFaults \in Nat
    /\ None \notin Turns /\ None \notin Procs
    /\ None \notin Nat \cup Status

Episodes == 1..MaxEpisodes

Allowed == [s \in Status |->
    CASE s = "system_generated" -> {"user_approved", "completed", "rejected"}
      [] s = "user_approved" -> {"completed", "rejected"}
      [] OTHER -> {}]

\* What a status may have become; a rejection or a completion is final.
Later(s) == {s} \cup Allowed[s]

\* The record_id of a turn's row is derived from the turn, its episode_id not.
Row == [id : Episodes, status : Status, supersedes : Episodes \cup {None}]
Draft == [id : Episodes, supersedes : Episodes \cup {None}]
NoRow == [id |-> None]
NoDraft == [id |-> None]

StreamPc == {"idle", "write", "written", "finish"}
UserPc == {"idle", "load", "act", "done"}
Wish == {"user_approved", "completed", "rejected", "delete"}

VARIABLES
    row,      \* the task_episodes row of a turn
    done,     \* turns whose chat_turns row is completed
    minted,   \* episodes minted so far
    turnOf,   \* the turn an episode was minted for
    expired,  \* episodes past their expires_at
    removed,  \* episodes that were deleted or purged, at least once
    faults,   \* the kinds of fault that have struck
    cache,    \* _task_episodes of a process: the status it knows, or None
    parked,   \* _pending of a process: the write a turn still owes
    pc,       \* where the stream that holds a process's _turn_lock stands
    turn,     \* its turn
    draft,    \* the episode it writes
    replay,   \* whether that write is a parked one
    answer,   \* what the store answered: a status, "unavailable", "conflict"
    userPc,   \* where a request about an episode stands
    user      \* its process, episode, wish, and the status read or returned

storeVars == <<row, done, minted, turnOf, expired>>
streamVars == <<pc, turn, draft, replay, answer>>
userVars == <<userPc, user>>
vars == <<storeVars, removed, faults, cache, parked, streamVars, userVars>>

NoUser == [proc |-> None, id |-> None, wish |-> None, status |-> None]
Answer == Status \cup {"unavailable", "conflict", None}

TypeOK ==
    /\ row \in [Turns -> Row \cup {NoRow}]
    /\ done \subseteq Turns
    /\ minted \in 0..MaxEpisodes
    /\ turnOf \in [Episodes -> Turns \cup {None}]
    /\ expired \subseteq Episodes
    /\ removed \subseteq Episodes
    /\ faults \subseteq Faults
    /\ cache \in [Procs -> [Episodes -> Status \cup {None}]]
    /\ parked \in [Procs -> [Turns -> Draft \cup {NoDraft}]]
    /\ pc \in [Procs -> StreamPc]
    /\ turn \in [Procs -> Turns \cup {None}]
    /\ draft \in [Procs -> Draft \cup {NoDraft}]
    /\ replay \in [Procs -> BOOLEAN]
    /\ answer \in [Procs -> Answer]
    /\ userPc \in [Users -> UserPc]
    /\ user \in [Users -> [proc : Procs \cup {None}, id : Episodes \cup {None},
                           wish : Wish \cup {None}, status : Status \cup {None}]]

Init ==
    /\ row = [t \in Turns |-> NoRow]
    /\ done = {} /\ minted = 0 /\ expired = {} /\ removed = {} /\ faults = {}
    /\ turnOf = [e \in Episodes |-> None]
    /\ cache = [p \in Procs |-> [e \in Episodes |-> None]]
    /\ parked = [p \in Procs |-> [t \in Turns |-> NoDraft]]
    /\ pc = [p \in Procs |-> "idle"]
    /\ turn = [p \in Procs |-> None]
    /\ draft = [p \in Procs |-> NoDraft]
    /\ replay = [p \in Procs |-> FALSE]
    /\ answer = [p \in Procs |-> None]
    /\ userPc = [u \in Users |-> "idle"]
    /\ user = [u \in Users |-> NoUser]

MayStrike(kind) == kind \in Faults \ faults /\ Cardinality(faults) < MaxFaults

----------------------------------------------------------------------------
(* Retrieval *)

\* The statement's predicate; what it matches is up to the query's words.
Eligible ==
    {t \in Turns : /\ row[t] # NoRow
                   /\ row[t].status \in {"user_approved", "completed"}
                   /\ row[t].id \notin expired}

\* What a query may find: at most MaxItems of the eligible rows.
Findings == {found \in SUBSET {row[t] : t \in Eligible} : Cardinality(found) <= MaxItems}

\* read_context drops what another episode of the same result supersedes.
Retrieved(found) == {r \in found : \A s \in found : s.supersedes # r.id}

----------------------------------------------------------------------------
(* The stream of a turn: its context, its settlement, its completion *)

Leave(p) ==
    /\ pc' = [pc EXCEPT ![p] = "idle"]
    /\ turn' = [turn EXCEPT ![p] = None]
    /\ draft' = [draft EXCEPT ![p] = NoDraft]
    /\ replay' = [replay EXCEPT ![p] = FALSE]
    /\ answer' = [answer EXCEPT ![p] = None]

\* A request of a turn that is not completed, or not known here to be.  The
\* context is read, the reply proposes a task that may supersede one of the
\* episodes in it, and the settler gives the proposal an identity.
Propose(p, t) ==
    /\ pc[p] = "idle" /\ parked[p][t] = NoDraft /\ t \notin done
    /\ minted < MaxEpisodes
    /\ \E found \in Findings :
         \E old \in {r.id : r \in Retrieved(found)} \cup {None} :
            draft' = [draft EXCEPT ![p] = [id |-> minted + 1, supersedes |-> old]]
    /\ minted' = minted + 1
    /\ turnOf' = [turnOf EXCEPT ![minted + 1] = t]
    /\ turn' = [turn EXCEPT ![p] = t]
    /\ pc' = [pc EXCEPT ![p] = "write"]
    /\ UNCHANGED <<row, removed, done, expired, faults, cache, parked, replay, answer, userVars>>

\* A request of a turn whose write is parked here.
Retry(p, t) ==
    /\ pc[p] = "idle" /\ parked[p][t] # NoDraft
    /\ pc' = [pc EXCEPT ![p] = "write"]
    /\ turn' = [turn EXCEPT ![p] = t]
    /\ draft' = [draft EXCEPT ![p] = parked[p][t]]
    /\ replay' = [replay EXCEPT ![p] = TRUE]
    /\ UNCHANGED <<storeVars, removed, faults, cache, parked, answer, userVars>>

Conflicts(p) == row[turn[p]] # NoRow /\ row[turn[p]].id # draft[p].id

\* Mutant: the upsert updates the row without its conditions.
UpsertBlindly(p) ==
    LET old == row[turn[p]]
    IN [row EXCEPT ![turn[p]] =
          [id |-> IF old = NoRow THEN draft[p].id ELSE old.id,
           status |-> "system_generated", supersedes |-> draft[p].supersedes]]

\* Mutant: the upsert keeps a decision, but not what the decided row replaces.
UpsertLinks(p) ==
    LET old == row[turn[p]]
    IN [row EXCEPT ![turn[p]] =
          [id |-> IF old = NoRow THEN draft[p].id ELSE old.id,
           status |-> IF old = NoRow THEN "system_generated" ELSE old.status,
           supersedes |-> draft[p].supersedes]]

\* The row is inserted; one with the same identity is updated while nobody has
\* decided about it, and returned as it is afterwards.
Upsert(p) ==
    IF \/ row[turn[p]] = NoRow
       \/ row[turn[p]].id = draft[p].id /\ row[turn[p]].status = "system_generated"
    THEN [row EXCEPT ![turn[p]] =
            [id |-> draft[p].id, status |-> "system_generated",
             supersedes |-> draft[p].supersedes]]
    ELSE row

Write(p) ==
    /\ pc[p] = "write"
    /\ row' = Upsert(p)
    /\ answer' = [answer EXCEPT ![p] = IF Conflicts(p) THEN "conflict"
                                       ELSE row'[turn[p]].status]
    /\ pc' = [pc EXCEPT ![p] = "written"]
    /\ UNCHANGED <<removed, done, minted, turnOf, expired, faults, cache, parked,
                   turn, draft, replay, userVars>>

\* OperationalError: the statement may or may not have been committed.
WriteUnacked(p) ==
    /\ pc[p] = "write" /\ MayStrike("unacked")
    /\ row' \in {row, Upsert(p)}
    /\ faults' = faults \cup {"unacked"}
    /\ answer' = [answer EXCEPT ![p] = "unavailable"]
    /\ pc' = [pc EXCEPT ![p] = "written"]
    /\ UNCHANGED <<removed, done, minted, turnOf, expired, cache, parked,
                   turn, draft, replay, userVars>>

\* An acknowledged episode is announced and cached as the store returned it.
Announced(p) ==
    IF answer[p] \in Status THEN [cache EXCEPT ![p][draft[p].id] = answer[p]] ELSE cache

\* settle goes on to complete the turn, whatever the store answered.
Settle(p) ==
    /\ pc[p] = "written" /\ ~replay[p]
    /\ cache' = Announced(p)
    /\ pc' = [pc EXCEPT ![p] = "finish"]
    /\ UNCHANGED <<storeVars, removed, faults, parked, turn, draft, replay, answer, userVars>>

\* replay keeps the write parked only while the store is unavailable.
Replayed(p) ==
    /\ pc[p] = "written" /\ replay[p]
    /\ cache' = Announced(p)
    /\ parked' = IF answer[p] = "unavailable" THEN parked
                 ELSE [parked EXCEPT ![p][turn[p]] = NoDraft]
    /\ Leave(p)
    /\ UNCHANGED <<storeVars, removed, faults, userVars>>

\* The turn is persisted as completed, then the write is parked.
Finish(p) ==
    /\ pc[p] = "finish"
    /\ done' = done \cup {turn[p]}
    /\ parked' = IF answer[p] = "unavailable"
                 THEN [parked EXCEPT ![p][turn[p]] = draft[p]] ELSE parked
    /\ Leave(p)
    /\ UNCHANGED <<row, removed, minted, turnOf, expired, faults, cache, userVars>>

Stream(p) ==
    \/ \E t \in Turns : Propose(p, t) \/ Retry(p, t)
    \/ Write(p) \/ WriteUnacked(p)
    \/ Settle(p) \/ Replayed(p) \/ Finish(p)

----------------------------------------------------------------------------
(* Requests about an episode *)

Stored(e) == turnOf[e] # None /\ row[turnOf[e]].id = e

\* approve, complete, reject or delete, of an episode the client has seen; one
\* the process has cached is not read again.  (If the lifecycle forbids the
\* wish as the process knows the episode, the request ends here, unchanged.)
Ask(u, p, e, w) ==
    /\ userPc[u] = "idle" /\ turnOf[e] # None
    /\ \/ cache[p][e] = None /\ Stored(e)
       \/ cache[p][e] # None /\ w \in Allowed[cache[p][e]] \cup {"delete"}
    /\ user' = [user EXCEPT ![u] = [proc |-> p, id |-> e, wish |-> w,
                                    status |-> cache[p][e]]]
    /\ userPc' = [userPc EXCEPT ![u] = IF cache[p][e] = None THEN "load" ELSE "act"]
    /\ UNCHANGED <<storeVars, removed, faults, cache, parked, streamVars>>

EndRequest(u) ==
    /\ userPc' = [userPc EXCEPT ![u] = "idle"]
    /\ user' = [user EXCEPT ![u] = NoUser]

\* read_task_episode: 404, or the episode is cached when the request resumes.
Load(u) ==
    /\ userPc[u] = "load"
    /\ LET e == user[u].id IN
         IF Stored(e) /\ e \notin expired
         THEN /\ userPc' = [userPc EXCEPT ![u] = "act"]
              /\ user' = [user EXCEPT ![u].status = row[turnOf[e]].status]
         ELSE EndRequest(u)
    /\ UNCHANGED <<storeVars, removed, faults, cache, parked, streamVars>>

Loaded(u) == [cache EXCEPT ![user[u].proc][user[u].id] = user[u].status]

\* An EpisodeTransition the lifecycle forbids is never built.
Refuse(u) ==
    /\ userPc[u] = "act"
    /\ user[u].wish \notin Allowed[user[u].status] \cup {"delete"}
    /\ cache' = Loaded(u)
    /\ EndRequest(u)
    /\ UNCHANGED <<storeVars, removed, faults, parked, streamVars>>

\* The UPDATE's condition: the row still has the status the process knew.
TransitHits(u) ==
    /\ Stored(user[u].id)
    /\ row[turnOf[user[u].id]].status = user[u].status

\* Mutant: the status asked for is cached although no row was updated.
MissedCaches(u) ==
    /\ userPc' = [userPc EXCEPT ![u] = "done"]
    /\ UNCHANGED user

\* No row was updated: 404, and the cached episode stays as it is.
Missed(u) == EndRequest(u)

Transit(u) ==
    /\ userPc[u] = "act" /\ user[u].wish \in Allowed[user[u].status]
    /\ cache' = Loaded(u)
    /\ IF TransitHits(u)
       THEN /\ row' = [row EXCEPT ![turnOf[user[u].id]].status = user[u].wish]
            /\ userPc' = [userPc EXCEPT ![u] = "done"]
            /\ UNCHANGED user
       ELSE UNCHANGED row /\ Missed(u)
    /\ UNCHANGED <<removed, done, minted, turnOf, expired, faults, parked, streamVars>>

Delete(u) ==
    /\ userPc[u] = "act" /\ user[u].wish = "delete"
    /\ cache' = Loaded(u)
    /\ IF Stored(user[u].id)
       THEN /\ row' = [row EXCEPT ![turnOf[user[u].id]] = NoRow]
            /\ removed' = removed \cup {user[u].id}
            /\ userPc' = [userPc EXCEPT ![u] = "done"]
            /\ UNCHANGED user
       ELSE UNCHANGED <<row, removed>> /\ EndRequest(u)
    /\ UNCHANGED <<done, minted, turnOf, expired, faults, parked, streamVars>>

\* A hit is cached; a deleted episode leaves the cache.
Outcome(u) == IF user[u].wish = "delete" THEN None ELSE user[u].wish

Conclude(u) ==
    /\ userPc[u] = "done"
    /\ cache' = [cache EXCEPT ![user[u].proc][user[u].id] = Outcome(u)]
    /\ EndRequest(u)
    /\ UNCHANGED <<storeVars, removed, faults, parked, streamVars>>

Request(u) ==
    \/ \E p \in Procs, e \in Episodes, w \in Wish : Ask(u, p, e, w)
    \/ Load(u) \/ Refuse(u) \/ Transit(u) \/ Delete(u) \/ Conclude(u)

----------------------------------------------------------------------------
(* Retention, clients that go away, and processes that die *)

Expire(e) ==
    /\ MayStrike("expire") /\ turnOf[e] # None
    /\ expired' = expired \cup {e}
    /\ faults' = faults \cup {"expire"}
    /\ UNCHANGED <<row, removed, done, minted, turnOf, cache, parked, streamVars, userVars>>

\* purge_expired, run by an operator's script.
Purge ==
    /\ \E t \in Turns : row[t].id \in expired
    /\ row' = [t \in Turns |-> IF row[t].id \in expired THEN NoRow ELSE row[t]]
    /\ removed' = removed \cup {row[t].id : t \in {t \in Turns : row[t].id \in expired}}
    /\ UNCHANGED <<done, minted, turnOf, expired, faults, cache, parked, streamVars, userVars>>

\* A stream is torn down at an await, or its turn's last write is refused.
Abandon(p) ==
    /\ MayStrike("hangup") /\ pc[p] # "idle"
    /\ faults' = faults \cup {"hangup"}
    /\ Leave(p)
    /\ UNCHANGED <<storeVars, removed, cache, parked, userVars>>

\* Only the rows survive a process; requests it was serving end with it.
Restart(p) ==
    /\ MayStrike("restart")
    /\ faults' = faults \cup {"restart"}
    /\ cache' = [cache EXCEPT ![p] = [e \in Episodes |-> None]]
    /\ parked' = [parked EXCEPT ![p] = [t \in Turns |-> NoDraft]]
    /\ Leave(p)
    /\ userPc' = [u \in Users |-> IF user[u].proc = p THEN "idle" ELSE userPc[u]]
    /\ user' = [u \in Users |-> IF user[u].proc = p THEN NoUser ELSE user[u]]
    /\ UNCHANGED <<storeVars, removed>>

Next ==
    \/ \E p \in Procs : Stream(p) \/ Abandon(p) \/ Restart(p)
    \/ \E u \in Users : Request(u)
    \/ \E e \in Episodes : Expire(e)
    \/ Purge

Spec == Init /\ [][Next]_vars

----------------------------------------------------------------------------
(* Properties *)

\* Writes, their retries after a lost acknowledgement, other processes' stale
\* episodes and users' requests meet in one row: it appears undecided, keeps
\* its identity and what it supersedes while it exists, and its status moves
\* only along the lifecycle, whatever the writers and users believed it to be.
MovesForward(old, new) ==
    IF old = NoRow THEN new = NoRow \/ new.status = "system_generated"
    ELSE \/ new = NoRow
         \/ /\ new.id = old.id /\ new.supersedes = old.supersedes
            /\ new.status \in Later(old.status)
EpisodesMoveForward == [][\A t \in Turns : MovesForward(row[t], row'[t])]_vars

\* What a process has cached of an episode is what it is or once was: a cached
\* status may be stale but never one the row has yet to reach.  (An episode
\* that was removed can return by a parked write, so it is left out.)
CacheBehind ==
    \A p \in Procs, e \in Episodes \ removed :
        Stored(e) /\ cache[p][e] # None => row[turnOf[e]].status \in Later(cache[p][e])

\* The rule that superseded episodes are dropped never silences the memory: of
\* whatever a query finds, something current remains.
CurrentRemains == \A found \in Findings : found # {} => Retrieved(found) # {}

=============================================================================
