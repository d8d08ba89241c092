------------------------- MODULE TaskEpisodesProofs -------------------------
(***************************************************************************)
(* The promises about task episodes, for any number of processes, turns,   *)
(* episodes, requests and faults.  What the proofs rest on:                *)
(*                                                                         *)
(*   - an identity is minted once and belongs to one turn, so the row of a *)
(*     turn, the drafts and the parked writes never disagree on what an    *)
(*     episode supersedes (Agreed), and that is always an older one        *)
(*     (Linked);                                                           *)
(*   - the status a process has read, was answered or has cached is one    *)
(*     the row has passed through, unless the row is gone (Behind).        *)
(***************************************************************************)
EXTENDS TaskEpisodes, FiniteSetTheorems, TLAPS

\* Some part of the system holds that episode e supersedes s.
Has(rows, drafts, owed, e, s) ==
    \/ \E t \in Turns : rows[t] # NoRow /\ rows[t].id = e /\ rows[t].supersedes = s
    \/ \E p \in Procs : drafts[p] # NoDraft /\ drafts[p].id = e /\ drafts[p].supersedes = s
    \/ \E p \in Procs, t \in Turns :
          owed[p][t] # NoDraft /\ owed[p][t].id = e /\ owed[p][t].supersedes = s
Knows(e, s) == Has(row, draft, parked, e, s)

\* Identities are given out in order.
Minted == \A e \in Episodes : turnOf[e] # None <=> e <= minted

\* A stream under way writes an episode of its own turn.
StreamsOwn ==
    \A p \in Procs :
        /\ pc[p] # "idle" => turn[p] \in Turns /\ draft[p] # NoDraft
        /\ draft[p] # NoDraft => turnOf[draft[p].id] = turn[p] /\ turn[p] \in Turns
ParkedOwn ==
    \A p \in Procs, t \in Turns : parked[p][t] # NoDraft => turnOf[parked[p][t].id] = t
RowsOwn == \A t \in Turns : row[t] # NoRow => turnOf[row[t].id] = t

Links == Episodes \cup {None}
Agreed == \A e \in Episodes : \A s1, s2 \in Links : Knows(e, s1) /\ Knows(e, s2) => s1 = s2
Linked == \A e \in Episodes : \A s \in Links :
              Knows(e, s) => turnOf[e] # None /\ (s = None \/ s < e)

\* Episode e has had status s, or is gone.
Past(rows, turns, gone, e, s) ==
    e \notin gone => /\ turns[e] # None /\ rows[turns[e]].id = e
                     /\ rows[turns[e]].status \in Later(s)
Behind(e, s) == Past(row, turnOf, removed, e, s)

CacheSeen == \A p \in Procs, e \in Episodes : cache[p][e] # None => Behind(e, cache[p][e])
AnswerSeen == \A p \in Procs : answer[p] \in Status => Behind(draft[p].id, answer[p])
AnswerKnown ==
    \A p \in Procs :
        /\ answer[p] # None => draft[p] # NoDraft
        /\ pc[p] \in {"idle", "write"} => answer[p] = None

\* A request is about an episode that was minted, as some process knew it.
UserKnown ==
    \A u \in Users : userPc[u] # "idle" =>
        /\ user[u].proc \in Procs /\ user[u].id \in Episodes /\ user[u].wish \in Wish
        /\ turnOf[user[u].id] # None
        /\ userPc[u] # "load" => user[u].status \in Status
UserSeen ==
    \A u \in Users :
        /\ userPc[u] = "act" => Behind(user[u].id, user[u].status)
        /\ userPc[u] = "done" =>
              IF user[u].wish = "delete" THEN user[u].id \in removed
              ELSE user[u].wish \in Status /\ Behind(user[u].id, user[u].wish)

EpisodeInv ==
    /\ TypeOK
    /\ Minted /\ StreamsOwn /\ ParkedOwn /\ RowsOwn
    /\ Agreed /\ Linked
    /\ CacheSeen /\ AnswerKnown /\ AnswerSeen
    /\ UserKnown /\ UserSeen

\* What every step does to the rows: an episode stays the turn's it was minted
\* for, and a row that is not removed keeps its identity and moves on.
Onward ==
    /\ removed \subseteq removed'
    /\ \A e \in Episodes : turnOf[e] # None => turnOf'[e] = turnOf[e]
    /\ \A t \in Turns :
          \/ row[t] = NoRow
          \/ row[t].id \in removed'
          \/ /\ row'[t] # NoRow /\ row'[t].id = row[t].id
             /\ row'[t].status \in Later(row[t].status)

\* What most steps do to the links: nobody learns of one that nobody had.
NothingNew ==
    \A e \in Episodes, s \in Links :
        Has(row', draft', parked', e, s) => Has(row, draft, parked, e, s)

-----------------------------------------------------------------------------
\* The marks of a missing row, draft, turn or episode are none of them.
LEMMA Marks ==
    /\ Episodes \subseteq Nat
    /\ None \notin Episodes /\ None \notin Turns /\ None \notin Procs /\ None \notin Status
    /\ NoRow \notin Row /\ NoDraft \notin Draft
    /\ NoRow.id = None /\ NoDraft.id = None
<1>1. /\ Episodes \subseteq Nat /\ None \notin Episodes
      /\ None \notin Turns /\ None \notin Procs /\ None \notin Status
  BY ConstantsAssumption DEF Episodes
<1> QED
  BY <1>1 DEF NoRow, Row, NoDraft, Draft

\* The lifecycle has no way back.
LEMMA LaterTransitive ==
    /\ \A s \in Status : s \in Later(s) /\ Allowed[s] \subseteq Status
    /\ \A r, s, t \in Status : s \in Later(r) /\ t \in Later(s) => t \in Later(r)
  BY DEF Later, Allowed, Status

\* A nonempty set of numbers up to n has a largest.
LEMMA Largest ==
  ASSUME NEW n \in Nat, NEW T, T \subseteq 1..n, T # {}
  PROVE  \E x \in T : \A y \in T : y <= x
<1> DEFINE Above(x) == {y \in 1..n : x < y}
           Tops == {Above(x) : x \in T}
<1>1. IsFiniteSet(1..n)
  BY FS_Interval
<1>2. IsWellFoundedOn(StrictSubsetOrdering(1..n), FiniteSubsetsOf(1..n))
  BY <1>1, FS_StrictSubsetOrderingWellFounded
<1>3. Tops \subseteq FiniteSubsetsOf(1..n)
  <2>1. \A x \in T : IsFiniteSet(Above(x))
    BY <1>1, FS_Subset
  <2> QED
    BY <2>1 DEF FiniteSubsetsOf
<1>4. PICK m \in Tops : \A k \in Tops : ~ (<<k, m>> \in StrictSubsetOrdering(1..n))
  <2>1. Tops # {}
    OBVIOUS
  <2> HIDE DEF Tops
  <2> QED
    BY <1>2, <1>3, <2>1, WFMin
<1>5. PICK x \in T : m = Above(x)
  BY <1>4
<1>6. ASSUME NEW y \in T, x < y
      PROVE  FALSE
  <2>1. Above(y) \subseteq Above(x) /\ y \in Above(x) /\ y \notin Above(y)
    BY <1>6
  <2>2. <<Above(y), Above(x)>> \in StrictSubsetOrdering(1..n)
    BY <2>1 DEF StrictSubsetOrdering
  <2> QED
    BY <1>4, <1>5, <2>2
<1> QED
  BY <1>6

\* A status an episode has had stays one it has had.
LEMMA BehindStays ==
  ASSUME TypeOK, TypeOK', Onward
  PROVE  \A e \in Episodes, s \in Status :
            Past(row, turnOf, removed, e, s) => Past(row', turnOf', removed', e, s)
<1> SUFFICES ASSUME NEW e \in Episodes, NEW s \in Status,
                    Past(row, turnOf, removed, e, s), e \notin removed'
             PROVE  /\ turnOf'[e] # None /\ row'[turnOf'[e]].id = e
                    /\ row'[turnOf'[e]].status \in Later(s)
  BY DEF Past
<1>1. e \notin removed
  BY DEF Onward
<1>2. /\ turnOf[e] # None /\ row[turnOf[e]].id = e
      /\ row[turnOf[e]].status \in Later(s)
  BY <1>1 DEF Past
<1>3. turnOf[e] \in Turns /\ turnOf'[e] = turnOf[e]
  BY <1>2 DEF Onward, TypeOK
<1>4. row[turnOf[e]] # NoRow /\ row[turnOf[e]] \in Row
  BY <1>2, <1>3, Marks DEF TypeOK
<1>5. /\ row'[turnOf[e]] # NoRow /\ row'[turnOf[e]].id = e
      /\ row'[turnOf[e]].status \in Later(row[turnOf[e]].status)
  BY <1>2, <1>3, <1>4 DEF Onward
<1>6. row'[turnOf[e]] \in Row
  BY <1>3, <1>5 DEF TypeOK
<1> QED
  BY <1>2, <1>3, <1>4, <1>5, <1>6, LaterTransitive DEF Row

\* Where nobody learns of a link, the links agree and point back as they did.
LEMMA LinksStay ==
  ASSUME Agreed, Linked, Onward, NothingNew
  PROVE  Agreed' /\ Linked'
<1>1. Agreed'
  BY DEF Agreed, Knows, NothingNew
<1>2. Linked'
  BY Marks DEF Linked, Knows, NothingNew, Onward
<1> QED
  BY <1>1, <1>2

LEMMA ProposeKeeps ==
  ASSUME EpisodeInv, NEW p \in Procs, NEW t \in Turns, Propose(p, t)
  PROVE  EpisodeInv'
<1>1. PICK found \in Findings :
        \E old \in {r.id : r \in Retrieved(found)} \cup {None} :
           draft' = [draft EXCEPT ![p] = [id |-> minted + 1, supersedes |-> old]]
  BY DEF Propose
<1>2. PICK old \in {r.id : r \in Retrieved(found)} \cup {None} :
        draft' = [draft EXCEPT ![p] = [id |-> minted + 1, supersedes |-> old]]
  BY <1>1
<1>3. /\ pc[p] = "idle" /\ minted \in Nat /\ minted + 1 \in Episodes /\ minted' = minted + 1
      /\ turnOf' = [turnOf EXCEPT ![minted + 1] = t]
      /\ turn' = [turn EXCEPT ![p] = t]
      /\ pc' = [pc EXCEPT ![p] = "write"]
      /\ UNCHANGED <<row, removed, done, expired, faults, cache, parked, replay,
                     answer, userPc, user>>
  BY ConstantsAssumption DEF Propose, EpisodeInv, TypeOK, Episodes, userVars
<1>4. old \in Episodes \cup {None} /\ (old # None => old <= minted)
  <2>1. ASSUME NEW r \in found
        PROVE  r.id \in Episodes /\ r.id <= minted
    <3>1. PICK x \in Turns : row[x] # NoRow /\ r = row[x]
      BY <2>1 DEF Findings, Eligible
    <3>2. r \in Row /\ turnOf[r.id] = x
      BY <3>1 DEF EpisodeInv, TypeOK, RowsOwn
    <3> QED
      BY <3>1, <3>2, Marks DEF EpisodeInv, Minted, Row
  <2> QED
    BY <1>2, <2>1 DEF Retrieved
<1>5. turnOf[minted + 1] = None
  BY <1>3 DEF EpisodeInv, Minted
<1> DEFINE new == [id |-> minted + 1, supersedes |-> old]
<1>6. new \in Draft /\ new # NoDraft /\ new.id = minted + 1 /\ new.supersedes = old
  BY <1>3, <1>4, Marks DEF Draft
<1>7. draft' = [draft EXCEPT ![p] = new]
  BY <1>2
<1> HIDE DEF new
<1>8. TypeOK'
  BY <1>3, <1>6, <1>7, ConstantsAssumption DEF EpisodeInv, TypeOK, StreamPc, Episodes
<1>9. Minted'
  BY <1>3, Marks DEF EpisodeInv, TypeOK, Minted, Episodes
<1>10. \A q \in Procs : draft[q] # NoDraft => draft[q].id # minted + 1
  BY <1>5, Marks DEF EpisodeInv, StreamsOwn
<1>11. StreamsOwn'
  <2>1. ASSUME NEW q \in Procs, q # p
        PROVE  /\ draft'[q] = draft[q] /\ turn'[q] = turn[q] /\ pc'[q] = pc[q]
               /\ draft[q] # NoDraft => turnOf'[draft[q].id] = turnOf[draft[q].id]
    <3>1. draft[q] # NoDraft => draft[q].id \in Episodes
      BY DEF EpisodeInv, TypeOK, Draft
    <3> QED
      BY <1>3, <1>7, <1>10, <2>1, <3>1 DEF EpisodeInv, TypeOK
  <2>2. draft'[p] = new /\ turn'[p] = t /\ turnOf'[new.id] = t
    BY <1>3, <1>6, <1>7 DEF EpisodeInv, TypeOK
  <2> QED
    BY <1>6, <2>1, <2>2 DEF EpisodeInv, StreamsOwn
<1>12. ParkedOwn'
  <2>1. ASSUME NEW q \in Procs, NEW x \in Turns, parked[q][x] # NoDraft
        PROVE  turnOf'[parked[q][x].id] = x
    <3>1. parked[q][x].id \in Episodes /\ turnOf[parked[q][x].id] = x
      BY <2>1 DEF EpisodeInv, TypeOK, ParkedOwn, Draft
    <3> QED
      BY <1>3, <1>5, <3>1, Marks DEF EpisodeInv, TypeOK
  <2> QED
    BY <1>3, <2>1 DEF ParkedOwn
<1>13. RowsOwn'
  <2>1. ASSUME NEW x \in Turns, row[x] # NoRow
        PROVE  turnOf'[row[x].id] = x
    <3>1. row[x].id \in Episodes /\ turnOf[row[x].id] = x
      BY <2>1 DEF EpisodeInv, TypeOK, RowsOwn, Row
    <3> QED
      BY <1>3, <1>5, <3>1, Marks DEF EpisodeInv, TypeOK
  <2> QED
    BY <1>3, <2>1 DEF RowsOwn
<1>14. AnswerKnown'
  BY <1>3, <1>6, <1>7 DEF EpisodeInv, TypeOK, AnswerKnown
<1>15. UserKnown'
  <2>1. \A e \in Episodes : turnOf[e] # None => turnOf'[e] # None
    BY <1>3, <1>5 DEF EpisodeInv, TypeOK
  <2> QED
    BY <1>3, <2>1 DEF EpisodeInv, UserKnown
<1>16. Onward
  BY <1>3, <1>5, LaterTransitive DEF EpisodeInv, TypeOK, Onward, Row
<1>17. \A e \in Episodes, s \in Status :
        Past(row, turnOf, removed, e, s) => Past(row', turnOf', removed', e, s)
  BY <1>8, <1>16, BehindStays DEF EpisodeInv
<1>18. \A e \in Episodes, s \in Links :
        Has(row', draft', parked', e, s) =>
            Has(row, draft, parked, e, s) \/ (e = minted + 1 /\ s = old)
  BY <1>3, <1>6, <1>7 DEF Has, EpisodeInv, TypeOK
<1>19. \A s \in Links : ~ Has(row, draft, parked, minted + 1, s)
  BY <1>3, <1>5 DEF EpisodeInv, Linked, Knows
<1>20. Agreed'
  BY <1>18, <1>19 DEF EpisodeInv, Agreed, Knows
<1>21. Linked'
  <2>1. turnOf'[minted + 1] # None
    BY <1>3, Marks DEF EpisodeInv, TypeOK
  <2>2. old = None \/ old < minted + 1
    BY <1>3, <1>4, Marks
  <2> QED
    BY <1>16, <1>18, <2>1, <2>2 DEF EpisodeInv, Linked, Knows, Onward
<1>22. CacheSeen'
  <2>1. ASSUME NEW q \in Procs, NEW e \in Episodes, cache[q][e] # None
        PROVE  Past(row', turnOf', removed', e, cache[q][e])
    <3>1. cache[q][e] \in Status
      BY <2>1 DEF EpisodeInv, TypeOK
    <3> QED
      BY <1>17, <2>1, <3>1 DEF EpisodeInv, CacheSeen, Behind
  <2> QED
    BY <1>3, <2>1 DEF CacheSeen, Behind
<1>23. AnswerSeen'
  <2>1. ASSUME NEW q \in Procs, answer'[q] \in Status
        PROVE  Past(row', turnOf', removed', draft'[q].id, answer'[q])
    <3>1. answer'[q] = answer[q] /\ answer[q] # None /\ q # p
      BY <1>3, <2>1, Marks DEF EpisodeInv, AnswerKnown
    <3>2. draft'[q] = draft[q] /\ draft[q] \in Draft
      BY <1>7, <3>1 DEF EpisodeInv, TypeOK, AnswerKnown
    <3> QED
      BY <1>17, <2>1, <3>1, <3>2 DEF EpisodeInv, AnswerSeen, Behind, Draft
  <2> QED
    BY <2>1 DEF AnswerSeen, Behind
<1>24. UserSeen'
  BY <1>3, <1>17 DEF EpisodeInv, UserSeen, UserKnown, Behind, TypeOK
<1> QED
  BY <1>8, <1>9, <1>11, <1>12, <1>13, <1>14, <1>15, <1>20, <1>21, <1>22, <1>23, <1>24
     DEF EpisodeInv

\* What the upsert does: the row is the stream's own, or stays as it is.
LEMMA UpsertKeeps ==
  ASSUME EpisodeInv, NEW p \in Procs, pc[p] = "write", row' = Upsert(p)
  PROVE  /\ turn[p] \in Turns /\ draft[p] \in Draft /\ turnOf[draft[p].id] = turn[p]
         /\ row' \in [Turns -> Row \cup {NoRow}]
         /\ \A t \in Turns \ {turn[p]} : row'[t] = row[t]
         /\ row'[turn[p]] \in Row
         /\ \/ row' = row
            \/ /\ row'[turn[p]].id = draft[p].id
               /\ row'[turn[p]].status = "system_generated"
               /\ row'[turn[p]].supersedes = draft[p].supersedes
               /\ \/ row[turn[p]] = NoRow
                  \/ /\ row[turn[p]].id = draft[p].id
                     /\ row[turn[p]].status = "system_generated"
<1>1. turn[p] \in Turns /\ draft[p] \in Draft /\ turnOf[draft[p].id] = turn[p]
  BY DEF EpisodeInv, StreamsOwn, TypeOK
<1>2. row \in [Turns -> Row \cup {NoRow}]
  BY DEF EpisodeInv, TypeOK
<1> DEFINE new == [id |-> draft[p].id, status |-> "system_generated",
                   supersedes |-> draft[p].supersedes]
<1>3. new \in Row
  BY <1>1 DEF Draft, Row, Status
<1>4. CASE \/ row[turn[p]] = NoRow
           \/ row[turn[p]].id = draft[p].id /\ row[turn[p]].status = "system_generated"
  <2>1. row' = [row EXCEPT ![turn[p]] = new]
    BY <1>4 DEF Upsert
  <2> QED
    BY <1>1, <1>2, <1>3, <1>4, <2>1
<1>5. CASE ~ (\/ row[turn[p]] = NoRow
              \/ row[turn[p]].id = draft[p].id /\ row[turn[p]].status = "system_generated")
  BY <1>1, <1>2, <1>5 DEF Upsert
<1> QED
  BY <1>4, <1>5

\* The rows after a write that landed or did not.
LEMMA WrittenRows ==
  ASSUME EpisodeInv, NEW p \in Procs, pc[p] = "write", row' \in {row, Upsert(p)},
         UNCHANGED <<removed, turnOf, draft, parked>>
  PROVE  row' \in [Turns -> Row \cup {NoRow}] /\ RowsOwn' /\ Onward /\ NothingNew
<1>1. CASE row' = row
  <2>1. Onward
    BY <1>1, LaterTransitive DEF EpisodeInv, TypeOK, Onward, Row
  <2> QED
    BY <1>1, <2>1 DEF EpisodeInv, TypeOK, RowsOwn, NothingNew
<1>2. CASE row' = Upsert(p)
  <2> DEFINE s == turn[p]
  <2>1. /\ s \in Turns /\ draft[p] \in Draft /\ turnOf[draft[p].id] = s
        /\ row' \in [Turns -> Row \cup {NoRow}]
        /\ \A t \in Turns \ {s} : row'[t] = row[t]
        /\ row'[s] \in Row
        /\ \/ row' = row
           \/ /\ row'[s].id = draft[p].id
              /\ row'[s].status = "system_generated"
              /\ row'[s].supersedes = draft[p].supersedes
              /\ \/ row[s] = NoRow
                 \/ row[s].id = draft[p].id /\ row[s].status = "system_generated"
    BY <1>2, UpsertKeeps
  <2>2. row'[s] # NoRow /\ draft[p] # NoDraft
    BY <2>1, Marks
  <2> HIDE DEF s
  <2>3. RowsOwn'
    BY <2>1 DEF EpisodeInv, RowsOwn
  <2>4. Onward
    BY <2>1, <2>2, LaterTransitive DEF EpisodeInv, TypeOK, Onward, Row
  <2>5. NothingNew
    BY <2>1, <2>2 DEF NothingNew, Has
  <2> QED
    BY <2>1, <2>3, <2>4, <2>5
<1> QED
  BY <1>1, <1>2

LEMMA WriteKeeps ==
  ASSUME EpisodeInv, NEW p \in Procs, Write(p)
  PROVE  EpisodeInv'
<1>1. /\ pc[p] = "write" /\ row' = Upsert(p)
      /\ answer' = [answer EXCEPT ![p] = IF Conflicts(p) THEN "conflict"
                                         ELSE row'[turn[p]].status]
      /\ pc' = [pc EXCEPT ![p] = "written"]
      /\ UNCHANGED <<removed, done, minted, turnOf, expired, faults, cache, parked,
                     turn, draft, replay, userPc, user>>
  BY DEF Write, userVars
<1>2. /\ turn[p] \in Turns /\ draft[p] \in Draft /\ turnOf[draft[p].id] = turn[p]
      /\ row'[turn[p]] \in Row
      /\ ~ Conflicts(p) => row'[turn[p]].id = draft[p].id
  <2>1. turn[p] \in Turns /\ row \in [Turns -> Row \cup {NoRow}]
    BY <1>1, UpsertKeeps DEF EpisodeInv, TypeOK
  <2> QED
    BY <1>1, <2>1, UpsertKeeps, Marks DEF Conflicts
<1>3. row' \in [Turns -> Row \cup {NoRow}] /\ RowsOwn' /\ Onward /\ NothingNew
  BY <1>1, WrittenRows
<1>4. /\ draft[p].id \in Episodes /\ draft[p] # NoDraft
      /\ row'[turn[p]].status \in Status /\ row'[turn[p]] # NoRow
  BY <1>2, Marks DEF Row, Draft
<1>5. TypeOK'
  BY <1>1, <1>3, <1>4 DEF EpisodeInv, TypeOK, Answer, StreamPc
<1>6. Minted' /\ StreamsOwn' /\ ParkedOwn' /\ UserKnown'
  BY <1>1, <1>4 DEF EpisodeInv, TypeOK, Minted, StreamsOwn, ParkedOwn, UserKnown
<1>7. AnswerKnown'
  BY <1>1, <1>4 DEF EpisodeInv, TypeOK, AnswerKnown
<1>8. \A e \in Episodes, s \in Status :
        Past(row, turnOf, removed, e, s) => Past(row', turnOf', removed', e, s)
  BY <1>3, <1>5, BehindStays DEF EpisodeInv
<1>9. Agreed' /\ Linked'
  BY <1>3, LinksStay DEF EpisodeInv
<1>10. CacheSeen'
  BY <1>1, <1>8 DEF EpisodeInv, TypeOK, CacheSeen, Behind
<1>11. AnswerSeen'
  <2>1. ASSUME NEW q \in Procs, answer'[q] \in Status, q # p
        PROVE  Past(row', turnOf', removed', draft'[q].id, answer'[q])
    <3>1. answer'[q] = answer[q] /\ answer[q] # None /\ draft'[q] = draft[q]
      BY <1>1, <2>1, Marks DEF EpisodeInv, TypeOK
    <3>2. draft[q] \in Draft
      BY <3>1 DEF EpisodeInv, TypeOK, AnswerKnown
    <3> QED
      BY <1>8, <2>1, <3>1, <3>2 DEF EpisodeInv, AnswerSeen, Behind, Draft
  <2>2. ASSUME answer'[p] \in Status
        PROVE  Past(row', turnOf', removed', draft'[p].id, answer'[p])
    <3>1. answer'[p] = row'[turn[p]].status /\ row'[turn[p]].id = draft[p].id
      BY <1>1, <1>2, <2>2 DEF EpisodeInv, TypeOK, Status
    <3>2. turnOf[draft[p].id] # None
      BY <1>2, Marks
    <3> QED
      BY <1>1, <1>2, <1>4, <3>1, <3>2, LaterTransitive DEF Past
  <2> QED
    BY <2>1, <2>2 DEF AnswerSeen, Behind
<1>12. UserSeen'
  BY <1>1, <1>8 DEF EpisodeInv, UserSeen, UserKnown, Behind, TypeOK
<1> QED
  BY <1>3, <1>5, <1>6, <1>7, <1>9, <1>10, <1>11, <1>12 DEF EpisodeInv

LEMMA WriteUnackedKeeps ==
  ASSUME EpisodeInv, NEW p \in Procs, WriteUnacked(p)
  PROVE  EpisodeInv'
<1>1. /\ pc[p] = "write" /\ row' \in {row, Upsert(p)}
      /\ faults' = faults \cup {"unacked"} /\ "unacked" \in Faults
      /\ answer' = [answer EXCEPT ![p] = "unavailable"]
      /\ pc' = [pc EXCEPT ![p] = "written"]
      /\ UNCHANGED <<removed, done, minted, turnOf, expired, cache, parked,
                     turn, draft, replay, userPc, user>>
  BY DEF WriteUnacked, MayStrike, userVars
<1>2. draft[p] # NoDraft
  BY <1>1 DEF EpisodeInv, StreamsOwn
<1>3. row' \in [Turns -> Row \cup {NoRow}] /\ RowsOwn' /\ Onward /\ NothingNew
  BY <1>1, WrittenRows
<1>4. TypeOK'
  BY <1>1, <1>3 DEF EpisodeInv, TypeOK, Answer, StreamPc
<1>5. Minted' /\ StreamsOwn' /\ ParkedOwn' /\ UserKnown'
  BY <1>1, <1>2 DEF EpisodeInv, TypeOK, Minted, StreamsOwn, ParkedOwn, UserKnown
<1>6. AnswerKnown'
  BY <1>1, <1>2 DEF EpisodeInv, TypeOK, AnswerKnown
<1>7. \A e \in Episodes, s \in Status :
        Past(row, turnOf, removed, e, s) => Past(row', turnOf', removed', e, s)
  BY <1>3, <1>4, BehindStays DEF EpisodeInv
<1>8. Agreed' /\ Linked'
  BY <1>3, LinksStay DEF EpisodeInv
<1>9. CacheSeen'
  BY <1>1, <1>7 DEF EpisodeInv, TypeOK, CacheSeen, Behind
<1>10. AnswerSeen'
  <2>1. ASSUME NEW q \in Procs, answer'[q] \in Status
        PROVE  Past(row', turnOf', removed', draft'[q].id, answer'[q])
    <3>1. q # p /\ answer'[q] = answer[q] /\ answer[q] # None /\ draft'[q] = draft[q]
      BY <1>1, <2>1, Marks DEF EpisodeInv, TypeOK, Status
    <3>2. draft[q] \in Draft
      BY <3>1 DEF EpisodeInv, TypeOK, AnswerKnown
    <3> QED
      BY <1>7, <2>1, <3>1, <3>2 DEF EpisodeInv, AnswerSeen, Behind, Draft
  <2> QED
    BY <2>1 DEF AnswerSeen, Behind
<1>11. UserSeen'
  BY <1>1, <1>7 DEF EpisodeInv, UserSeen, UserKnown, Behind, TypeOK
<1> QED
  BY <1>3, <1>4, <1>5, <1>6, <1>8, <1>9, <1>10, <1>11 DEF EpisodeInv

LEMMA LoadKeeps ==
  ASSUME EpisodeInv, NEW u \in Users, Load(u)
  PROVE  EpisodeInv'
<1> DEFINE e == user[u].id
<1>1. /\ userPc[u] = "load"
      /\ UNCHANGED <<row, done, minted, turnOf, expired, removed, faults, cache, parked,
                     pc, turn, draft, replay, answer>>
      /\ \/ /\ Stored(e) /\ userPc' = [userPc EXCEPT ![u] = "act"]
            /\ user' = [user EXCEPT ![u] = [user[u] EXCEPT !.status = row[turnOf[e]].status]]
         \/ /\ userPc' = [userPc EXCEPT ![u] = "idle"]
            /\ user' = [user EXCEPT ![u] = NoUser]
  BY DEF Load, EndRequest, storeVars, streamVars, EpisodeInv, TypeOK
<1>2. e \in Episodes /\ user[u].proc \in Procs /\ user[u].wish \in Wish /\ turnOf[e] \in Turns
  BY <1>1 DEF EpisodeInv, UserKnown, TypeOK
<1>3. Stored(e) => row[turnOf[e]].status \in Status
  <2>1. Stored(e) => row[turnOf[e]] \in Row
    BY <1>2, Marks DEF Stored, EpisodeInv, TypeOK
  <2> QED
    BY <2>1 DEF Row
<1> DEFINE seen == [user[u] EXCEPT !.status = row[turnOf[e]].status]
           UserRow == [proc : Procs \cup {None}, id : Episodes \cup {None},
                       wish : Wish \cup {None}, status : Status \cup {None}]
<1>4. /\ user \in [Users -> UserRow] /\ NoUser \in UserRow
      /\ Stored(e) => seen \in UserRow
      /\ seen.proc = user[u].proc /\ seen.id = e /\ seen.wish = user[u].wish
      /\ seen.status = row[turnOf[e]].status
  <2>1. user \in [Users -> UserRow] /\ NoUser \in UserRow
    BY DEF EpisodeInv, TypeOK, NoUser
  <2>2. seen.proc = user[u].proc /\ seen.id = e /\ seen.wish = user[u].wish
    BY <2>1
  <2>3. seen.status = row[turnOf[e]].status
    BY <2>1
  <2>4. Stored(e) => seen \in UserRow
    BY <1>3, <2>1
  <2> QED
    BY <2>1, <2>2, <2>3, <2>4
<1>5. TypeOK'
  <2>1. user' \in [Users -> UserRow] /\ userPc' \in [Users -> UserPc]
    <3> HIDE DEF UserRow, seen
    <3> QED
      BY <1>1, <1>4 DEF seen, EpisodeInv, TypeOK, UserPc
  <2> QED
    BY <1>1, <2>1 DEF EpisodeInv, TypeOK
<1>6. Minted' /\ StreamsOwn' /\ ParkedOwn' /\ RowsOwn' /\ AnswerKnown'
  BY <1>1 DEF EpisodeInv, Minted, StreamsOwn, ParkedOwn, RowsOwn, AnswerKnown
<1>7. Agreed' /\ Linked' /\ CacheSeen' /\ AnswerSeen'
  BY <1>1 DEF EpisodeInv, Agreed, Linked, Knows, CacheSeen, AnswerSeen, Behind
<1>8. ASSUME NEW v \in Users, v # u
      PROVE  user'[v] = user[v] /\ userPc'[v] = userPc[v]
  BY <1>1, <1>8 DEF EpisodeInv, TypeOK
<1>9. \/ userPc'[u] = "idle"
      \/ userPc'[u] = "act" /\ user'[u] = seen /\ Stored(e)
  BY <1>1 DEF EpisodeInv, TypeOK
<1>10. UserKnown'
  <2>1. ASSUME NEW v \in Users, userPc'[v] # "idle"
        PROVE  /\ user'[v].proc \in Procs /\ user'[v].id \in Episodes /\ user'[v].wish \in Wish
               /\ turnOf'[user'[v].id] # None
               /\ userPc'[v] # "load" => user'[v].status \in Status
    <3>1. CASE v = u
      BY <1>1, <1>2, <1>3, <1>4, <1>9, <2>1, <3>1, Marks
    <3>2. CASE v # u
      BY <1>1, <1>8, <2>1, <3>2 DEF EpisodeInv, UserKnown
    <3> QED
      BY <3>1, <3>2
  <2> QED
    BY <2>1 DEF UserKnown
<1>11. UserSeen'
  <2>1. Stored(e) => Past(row, turnOf, removed, e, row[turnOf[e]].status)
    BY <1>3, LaterTransitive DEF Stored, Past
  <2>2. userPc'[u] = "act" => Past(row', turnOf', removed', user'[u].id, user'[u].status)
    BY <1>1, <1>4, <1>9, <2>1
  <2>3. \A v \in Users \ {u} :
          /\ userPc'[v] = "act" => Behind(user[v].id, user[v].status)
          /\ userPc'[v] = "done" =>
               IF user[v].wish = "delete" THEN user[v].id \in removed
               ELSE user[v].wish \in Status /\ Behind(user[v].id, user[v].wish)
    BY <1>8 DEF EpisodeInv, UserSeen
  <2> QED
    BY <1>1, <1>8, <1>9, <2>2, <2>3 DEF UserSeen, Behind
<1> QED
  BY <1>5, <1>6, <1>7, <1>10, <1>11 DEF EpisodeInv

\* A status a request has read is cached, and others' requests are left alone.
LEMMA RequestKeeps ==
  ASSUME EpisodeInv, NEW u \in Users, userPc[u] = "act",
         cache' = Loaded(u),
         userPc' \in [Users -> UserPc],
         \A v \in Users \ {u} : user'[v] = user[v] /\ userPc'[v] = userPc[v],
         UNCHANGED <<turnOf, draft, answer, pc>>,
         \A e \in Episodes, s \in Status :
            Past(row, turnOf, removed, e, s) => Past(row', turnOf', removed', e, s),
         removed \subseteq removed'
  PROVE  /\ cache' \in [Procs -> [Episodes -> Status \cup {None}]]
         /\ CacheSeen' /\ AnswerSeen' /\ AnswerKnown'
         /\ (userPc'[u] = "idle" => UserKnown' /\ UserSeen')
         /\ (/\ userPc'[u] = "done" /\ user'[u] = user[u]
             /\ IF user[u].wish = "delete" THEN user[u].id \in removed'
                ELSE user[u].wish \in Status /\ Past(row', turnOf', removed', user[u].id, user[u].wish)
             => UserKnown' /\ UserSeen')
<1>1. /\ user[u].proc \in Procs /\ user[u].id \in Episodes /\ user[u].status \in Status
      /\ user[u].wish \in Wish /\ turnOf[user[u].id] # None
      /\ Past(row', turnOf', removed', user[u].id, user[u].status)
  BY DEF EpisodeInv, UserKnown, UserSeen, Behind
<1>2. cache \in [Procs -> [Episodes -> Status \cup {None}]]
  BY DEF EpisodeInv, TypeOK
<1>3. cache' \in [Procs -> [Episodes -> Status \cup {None}]]
  BY <1>1, <1>2 DEF Loaded
<1>4. CacheSeen'
  <2>1. ASSUME NEW q \in Procs, NEW e \in Episodes, cache'[q][e] # None
        PROVE  Past(row', turnOf', removed', e, cache'[q][e])
    <3>1. CASE q = user[u].proc /\ e = user[u].id
      <4>1. cache'[q][e] = user[u].status
        BY <1>1, <1>2, <3>1 DEF Loaded
      <4> QED
        BY <1>1, <3>1, <4>1
    <3>2. CASE ~ (q = user[u].proc /\ e = user[u].id)
      <4>1. cache'[q][e] = cache[q][e]
        BY <1>1, <1>2, <3>2 DEF Loaded
      <4>2. cache[q][e] \in Status
        BY <1>2, <2>1, <4>1
      <4> QED
        BY <2>1, <4>1, <4>2 DEF EpisodeInv, CacheSeen, Behind
    <3> QED
      BY <3>1, <3>2
  <2> QED
    BY <2>1 DEF CacheSeen, Behind
<1>5. AnswerKnown'
  BY DEF EpisodeInv, AnswerKnown
<1>6. AnswerSeen'
  <2>1. ASSUME NEW q \in Procs, answer[q] \in Status
        PROVE  Past(row', turnOf', removed', draft[q].id, answer[q])
    <3>1. draft[q] \in Draft
      BY <2>1, Marks DEF EpisodeInv, TypeOK, AnswerKnown
    <3> QED
      BY <2>1, <3>1 DEF EpisodeInv, AnswerSeen, Behind, Draft
  <2> QED
    BY <2>1 DEF AnswerSeen, Behind
<1>7. ASSUME NEW v \in Users \ {u}
      PROVE  /\ userPc'[v] # "idle" =>
                  /\ user'[v].proc \in Procs /\ user'[v].id \in Episodes
                  /\ user'[v].wish \in Wish /\ turnOf'[user'[v].id] # None
                  /\ userPc'[v] # "load" => user'[v].status \in Status
             /\ userPc'[v] = "act" =>
                  Past(row', turnOf', removed', user'[v].id, user'[v].status)
             /\ userPc'[v] = "done" =>
                  IF user'[v].wish = "delete" THEN user'[v].id \in removed'
                  ELSE /\ user'[v].wish \in Status
                       /\ Past(row', turnOf', removed', user'[v].id, user'[v].wish)
  BY <1>7 DEF EpisodeInv, UserKnown, UserSeen, Behind
<1>8. userPc'[u] = "idle" => UserKnown' /\ UserSeen'
  BY <1>7 DEF UserKnown, UserSeen, Behind
<1>9. /\ userPc'[u] = "done" /\ user'[u] = user[u]
      /\ IF user[u].wish = "delete" THEN user[u].id \in removed'
         ELSE user[u].wish \in Status /\ Past(row', turnOf', removed', user[u].id, user[u].wish)
      => UserKnown' /\ UserSeen'
  BY <1>1, <1>7 DEF UserKnown, UserSeen, Behind
<1> QED
  BY <1>3, <1>4, <1>5, <1>6, <1>8, <1>9

LEMMA TransitKeeps ==
  ASSUME EpisodeInv, NEW u \in Users, Transit(u)
  PROVE  EpisodeInv'
<1> DEFINE e == user[u].id
           x == turnOf[e]
           moved == [row[x] EXCEPT !.status = user[u].wish]
<1>1. /\ userPc[u] = "act" /\ user[u].wish \in Allowed[user[u].status]
      /\ cache' = Loaded(u)
      /\ UNCHANGED <<done, minted, turnOf, expired, removed, faults, parked,
                     pc, turn, draft, replay, answer>>
      /\ \/ /\ Stored(e) /\ row[x].status = user[u].status
            /\ row' = [row EXCEPT ![x] = moved]
            /\ userPc' = [userPc EXCEPT ![u] = "done"] /\ user' = user
         \/ /\ row' = row /\ userPc' = [userPc EXCEPT ![u] = "idle"]
            /\ user' = [user EXCEPT ![u] = NoUser]
  BY DEF Transit, TransitHits, Missed, EndRequest, streamVars
<1>2. /\ user[u].status \in Status /\ user[u].wish \in Status /\ e \in Episodes /\ x \in Turns
      /\ user[u].wish # "delete"
  <2>1. user[u].status \in Status /\ e \in Episodes /\ x \in Turns
    BY <1>1 DEF EpisodeInv, UserKnown, TypeOK
  <2>2. user[u].wish \in Status
    BY <1>1, <2>1, LaterTransitive
  <2> QED
    BY <2>1, <2>2 DEF Status
<1>3. row \in [Turns -> Row \cup {NoRow}]
  BY DEF EpisodeInv, TypeOK
<1>4. Stored(e) => /\ row[x] \in Row /\ moved \in Row /\ moved.id = e /\ row[x].id = e
                   /\ moved.supersedes = row[x].supersedes /\ moved.status = user[u].wish
  <2>1. Stored(e) => row[x] \in Row /\ row[x].id = e
    BY <1>2, <1>3, Marks DEF Stored
  <2> QED
    BY <1>2, <2>1 DEF Row
<1>5. \/ row' = row
      \/ /\ Stored(e) /\ row'[x] = moved /\ row[x].status = user[u].status
         /\ \A t \in Turns \ {x} : row'[t] = row[t]
  BY <1>1, <1>2, <1>3
<1> HIDE DEF moved
<1>6. row' \in [Turns -> Row \cup {NoRow}]
  BY <1>1, <1>2, <1>3, <1>4
<1>7. user' \in [Users -> [proc : Procs \cup {None}, id : Episodes \cup {None},
                           wish : Wish \cup {None}, status : Status \cup {None}]]
  <2>1. NoUser \in [proc : Procs \cup {None}, id : Episodes \cup {None},
                    wish : Wish \cup {None}, status : Status \cup {None}]
    BY DEF NoUser
  <2> QED
    BY <1>1, <2>1 DEF EpisodeInv, TypeOK
<1>8. userPc' \in [Users -> UserPc] /\ \A v \in Users \ {u} : user'[v] = user[v] /\ userPc'[v] = userPc[v]
  BY <1>1 DEF EpisodeInv, TypeOK, UserPc
<1>9. Onward
  <2>1. ASSUME NEW t \in Turns, row[t] # NoRow
        PROVE  row'[t] # NoRow /\ row'[t].id = row[t].id /\ row'[t].status \in Later(row[t].status)
    <3>1. row[t].status \in Status
      BY <1>3, <2>1 DEF Row
    <3>2. CASE row'[t] = row[t]
      BY <2>1, <3>1, <3>2, LaterTransitive
    <3>3. CASE t = x /\ Stored(e) /\ row'[x] = moved /\ row[x].status = user[u].status
      BY <1>1, <1>4, <3>3, Marks DEF Later
    <3> QED
      BY <1>5, <3>2, <3>3
  <2> QED
    BY <1>1, <2>1 DEF Onward
<1>10. NothingNew
  BY <1>1, <1>4, <1>5, Marks DEF NothingNew, Has
<1>11. cache' \in [Procs -> [Episodes -> Status \cup {None}]]
  BY <1>1, <1>2 DEF Loaded, EpisodeInv, TypeOK, UserKnown
<1>12. TypeOK'
  BY <1>1, <1>6, <1>7, <1>8, <1>11 DEF EpisodeInv, TypeOK
<1>13. Minted' /\ StreamsOwn' /\ ParkedOwn'
  BY <1>1 DEF EpisodeInv, Minted, StreamsOwn, ParkedOwn
<1>14. RowsOwn'
  BY <1>1, <1>4, <1>5, Marks DEF EpisodeInv, RowsOwn
<1>15. \A d \in Episodes, s \in Status :
         Past(row, turnOf, removed, d, s) => Past(row', turnOf', removed', d, s)
  BY <1>9, <1>12, BehindStays DEF EpisodeInv
<1>16. Agreed' /\ Linked'
  BY <1>9, <1>10, LinksStay DEF EpisodeInv
<1>17. \/ userPc'[u] = "idle"
       \/ /\ userPc'[u] = "done" /\ user'[u] = user[u]
          /\ Past(row', turnOf', removed', e, user[u].wish)
  <2>1. CASE userPc' = [userPc EXCEPT ![u] = "idle"]
    BY <2>1 DEF EpisodeInv, TypeOK
  <2>2. CASE /\ Stored(e) /\ row' = [row EXCEPT ![x] = moved]
             /\ userPc' = [userPc EXCEPT ![u] = "done"] /\ user' = user
    <3>1. userPc'[u] = "done" /\ row'[x] = moved /\ x # None
      BY <1>2, <1>3, <2>2, Marks DEF EpisodeInv, TypeOK
    <3> QED
      BY <1>1, <1>2, <1>4, <2>2, <3>1, LaterTransitive DEF Past
  <2> QED
    BY <1>1, <2>1, <2>2
<1>18. CacheSeen' /\ AnswerSeen' /\ AnswerKnown' /\ UserKnown' /\ UserSeen'
  BY <1>1, <1>2, <1>8, <1>15, <1>17, RequestKeeps
<1> QED
  BY <1>12, <1>13, <1>14, <1>16, <1>18 DEF EpisodeInv

LEMMA DeleteKeeps ==
  ASSUME EpisodeInv, NEW u \in Users, Delete(u)
  PROVE  EpisodeInv'
<1> DEFINE e == user[u].id
           x == turnOf[e]
<1>1. /\ userPc[u] = "act" /\ user[u].wish = "delete"
      /\ cache' = Loaded(u)
      /\ UNCHANGED <<done, minted, turnOf, expired, faults, parked,
                     pc, turn, draft, replay, answer>>
      /\ \/ /\ Stored(e) /\ row' = [row EXCEPT ![x] = NoRow] /\ removed' = removed \cup {e}
            /\ userPc' = [userPc EXCEPT ![u] = "done"] /\ user' = user
         \/ /\ row' = row /\ removed' = removed /\ userPc' = [userPc EXCEPT ![u] = "idle"]
            /\ user' = [user EXCEPT ![u] = NoUser]
  BY DEF Delete, EndRequest, streamVars
<1>2. e \in Episodes /\ x \in Turns /\ user[u].status \in Status /\ user[u].proc \in Procs
  BY <1>1 DEF EpisodeInv, UserKnown, TypeOK
<1>3. row \in [Turns -> Row \cup {NoRow}]
  BY DEF EpisodeInv, TypeOK
<1>4. /\ removed \subseteq removed' /\ removed' \subseteq Episodes
      /\ row' \in [Turns -> Row \cup {NoRow}]
      /\ \A t \in Turns : row'[t] = row[t] \/ (row'[t] = NoRow /\ row[t].id \in removed')
  BY <1>1, <1>2, <1>3 DEF Stored, EpisodeInv, TypeOK
<1>5. user' \in [Users -> [proc : Procs \cup {None}, id : Episodes \cup {None},
                           wish : Wish \cup {None}, status : Status \cup {None}]]
  <2>1. NoUser \in [proc : Procs \cup {None}, id : Episodes \cup {None},
                    wish : Wish \cup {None}, status : Status \cup {None}]
    BY DEF NoUser
  <2> QED
    BY <1>1, <2>1 DEF EpisodeInv, TypeOK
<1>6. userPc' \in [Users -> UserPc] /\ \A v \in Users \ {u} : user'[v] = user[v] /\ userPc'[v] = userPc[v]
  BY <1>1 DEF EpisodeInv, TypeOK, UserPc
<1>7. Onward
  <2>1. \A t \in Turns : row[t] # NoRow => row[t].status \in Status
    BY <1>3 DEF Row
  <2> QED
    BY <1>1, <1>4, <2>1, LaterTransitive DEF Onward
<1>8. NothingNew
  BY <1>1, <1>4 DEF NothingNew, Has
<1>9. cache' \in [Procs -> [Episodes -> Status \cup {None}]]
  BY <1>1, <1>2 DEF Loaded, EpisodeInv, TypeOK
<1>10. TypeOK'
  BY <1>1, <1>4, <1>5, <1>6, <1>9 DEF EpisodeInv, TypeOK
<1>11. Minted' /\ StreamsOwn' /\ ParkedOwn'
  BY <1>1 DEF EpisodeInv, Minted, StreamsOwn, ParkedOwn
<1>12. RowsOwn'
  BY <1>1, <1>4 DEF EpisodeInv, RowsOwn
<1>13. \A d \in Episodes, s \in Status :
         Past(row, turnOf, removed, d, s) => Past(row', turnOf', removed', d, s)
  BY <1>7, <1>10, BehindStays DEF EpisodeInv
<1>14. Agreed' /\ Linked'
  BY <1>7, <1>8, LinksStay DEF EpisodeInv
<1>15. \/ userPc'[u] = "idle"
       \/ userPc'[u] = "done" /\ user'[u] = user[u] /\ e \in removed'
  BY <1>1 DEF EpisodeInv, TypeOK
<1>16. CacheSeen' /\ AnswerSeen' /\ AnswerKnown' /\ UserKnown' /\ UserSeen'
  BY <1>1, <1>4, <1>6, <1>13, <1>15, RequestKeeps
<1> QED
  BY <1>10, <1>11, <1>12, <1>14, <1>16 DEF EpisodeInv

LEMMA RetryKeeps ==
  ASSUME EpisodeInv, NEW p \in Procs, NEW t \in Turns, Retry(p, t)
  PROVE  EpisodeInv'
<1> USE Marks DEF EpisodeInv, Retry, storeVars, streamVars, userVars
<1>1. TypeOK'
  BY DEF TypeOK, Answer, StreamPc, UserPc, Row, Draft, Wish, Status
<1>2. Minted'
  BY DEF Minted
<1>3. StreamsOwn'
  BY DEF TypeOK, StreamsOwn, ParkedOwn, Draft, Minted, NoDraft, Episodes
<1>4. ParkedOwn'
  BY DEF ParkedOwn
<1>5. RowsOwn'
  BY DEF RowsOwn
<1>6. AnswerKnown'
  BY DEF AnswerKnown
<1>7. UserKnown'
  BY DEF UserKnown
<1>8. Onward
  BY DEF Onward, Later
<1>9. NothingNew
  BY DEF NothingNew, Has
<1>10. \A e \in Episodes, s \in Status :
        Past(row, turnOf, removed, e, s) => Past(row', turnOf', removed', e, s)
  BY <1>1, <1>8, BehindStays
<1>11. Agreed' /\ Linked'
  BY <1>8, <1>9, LinksStay
<1>12. CacheSeen'
  BY <1>10, LaterTransitive DEF CacheSeen, Behind, TypeOK
<1>13. AnswerSeen'
  BY <1>10, LaterTransitive DEF AnswerSeen, AnswerKnown, Behind, TypeOK, StreamsOwn, Past, Draft, Row, Later, Status
<1>14. UserSeen'
  BY <1>10, LaterTransitive DEF UserSeen, UserKnown, Behind
<1> QED
  BY <1>1, <1>2, <1>3, <1>4, <1>5, <1>6, <1>7, <1>11, <1>12, <1>13, <1>14 DEF EpisodeInv

LEMMA SettleKeeps ==
  ASSUME EpisodeInv, NEW p \in Procs, Settle(p)
  PROVE  EpisodeInv'
<1> USE Marks DEF EpisodeInv, Settle, Announced, storeVars, streamVars, userVars
<1>1. TypeOK'
  BY DEF TypeOK, Answer, StreamPc, UserPc, Row, Draft, Wish, Status
<1>2. Minted'
  BY DEF Minted
<1>3. StreamsOwn'
  BY DEF StreamsOwn
<1>4. ParkedOwn'
  BY DEF ParkedOwn
<1>5. RowsOwn'
  BY DEF RowsOwn
<1>6. AnswerKnown'
  BY DEF AnswerKnown
<1>7. UserKnown'
  BY DEF UserKnown
<1>8. Onward
  BY DEF Onward, Later
<1>9. NothingNew
  BY DEF NothingNew, Has
<1>10. \A e \in Episodes, s \in Status :
        Past(row, turnOf, removed, e, s) => Past(row', turnOf', removed', e, s)
  BY <1>1, <1>8, BehindStays
<1>11. Agreed' /\ Linked'
  BY <1>8, <1>9, LinksStay
<1>12. CacheSeen'
  BY <1>10, LaterTransitive DEF CacheSeen, Behind, TypeOK, AnswerSeen, AnswerKnown, Draft
<1>13. AnswerSeen'
  BY <1>10, LaterTransitive DEF AnswerSeen, Behind, Status
<1>14. UserSeen'
  BY <1>10, LaterTransitive DEF UserSeen, UserKnown, Behind
<1> QED
  BY <1>1, <1>2, <1>3, <1>4, <1>5, <1>6, <1>7, <1>11, <1>12, <1>13, <1>14 DEF EpisodeInv

LEMMA ReplayedKeeps ==
  ASSUME EpisodeInv, NEW p \in Procs, Replayed(p)
  PROVE  EpisodeInv'
<1> USE Marks DEF EpisodeInv, Replayed, Announced, Leave, storeVars, streamVars, userVars
<1>1. TypeOK'
  BY DEF TypeOK, Answer, StreamPc, UserPc, Row, Draft, Wish, Status
<1>2. Minted'
  BY DEF Minted
<1>3. StreamsOwn'
  BY DEF TypeOK, StreamsOwn
<1>4. ParkedOwn'
  BY DEF ParkedOwn
<1>5. RowsOwn'
  BY DEF RowsOwn
<1>6. AnswerKnown'
  BY DEF TypeOK, AnswerKnown
<1>7. UserKnown'
  BY DEF UserKnown
<1>8. Onward
  BY DEF Onward, Later
<1>9. NothingNew
  BY DEF NothingNew, Has
<1>10. \A e \in Episodes, s \in Status :
        Past(row, turnOf, removed, e, s) => Past(row', turnOf', removed', e, s)
  BY <1>1, <1>8, BehindStays
<1>11. Agreed' /\ Linked'
  BY <1>8, <1>9, LinksStay
<1>12. CacheSeen'
  BY <1>10, LaterTransitive DEF CacheSeen, Behind, TypeOK, AnswerSeen, AnswerKnown, Draft
<1>13. AnswerSeen'
  BY <1>10, LaterTransitive DEF AnswerSeen, Behind, TypeOK, AnswerKnown, Draft, Status
<1>14. UserSeen'
  BY <1>10, LaterTransitive DEF UserSeen, UserKnown, Behind
<1> QED
  BY <1>1, <1>2, <1>3, <1>4, <1>5, <1>6, <1>7, <1>11, <1>12, <1>13, <1>14 DEF EpisodeInv

LEMMA FinishKeeps ==
  ASSUME EpisodeInv, NEW p \in Procs, Finish(p)
  PROVE  EpisodeInv'
<1> USE Marks DEF EpisodeInv, Finish, Leave, storeVars, streamVars, userVars
<1>1. TypeOK'
  BY LaterTransitive DEF TypeOK, Answer, StreamPc, UserPc, Row, Draft, Wish, Status, NoRow, NoDraft, Episodes, StreamsOwn, UserKnown, Allowed
<1>2. Minted'
  BY DEF Minted
<1>3. StreamsOwn'
  BY DEF TypeOK, StreamsOwn
<1>4. ParkedOwn'
  BY DEF TypeOK, ParkedOwn, StreamsOwn, Minted, Draft, Episodes
<1>5. RowsOwn'
  BY DEF RowsOwn
<1>6. AnswerKnown'
  BY DEF TypeOK, AnswerKnown
<1>7. UserKnown'
  BY DEF UserKnown
<1>8. Onward
  BY DEF Onward, Later
<1>9. NothingNew
  BY DEF NothingNew, Has
<1>10. \A e \in Episodes, s \in Status :
        Past(row, turnOf, removed, e, s) => Past(row', turnOf', removed', e, s)
  BY <1>1, <1>8, BehindStays
<1>11. Agreed' /\ Linked'
  BY <1>8, <1>9, LinksStay
<1>12. CacheSeen'
  BY <1>10, LaterTransitive DEF CacheSeen, Behind, TypeOK
<1>13. AnswerSeen'
  BY <1>10, LaterTransitive DEF AnswerSeen, Behind, TypeOK, AnswerKnown, Draft, Status
<1>14. UserSeen'
  BY <1>10, LaterTransitive DEF UserSeen, UserKnown, Behind
<1> QED
  BY <1>1, <1>2, <1>3, <1>4, <1>5, <1>6, <1>7, <1>11, <1>12, <1>13, <1>14 DEF EpisodeInv

LEMMA AskKeeps ==
  ASSUME EpisodeInv, NEW u \in Users, NEW p \in Procs, NEW e \in Episodes, NEW w \in Wish, Ask(u, p, e, w)
  PROVE  EpisodeInv'
<1> USE Marks DEF EpisodeInv, Ask, storeVars, streamVars, userVars
<1>1. TypeOK'
  BY DEF TypeOK, Answer, StreamPc, UserPc, Row, Draft, Wish, Status
<1>2. Minted'
  BY DEF Minted
<1>3. StreamsOwn'
  BY DEF StreamsOwn
<1>4. ParkedOwn'
  BY DEF ParkedOwn
<1>5. RowsOwn'
  BY DEF RowsOwn
<1>6. AnswerKnown'
  BY DEF AnswerKnown
<1>7. UserKnown'
  BY DEF TypeOK, UserKnown
<1>8. Onward
  BY DEF Onward, Later
<1>9. NothingNew
  BY DEF NothingNew, Has
<1>10. \A f \in Episodes, s \in Status :
        Past(row, turnOf, removed, f, s) => Past(row', turnOf', removed', f, s)
  BY <1>1, <1>8, BehindStays
<1>11. Agreed' /\ Linked'
  BY <1>8, <1>9, LinksStay
<1>12. CacheSeen'
  BY <1>10, LaterTransitive DEF CacheSeen, Behind, TypeOK
<1>13. AnswerSeen'
  BY <1>10, LaterTransitive DEF AnswerSeen, Behind, Status
<1>14. UserSeen'
  BY <1>10, LaterTransitive DEF UserSeen, UserKnown, Behind, TypeOK, CacheSeen
<1> QED
  BY <1>1, <1>2, <1>3, <1>4, <1>5, <1>6, <1>7, <1>11, <1>12, <1>13, <1>14 DEF EpisodeInv

LEMMA RefuseKeeps ==
  ASSUME EpisodeInv, NEW u \in Users, Refuse(u)
  PROVE  EpisodeInv'
<1> USE Marks DEF EpisodeInv, Refuse, Loaded, EndRequest, NoUser, storeVars, streamVars, userVars
<1>1. TypeOK'
  BY DEF TypeOK, Answer, StreamPc, UserPc, Row, Draft, Wish, Status
<1>2. Minted'
  BY DEF Minted
<1>3. StreamsOwn'
  BY DEF StreamsOwn
<1>4. ParkedOwn'
  BY DEF ParkedOwn
<1>5. RowsOwn'
  BY DEF RowsOwn
<1>6. AnswerKnown'
  BY DEF AnswerKnown
<1>7. UserKnown'
  BY DEF TypeOK, UserKnown
<1>8. Onward
  BY DEF Onward, Later
<1>9. NothingNew
  BY DEF NothingNew, Has
<1>10. \A e \in Episodes, s \in Status :
        Past(row, turnOf, removed, e, s) => Past(row', turnOf', removed', e, s)
  BY <1>1, <1>8, BehindStays
<1>11. Agreed' /\ Linked'
  BY <1>8, <1>9, LinksStay
<1>12. CacheSeen'
  BY <1>10, LaterTransitive DEF CacheSeen, Behind, TypeOK, UserSeen, UserKnown, UserPc, Status
<1>13. AnswerSeen'
  BY <1>10, LaterTransitive DEF AnswerSeen, Behind, Status
<1>14. UserSeen'
  BY <1>10, LaterTransitive DEF UserSeen, UserKnown, Behind, TypeOK
<1> QED
  BY <1>1, <1>2, <1>3, <1>4, <1>5, <1>6, <1>7, <1>11, <1>12, <1>13, <1>14 DEF EpisodeInv

LEMMA ConcludeKeeps ==
  ASSUME EpisodeInv, NEW u \in Users, Conclude(u)
  PROVE  EpisodeInv'
<1> USE Marks DEF EpisodeInv, Conclude, Outcome, EndRequest, NoUser, storeVars, streamVars, userVars
<1>1. TypeOK'
  BY DEF TypeOK, Answer, StreamPc, UserPc, Row, Draft, Wish, Status
<1>2. Minted'
  BY DEF Minted
<1>3. StreamsOwn'
  BY DEF StreamsOwn
<1>4. ParkedOwn'
  BY DEF ParkedOwn
<1>5. RowsOwn'
  BY DEF RowsOwn
<1>6. AnswerKnown'
  BY DEF AnswerKnown
<1>7. UserKnown'
  BY DEF TypeOK, UserKnown
<1>8. Onward
  BY DEF Onward, Later
<1>9. NothingNew
  BY DEF NothingNew, Has
<1>10. \A e \in Episodes, s \in Status :
        Past(row, turnOf, removed, e, s) => Past(row', turnOf', removed', e, s)
  BY <1>1, <1>8, BehindStays
<1>11. Agreed' /\ Linked'
  BY <1>8, <1>9, LinksStay
<1>12. CacheSeen'
  BY <1>10, LaterTransitive DEF CacheSeen, Behind, TypeOK, UserSeen, UserKnown, UserPc, Status
<1>13. AnswerSeen'
  BY <1>10, LaterTransitive DEF AnswerSeen, Behind, Status
<1>14. UserSeen'
  BY <1>10, LaterTransitive DEF UserSeen, UserKnown, Behind, TypeOK
<1> QED
  BY <1>1, <1>2, <1>3, <1>4, <1>5, <1>6, <1>7, <1>11, <1>12, <1>13, <1>14 DEF EpisodeInv

LEMMA ExpireKeeps ==
  ASSUME EpisodeInv, NEW e \in Episodes, Expire(e)
  PROVE  EpisodeInv'
<1> USE Marks DEF EpisodeInv, Expire, MayStrike, storeVars, streamVars, userVars
<1>1. TypeOK'
  BY DEF TypeOK, Answer, StreamPc, UserPc, Row, Draft, Wish, Status
<1>2. Minted'
  BY DEF Minted
<1>3. StreamsOwn'
  BY DEF StreamsOwn
<1>4. ParkedOwn'
  BY DEF ParkedOwn
<1>5. RowsOwn'
  BY DEF RowsOwn
<1>6. AnswerKnown'
  BY DEF AnswerKnown
<1>7. UserKnown'
  BY DEF UserKnown
<1>8. Onward
  BY DEF Onward, Later
<1>9. NothingNew
  BY DEF NothingNew, Has
<1>10. \A f \in Episodes, s \in Status :
        Past(row, turnOf, removed, f, s) => Past(row', turnOf', removed', f, s)
  BY <1>1, <1>8, BehindStays
<1>11. Agreed' /\ Linked'
  BY <1>8, <1>9, LinksStay
<1>12. CacheSeen'
  BY <1>10, LaterTransitive DEF CacheSeen, Behind, TypeOK
<1>13. AnswerSeen'
  BY <1>10, LaterTransitive DEF AnswerSeen, Behind, Status
<1>14. UserSeen'
  BY <1>10, LaterTransitive DEF UserSeen, UserKnown, Behind
<1> QED
  BY <1>1, <1>2, <1>3, <1>4, <1>5, <1>6, <1>7, <1>11, <1>12, <1>13, <1>14 DEF EpisodeInv

LEMMA PurgeKeeps ==
  ASSUME EpisodeInv, Purge
  PROVE  EpisodeInv'
<1> USE Marks DEF EpisodeInv, Purge, storeVars, streamVars, userVars
<1>1. TypeOK'
  BY LaterTransitive DEF TypeOK, Answer, StreamPc, UserPc, Row, Draft, Wish, Status, NoRow, NoDraft, Episodes, StreamsOwn, UserKnown, Allowed
<1>2. Minted'
  BY DEF Minted
<1>3. StreamsOwn'
  BY DEF StreamsOwn
<1>4. ParkedOwn'
  BY DEF ParkedOwn
<1>5. RowsOwn'
  BY DEF RowsOwn
<1>6. AnswerKnown'
  BY DEF AnswerKnown
<1>7. UserKnown'
  BY DEF UserKnown
<1>8. Onward
  BY DEF Onward, Later
<1>9. NothingNew
  BY DEF NothingNew, Has
<1>10. \A e \in Episodes, s \in Status :
        Past(row, turnOf, removed, e, s) => Past(row', turnOf', removed', e, s)
  BY <1>1, <1>8, BehindStays
<1>11. Agreed' /\ Linked'
  BY <1>8, <1>9, LinksStay
<1>12. CacheSeen'
  BY <1>10, LaterTransitive DEF CacheSeen, Behind, TypeOK, AnswerSeen, AnswerKnown, Draft
<1>13. AnswerSeen'
  BY <1>10, LaterTransitive DEF AnswerSeen, AnswerKnown, Behind, TypeOK, StreamsOwn, Past, Draft, Row, Later, Status
<1>14. UserSeen'
  BY <1>10, LaterTransitive DEF UserSeen, UserKnown, Behind
<1> QED
  BY <1>1, <1>2, <1>3, <1>4, <1>5, <1>6, <1>7, <1>11, <1>12, <1>13, <1>14 DEF EpisodeInv

LEMMA AbandonKeeps ==
  ASSUME EpisodeInv, NEW p \in Procs, Abandon(p)
  PROVE  EpisodeInv'
<1> USE Marks DEF EpisodeInv, Abandon, MayStrike, Leave, storeVars, streamVars, userVars
<1>1. TypeOK'
  BY DEF TypeOK, Answer, StreamPc, UserPc, Row, Draft, Wish, Status
<1>2. Minted'
  BY DEF Minted
<1>3. StreamsOwn'
  BY DEF TypeOK, StreamsOwn
<1>4. ParkedOwn'
  BY DEF ParkedOwn
<1>5. RowsOwn'
  BY DEF RowsOwn
<1>6. AnswerKnown'
  BY DEF TypeOK, AnswerKnown
<1>7. UserKnown'
  BY DEF UserKnown
<1>8. Onward
  BY DEF Onward, Later
<1>9. NothingNew
  BY DEF NothingNew, Has
<1>10. \A e \in Episodes, s \in Status :
        Past(row, turnOf, removed, e, s) => Past(row', turnOf', removed', e, s)
  BY <1>1, <1>8, BehindStays
<1>11. Agreed' /\ Linked'
  BY <1>8, <1>9, LinksStay
<1>12. CacheSeen'
  BY <1>10, LaterTransitive DEF CacheSeen, Behind, TypeOK
<1>13. AnswerSeen'
  BY <1>10, LaterTransitive DEF AnswerSeen, Behind, TypeOK, AnswerKnown, Draft, Status
<1>14. UserSeen'
  BY <1>10, LaterTransitive DEF UserSeen, UserKnown, Behind
<1> QED
  BY <1>1, <1>2, <1>3, <1>4, <1>5, <1>6, <1>7, <1>11, <1>12, <1>13, <1>14 DEF EpisodeInv

LEMMA RestartKeeps ==
  ASSUME EpisodeInv, NEW p \in Procs, Restart(p)
  PROVE  EpisodeInv'
<1> USE Marks DEF EpisodeInv, Restart, MayStrike, Leave, NoUser, storeVars, streamVars, userVars
<1>1. TypeOK'
  BY DEF TypeOK, Answer, StreamPc, UserPc, Row, Draft, Wish, Status
<1>2. Minted'
  BY DEF Minted
<1>3. StreamsOwn'
  BY DEF TypeOK, StreamsOwn
<1>4. ParkedOwn'
  BY DEF ParkedOwn
<1>5. RowsOwn'
  BY DEF RowsOwn
<1>6. AnswerKnown'
  BY DEF TypeOK, AnswerKnown
<1>7. UserKnown'
  BY DEF UserKnown
<1>8. Onward
  BY DEF Onward, Later
<1>9. NothingNew
  BY DEF NothingNew, Has
<1>10. \A e \in Episodes, s \in Status :
        Past(row, turnOf, removed, e, s) => Past(row', turnOf', removed', e, s)
  BY <1>1, <1>8, BehindStays
<1>11. Agreed' /\ Linked'
  BY <1>8, <1>9, LinksStay
<1>12. CacheSeen'
  BY <1>10, LaterTransitive DEF CacheSeen, Behind, TypeOK
<1>13. AnswerSeen'
  BY <1>10, LaterTransitive DEF AnswerSeen, Behind, TypeOK, AnswerKnown, Draft, Status
<1>14. UserSeen'
  BY <1>10, LaterTransitive DEF UserSeen, UserKnown, Behind
<1> QED
  BY <1>1, <1>2, <1>3, <1>4, <1>5, <1>6, <1>7, <1>11, <1>12, <1>13, <1>14 DEF EpisodeInv

-----------------------------------------------------------------------------
LEMMA InitHolds == Init => EpisodeInv
<1> SUFFICES ASSUME Init PROVE EpisodeInv
  OBVIOUS
<1>1. TypeOK
  <2>1. NoUser \in [proc : Procs \cup {None}, id : Episodes \cup {None},
                    wish : Wish \cup {None}, status : Status \cup {None}]
    BY DEF NoUser
  <2> QED
    BY <2>1, ConstantsAssumption DEF Init, TypeOK, StreamPc, UserPc, Answer
<1>2. Minted /\ StreamsOwn /\ ParkedOwn /\ RowsOwn
  BY Marks DEF Init, Minted, StreamsOwn, ParkedOwn, RowsOwn, Episodes
<1>3. Agreed /\ Linked
  BY DEF Init, Agreed, Linked, Knows, Has
<1>4. CacheSeen /\ AnswerKnown /\ AnswerSeen /\ UserKnown /\ UserSeen
  BY Marks DEF Init, CacheSeen, AnswerKnown, AnswerSeen, UserKnown, UserSeen
<1> QED
  BY <1>1, <1>2, <1>3, <1>4 DEF EpisodeInv

LEMMA StutterKeeps ==
  ASSUME EpisodeInv, UNCHANGED vars
  PROVE  EpisodeInv'
  BY DEF EpisodeInv, vars, storeVars, streamVars, userVars, TypeOK, Minted, StreamsOwn,
         ParkedOwn, RowsOwn, Agreed, Linked, Knows, CacheSeen, AnswerKnown, AnswerSeen,
         UserKnown, UserSeen, Behind

\* The invariant is inductive.
THEOREM Invariance == Spec => []EpisodeInv
<1>1. Init => EpisodeInv
  BY InitHolds
<1>2. EpisodeInv /\ [Next]_vars => EpisodeInv'
  <2> SUFFICES ASSUME EpisodeInv, [Next]_vars
               PROVE  EpisodeInv'
    OBVIOUS
  <2>1. CASE UNCHANGED vars
    BY <2>1, StutterKeeps
  <2>2. ASSUME NEW p \in Procs, Stream(p) \/ Abandon(p) \/ Restart(p)
        PROVE  EpisodeInv'
    BY <2>2, ProposeKeeps, RetryKeeps, WriteKeeps, WriteUnackedKeeps, SettleKeeps,
       ReplayedKeeps, FinishKeeps, AbandonKeeps, RestartKeeps DEF Stream
  <2>3. ASSUME NEW u \in Users, Request(u)
        PROVE  EpisodeInv'
    BY <2>3, AskKeeps, LoadKeeps, RefuseKeeps, TransitKeeps, DeleteKeeps, ConcludeKeeps
       DEF Request
  <2>4. ASSUME NEW e \in Episodes, Expire(e)
        PROVE  EpisodeInv'
    BY <2>4, ExpireKeeps
  <2>5. CASE Purge
    BY <2>5, PurgeKeeps
  <2> QED
    BY <2>1, <2>2, <2>3, <2>4, <2>5 DEF Next
<1> QED
  BY <1>1, <1>2, PTL DEF Spec

\* Every reachable state is well typed: an episode minted, drafted or parked
\* has an identity within those given out, and no row has half a record.
THEOREM TypeCorrect == Spec => []TypeOK
<1>1. EpisodeInv => TypeOK
  BY DEF EpisodeInv
<1> QED
  BY <1>1, Invariance, PTL

\* What a process has cached of an episode is what it is or once was.
THEOREM CacheCorrect == Spec => []CacheBehind
<1>1. EpisodeInv => CacheBehind
  BY DEF EpisodeInv, CacheSeen, Behind, Past, CacheBehind
<1> QED
  BY <1>1, Invariance, PTL

\* Whatever a query finds, something current remains: what the youngest
\* episode supersedes is older, so nothing in the result supersedes the youngest.
THEOREM CurrentCorrect == Spec => []CurrentRemains
<1>1. EpisodeInv => CurrentRemains
  <2> SUFFICES ASSUME EpisodeInv, NEW found \in Findings, found # {}
               PROVE  Retrieved(found) # {}
    BY DEF CurrentRemains
  <2> DEFINE Ids == {r.id : r \in found}
  <2>1. \A r \in found : \E t \in Turns : row[t] # NoRow /\ r = row[t] /\ r \in Row
    BY DEF Findings, Eligible, EpisodeInv, TypeOK
  <2>2. Ids \subseteq 1..MaxEpisodes /\ Ids # {} /\ MaxEpisodes \in Nat
    BY <2>1, ConstantsAssumption DEF Row, Episodes
  <2>3. PICK m \in Ids : \A k \in Ids : k <= m
    <3> HIDE DEF Ids
    <3> QED
      BY <2>2, Largest
  <2>4. PICK r \in found : r.id = m
    BY <2>3
  <2>5. ASSUME NEW s \in found
        PROVE  s.supersedes # m
    <3>1. PICK t \in Turns : row[t] # NoRow /\ s = row[t] /\ s \in Row
      BY <2>1
    <3>2. s.id \in Episodes /\ s.supersedes \in Links /\ s.id \in Ids
      BY <3>1 DEF Row, Links
    <3>3. s.supersedes = None \/ s.supersedes < s.id
      BY <3>1, <3>2 DEF EpisodeInv, Linked, Knows, Has
    <3>4. s.id <= m /\ s.id \in Nat /\ m \in Nat /\ m # None
      BY <2>2, <2>3, <3>2, Marks DEF Episodes
    <3> QED
      BY <3>2, <3>3, <3>4, Marks DEF Links, Episodes
  <2> QED
    BY <2>4, <2>5 DEF Retrieved
<1> QED
  BY <1>1, Invariance, PTL

\* A row appears undecided, keeps its identity and what it supersedes, and its
\* status moves only along the lifecycle, under whatever writes, retries,
\* decisions and restarts.
THEOREM ForwardCorrect == Spec => EpisodesMoveForward
<1> DEFINE Forward == \A t \in Turns : MovesForward(row[t], row'[t])
<1>1. EpisodeInv /\ row' = row => Forward
  BY LaterTransitive DEF EpisodeInv, TypeOK, MovesForward, Row
<1>2. ASSUME EpisodeInv, NEW p \in Procs, pc[p] = "write", row' = Upsert(p)
      PROVE  Forward
  <2> DEFINE s == turn[p]
  <2>1. /\ s \in Turns /\ draft[p] \in Draft
        /\ \A t \in Turns \ {s} : row'[t] = row[t]
        /\ row'[s] \in Row
        /\ \/ row' = row
           \/ /\ row'[s].id = draft[p].id
              /\ row'[s].status = "system_generated"
              /\ row'[s].supersedes = draft[p].supersedes
              /\ \/ row[s] = NoRow
                 \/ row[s].id = draft[p].id /\ row[s].status = "system_generated"
    BY <1>2, UpsertKeeps
  <2>2. CASE row' = row
    BY <1>1, <1>2, <2>2
  <2>3. CASE row' # row
    <3>1. MovesForward(row[s], row'[s])
      <4>1. CASE row[s] = NoRow
        BY <2>1, <2>3, <4>1 DEF MovesForward
      <4>2. CASE row[s] # NoRow
        <5>1. row[s].id = draft[p].id /\ row[s].status = "system_generated" /\ row[s] \in Row
          BY <1>2, <2>1, <2>3, <4>2 DEF EpisodeInv, TypeOK
        <5>2. draft[p] # NoDraft /\ draft[p].id \in Episodes
              /\ draft[p].supersedes \in Links /\ row[s].supersedes \in Links
          BY <2>1, <5>1, Marks DEF Draft, Row, Links
        <5>3. Knows(draft[p].id, draft[p].supersedes) /\ Knows(draft[p].id, row[s].supersedes)
          BY <2>1, <4>2, <5>1, <5>2 DEF Knows, Has
        <5>4. draft[p].supersedes = row[s].supersedes
          BY <1>2, <5>2, <5>3 DEF EpisodeInv, Agreed
        <5> QED
          BY <2>1, <2>3, <4>2, <5>1, <5>4, LaterTransitive DEF MovesForward, Row
      <4> QED
        BY <4>1, <4>2
    <3>2. ASSUME NEW t \in Turns, t # s
          PROVE  MovesForward(row[t], row'[t])
      BY <1>2, <2>1, <3>2, LaterTransitive DEF EpisodeInv, TypeOK, MovesForward, Row
    <3> QED
      BY <3>1, <3>2
  <2> QED
    BY <2>2, <2>3
<1>3. ASSUME EpisodeInv, NEW u \in Users, Transit(u)
      PROVE  Forward
  <2> DEFINE x == turnOf[user[u].id]
             moved == [row[x] EXCEPT !.status = user[u].wish]
  <2>1. /\ user[u].status \in Status /\ x \in Turns
        /\ user[u].wish \in Later(user[u].status)
        /\ \/ row' = row
           \/ /\ Stored(user[u].id) /\ row[x].status = user[u].status
              /\ row' = [row EXCEPT ![x] = moved]
    BY <1>3 DEF Transit, TransitHits, Later, EpisodeInv, UserKnown, TypeOK
  <2>2. Stored(user[u].id) => row[x] \in Row
    <3>1. user[u].id \in Episodes
      BY <1>3 DEF Transit, EpisodeInv, UserKnown
    <3> QED
      BY <1>3, <2>1, <3>1, Marks DEF Stored, EpisodeInv, TypeOK
  <2>3. CASE row' # row
    <3>1. /\ row[x] \in Row /\ row'[x] = moved /\ \A t \in Turns \ {x} : row'[t] = row[t]
      BY <1>3, <2>1, <2>2, <2>3 DEF EpisodeInv, TypeOK
    <3>2. /\ moved.id = row[x].id /\ moved.supersedes = row[x].supersedes
          /\ moved.status = user[u].wish
      BY <3>1 DEF Row
    <3> HIDE DEF moved
    <3>3. MovesForward(row[x], row'[x])
      BY <2>1, <2>3, <3>1, <3>2, Marks DEF MovesForward
    <3>4. \A t \in Turns \ {x} : MovesForward(row[t], row'[t])
      BY <1>3, <3>1, LaterTransitive DEF EpisodeInv, TypeOK, MovesForward, Row
    <3> QED
      BY <3>3, <3>4
  <2> QED
    BY <1>1, <1>3, <2>3
<1>4. ASSUME EpisodeInv, NEW u \in Users, Delete(u)
      PROVE  Forward
  <2>1. \A t \in Turns : row'[t] = row[t] \/ row'[t] = NoRow
    BY <1>4 DEF Delete, EpisodeInv, TypeOK
  <2> QED
    BY <1>4, <2>1, LaterTransitive DEF EpisodeInv, TypeOK, MovesForward, Row
<1>5. ASSUME EpisodeInv, Purge
      PROVE  Forward
  <2>1. \A t \in Turns : row'[t] = row[t] \/ row'[t] = NoRow
    BY <1>5 DEF Purge
  <2> QED
    BY <1>5, <2>1, LaterTransitive DEF EpisodeInv, TypeOK, MovesForward, Row
<1>6. EpisodeInv /\ [Next]_vars => [Forward]_vars
  <2> SUFFICES ASSUME EpisodeInv, Next
               PROVE  Forward
    OBVIOUS
  <2> HIDE DEF Forward
  <2>1. ASSUME NEW p \in Procs, Stream(p) \/ Abandon(p) \/ Restart(p)
        PROVE  Forward
    <3>1. row' = row \/ (pc[p] = "write" /\ row' = Upsert(p))
      BY <2>1 DEF Stream, Propose, Retry, Write, WriteUnacked, Settle, Replayed, Finish,
                  Abandon, Restart, storeVars
    <3> QED
      BY <1>1, <1>2, <3>1
  <2>2. ASSUME NEW u \in Users, Request(u)
        PROVE  Forward
    <3>1. row' = row \/ Transit(u) \/ Delete(u)
      BY <2>2 DEF Request, Ask, Load, Refuse, Conclude, storeVars
    <3> QED
      BY <1>1, <1>3, <1>4, <3>1
  <2>3. ASSUME NEW e \in Episodes, Expire(e)
        PROVE  Forward
    BY <1>1, <2>3 DEF Expire
  <2>4. CASE Purge
    BY <1>5, <2>4
  <2> QED
    BY <2>1, <2>2, <2>3, <2>4 DEF Next
<1> QED
  BY <1>6, Invariance, PTL DEF Spec, EpisodesMoveForward

=============================================================================
