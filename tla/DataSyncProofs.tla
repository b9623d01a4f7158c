--------------------------- MODULE DataSyncProofs ---------------------------
(* Proofs about DataSync, for every number of policies, refreshers and     *)
(* revisions.                                                              *)
EXTENDS DataSync, TLAPS

\* A refresher holds due policies only while documents exist for them.
JobsHold ==
    \A i \in Refreshers, k \in Policies :
        job[i].found[k] # NoPolicy => docs[k] # NoPolicy

\* What the sync still has to write is in the clone.
UpsertsCloned == sync.pc = "write" => \A k \in sync.todo : sync.repo[k] # NoPolicy

\* The inductive invariant.
DataSyncInv == DataSyncTypeOK /\ JobsHold /\ UpsertsCloned /\ FetchedLockCurrent

LEMMA IdleTypes == SyncIdle \in SyncState /\ JobIdle \in JobState
  BY DEF SyncIdle, JobIdle, SyncState, JobState, Nothing

\* Data of a revision are data, and no document is NoPolicy.
LEMMA Values ==
    /\ \A v \in Revisions : DataOf[v] \in Data /\ nextDataRefreshTime(v) \in Times
    /\ Fetched \subseteq Data
    /\ \A d \in Document : d # NoPolicy
  BY DataSyncAssumption DEF Data, nextDataRefreshTime, Times

\* Initial states satisfy the invariant.
LEMMA InitInv == Init => DataSyncInv
  BY IdleTypes DEF Init, DataSyncInv, DataSyncTypeOK, JobsHold, UpsertsCloned,
     FetchedLockCurrent, HasFetched, SyncIdle, JobIdle, Nothing, Stored

\* The steps of the sync process keep the invariant.
LEMMA SyncInv == ASSUME DataSyncInv, SyncStep \/ AbortSync PROVE DataSyncInv'
<1> USE DEF DataSyncInv
<1>t. sync \in SyncState /\ docs \in [Policies -> Stored]
  BY DEF DataSyncTypeOK
<1>1. CASE EndSync \/ AbortSync
  <2>1. sync' = SyncIdle /\ UNCHANGED <<git, docs, job, faulty>>
    BY <1>1 DEF EndSync, AbortSync
  <2>2. DataSyncTypeOK' /\ JobsHold'
    BY <2>1, IdleTypes DEF DataSyncTypeOK, JobsHold
  <2>3. UpsertsCloned' /\ FetchedLockCurrent'
    BY <2>1 DEF UpsertsCloned, FetchedLockCurrent, HasFetched, SyncIdle
  <2> QED
    BY <2>2, <2>3
<1>2. CASE Clone
  <2>1. sync' \in SyncState
    BY <1>2, IdleTypes DEF Clone, SyncState, DataSyncTypeOK
  <2> QED
    BY <1>2, <2>1 DEF Clone, DataSyncTypeOK, JobsHold, UpsertsCloned,
       FetchedLockCurrent, HasFetched, SyncIdle
<1>3. ASSUME NEW k \in Policies, FetchPolicy(k) PROVE DataSyncInv'
  <2> DEFINE c == IF docs[k] = NoPolicy THEN NoPolicy
                  ELSE [locked |-> docs[k].locked, rev |-> docs[k].rev,
                        data |-> docs[k].data, named |-> docs[k].named]
  <2>1. c \in Current \cup {NoPolicy} /\ Lock(c) = Lock(docs[k])
    <3>1. CASE docs[k] = NoPolicy
      BY <3>1
    <3>2. CASE docs[k] # NoPolicy
      <4>1. docs[k] \in Document
        BY <1>t, <3>2 DEF Stored
      <4>2. c = [locked |-> docs[k].locked, rev |-> docs[k].rev,
                 data |-> docs[k].data, named |-> docs[k].named]
        BY <3>2
      <4>3. c \in Current /\ c.locked = docs[k].locked
        BY <4>1, <4>2 DEF Document, Current
      <4>4. c # NoPolicy
        BY <4>3, DataSyncAssumption
      <4> QED
        BY <3>2, <4>3, <4>4 DEF Lock
    <3> QED
      BY <3>1, <3>2
  <2>2. sync' = [sync EXCEPT !.curr[k] = c, !.todo = @ \ {k}, !.relocked = @ \ {k}]
    BY <1>3 DEF FetchPolicy
  <2>3. UNCHANGED <<git, docs, job, faulty>> /\ sync.pc = "fetch"
    BY <1>3 DEF FetchPolicy
  <2> HIDE DEF c
  <2>4. sync' \in SyncState
    BY <1>t, <2>1, <2>2 DEF SyncState
  <2>5. FetchedLockCurrent'
    BY <1>t, <2>1, <2>2, <2>3 DEF FetchedLockCurrent, HasFetched, SyncState
  <2> QED
    BY <1>t, <2>2, <2>3, <2>4, <2>5 DEF DataSyncTypeOK, JobsHold, UpsertsCloned, SyncState
<1>4. CASE Compare
  <2> DEFINE f == compare(sync.curr, sync.repo)
  <2>1. f \subseteq Policies /\ \A k \in f : sync.repo[k] # NoPolicy
    BY DEF compare
  <2>2. sync' = [pc |-> "write", todo |-> f, repo |-> Only(f, sync.repo),
                 curr |-> Only(f, sync.curr), relocked |-> sync.relocked \cap f]
    BY <1>4 DEF Compare
  <2>3. UNCHANGED <<git, docs, job, faulty>> /\ sync.pc = "fetch" /\ sync.todo = {}
    BY <1>4 DEF Compare
  <2> HIDE DEF f
  <2>4. sync' \in SyncState
    BY <1>t, <2>1, <2>2 DEF SyncState, Only
  <2>5. FetchedLockCurrent'
    BY <1>t, <2>1, <2>2, <2>3 DEF FetchedLockCurrent, HasFetched, Only
  <2>6. UpsertsCloned'
    BY <2>1, <2>2 DEF UpsertsCloned, Only
  <2> QED
    BY <2>3, <2>4, <2>5, <2>6 DEF DataSyncTypeOK, JobsHold
<1>5. ASSUME NEW k \in Policies, Upsert(k) PROVE DataSyncInv'
  <2> DEFINE v == sync.repo[k]
             l == sync.curr[k] # NoPolicy /\ sync.curr[k].locked
             new == [locked |-> l, rev |-> v, data |-> DataOf[v], named |-> TRUE,
                     next |-> nextDataRefreshTime(v)]
  <2>1. v \in Revisions
    BY <1>5, <1>t DEF Upsert, UpsertsCloned, SyncState
  <2>2. l \in BOOLEAN
    OBVIOUS
  <2>3. new \in Document /\ new # NoPolicy
    <3> HIDE DEF v, l
    <3> QED  BY <2>1, <2>2, Values DEF Document
  <2>4. docs' = [docs EXCEPT ![k] = new]
    BY <1>5 DEF Upsert
  <2> HIDE DEF new
  <2>5. /\ sync' = [sync EXCEPT !.todo = @ \ {k}, !.repo[k] = NoPolicy,
                                !.curr[k] = NoPolicy, !.relocked = @ \ {k}]
        /\ UNCHANGED <<git, job, faulty>> /\ sync.pc = "write"
    BY <1>5 DEF Upsert
  <2>6. sync' \in SyncState
    BY <1>t, <2>5 DEF SyncState
  <2>7. docs' \in [Policies -> Stored]
    BY <1>t, <2>3, <2>4 DEF Stored
  <2>8. FetchedLockCurrent'
    BY <1>t, <2>4, <2>5 DEF FetchedLockCurrent, HasFetched, SyncState
  <2>9. UpsertsCloned' /\ JobsHold'
    BY <1>t, <2>3, <2>4, <2>5 DEF UpsertsCloned, JobsHold, SyncState
  <2> QED
    BY <2>5, <2>6, <2>7, <2>8, <2>9 DEF DataSyncTypeOK
<1> QED
  BY <1>1, <1>2, <1>3, <1>4, <1>5 DEF SyncStep

\* A write that leaves the locks alone and removes nothing, made outside the sync,
\* keeps the invariant's parts about the sync and the jobs.
LEMMA DataWrites ==
    ASSUME DataSyncInv, UNCHANGED sync,
           \A k \in Policies : docs[k] # NoPolicy => docs'[k] # NoPolicy,
           \A k \in Policies : Lock(docs'[k]) = Lock(docs[k]),
           \A i \in Refreshers, k \in Policies :
               job'[i].found[k] # NoPolicy => docs[k] # NoPolicy
    PROVE  JobsHold' /\ UpsertsCloned' /\ FetchedLockCurrent'
  BY DEF DataSyncInv, JobsHold, UpsertsCloned, FetchedLockCurrent, HasFetched

\* UpdateNextRefreshTime, and postponing, change no lock.
LEMMA TimeWrites ==
    ASSUME NEW d \in Document, NEW data \in Data, NEW next \in Times
    PROVE  /\ [d EXCEPT !.data = data, !.next = next] \in Document
           /\ [d EXCEPT !.next = next] \in Document
           /\ Lock([d EXCEPT !.data = data, !.next = next]) = Lock(d)
           /\ Lock([d EXCEPT !.next = next]) = Lock(d)
<1> DEFINE e == [d EXCEPT !.data = data, !.next = next]
           f == [d EXCEPT !.next = next]
<1>1. e \in Document /\ f \in Document /\ e.locked = d.locked /\ f.locked = d.locked
  BY DEF Document
<1>2. e # NoPolicy /\ f # NoPolicy /\ d # NoPolicy
  <2> HIDE DEF e, f
  <2> QED  BY <1>1, Values
<1> HIDE DEF e, f
<1>3. Lock(e) = Lock(d) /\ Lock(f) = Lock(d)
  BY <1>1, <1>2 DEF Lock
<1> QED
  BY <1>1, <1>3 DEF e, f

\* The steps of a refresher and the passing of time keep the invariant.
LEMMA RoundInv ==
    ASSUME DataSyncInv, NEW i \in Refreshers, Round(i) \/ AbortRound(i)
                                             \/ \E k \in Policies : UpdateFails(i, k)
    PROVE  DataSyncInv'
<1> USE DEF DataSyncInv
<1>t. /\ job \in [Refreshers -> JobState] /\ docs \in [Policies -> Stored]
      /\ \A j \in Refreshers : job[j].found \in [Policies -> Due \cup {NoPolicy}]
  BY DEF DataSyncTypeOK, JobState
<1>1. CASE FindDue(i)
  <2> DEFINE due == {k \in Policies : docs[k] # NoPolicy /\ docs[k].next = "due"}
             f == [k \in Policies |->
                     IF k \in due THEN [rev |-> docs[k].rev, data |-> docs[k].data]
                     ELSE NoPolicy]
  <2>1. /\ job' = [job EXCEPT ![i] = [pc |-> "found", found |-> f]]
        /\ UNCHANGED <<git, docs, sync, faulty>>
    BY <1>1 DEF FindDue
  <2>2. \A k \in due : docs[k] \in Document
    BY <1>t DEF Stored
  <2>3. f \in [Policies -> Due \cup {NoPolicy}]
    BY <2>2 DEF Document, Due
  <2>4. \A k \in Policies : f[k] # NoPolicy => docs[k] # NoPolicy
    OBVIOUS
  <2> HIDE DEF due, f
  <2>5. job' \in [Refreshers -> JobState]
    BY <1>t, <2>1, <2>3 DEF JobState
  <2>6. \A j \in Refreshers, k \in Policies :
          job'[j].found[k] # NoPolicy => docs[k] # NoPolicy
    BY <1>t, <2>1, <2>4 DEF JobsHold
  <2> QED
    BY <2>1, <2>5, <2>6, DataWrites DEF DataSyncTypeOK
<1>2. CASE postponeRefresh(i)
  <2>1. /\ docs' = [k \in Policies |-> IF k \in Todo(i)
                                        THEN [docs[k] EXCEPT !.next = "later"]
                                        ELSE docs[k]]
        /\ job' = [job EXCEPT ![i].pc = "execute"]
        /\ UNCHANGED <<git, sync, faulty>>
    BY <1>2 DEF postponeRefresh
  <2>2. ASSUME NEW k \in Policies
        PROVE  /\ docs'[k] \in Stored /\ Lock(docs'[k]) = Lock(docs[k])
               /\ docs[k] # NoPolicy => docs'[k] # NoPolicy
    <3>1. CASE k \in Todo(i)
      <4>1. docs[k] \in Document
        BY <1>t, <3>1 DEF Todo, JobsHold, Stored
      <4>2. docs'[k] = [docs[k] EXCEPT !.next = "later"]
        BY <2>1, <3>1
      <4>3. docs'[k] \in Document /\ Lock(docs'[k]) = Lock(docs[k])
        <5>1. "later" \in Times /\ docs[k].data \in Data
          BY <4>1 DEF Times, Document
        <5> DEFINE new == [docs[k] EXCEPT !.next = "later"]
        <5>2. new \in Document /\ Lock(new) = Lock(docs[k])
          BY <4>1, <5>1, TimeWrites
        <5>3. docs'[k] = new
          BY <4>2
        <5> HIDE DEF new
        <5> QED
          BY <5>2, <5>3
      <4> QED
        BY <4>3, Values DEF Stored
    <3>2. CASE k \notin Todo(i)
      BY <1>t, <2>1, <3>2
    <3> QED
      BY <3>1, <3>2
  <2>3. docs' \in [Policies -> Stored]
    BY <2>1, <2>2
  <2>4. job' \in [Refreshers -> JobState]
    BY <1>t, <2>1 DEF JobState
  <2>5. \A j \in Refreshers, k \in Policies :
          job'[j].found[k] # NoPolicy => docs[k] # NoPolicy
    BY <1>t, <2>1 DEF JobsHold, JobState
  <2> QED
    BY <2>1, <2>2, <2>3, <2>4, <2>5, DataWrites DEF DataSyncTypeOK
<1>3. CASE EndRound(i) \/ AbortRound(i)
  <2>1. job' = [job EXCEPT ![i] = JobIdle] /\ UNCHANGED <<git, docs, sync, faulty>>
    BY <1>3 DEF EndRound, AbortRound
  <2>2. job' \in [Refreshers -> JobState]
    BY <1>t, <2>1, IdleTypes
  <2>3. \A j \in Refreshers, k \in Policies :
          job'[j].found[k] # NoPolicy => docs[k] # NoPolicy
    BY <1>t, <2>1 DEF JobsHold, JobIdle, Nothing
  <2> QED
    BY <2>1, <2>2, <2>3, DataWrites DEF DataSyncTypeOK
<1>e. ASSUME NEW k \in Policies, Executed(i, k)
      PROVE  /\ job' \in [Refreshers -> JobState]
             /\ \A j \in Refreshers, m \in Policies :
                  job'[j].found[m] # NoPolicy => docs[m] # NoPolicy
  <2>1. job' = [job EXCEPT ![i].found[k] = NoPolicy]
    BY <1>e DEF Executed
  <2>2. job' \in [Refreshers -> JobState]
    BY <1>t, <2>1 DEF JobState
  <2>3. \A j \in Refreshers, m \in Policies :
          job'[j].found[m] # NoPolicy => job[j].found[m] # NoPolicy
    BY <1>t, <2>1 DEF JobState
  <2> QED
    BY <2>2, <2>3 DEF JobsHold
<1>4. ASSUME NEW k \in Policies, UpdateFails(i, k) PROVE DataSyncInv'
  BY <1>4, <1>e, DataWrites DEF UpdateFails, DataSyncTypeOK
<1>5. ASSUME NEW k \in Policies, NEW data \in Data, NEW next \in Times,
             k \in Todo(i), UpdateNextRefreshTime(k, data, next), Executed(i, k),
             UNCHANGED <<git, sync, faulty>>
      PROVE  DataSyncInv'
  <2>1. docs[k] \in Document
    BY <1>5, <1>t DEF Todo, JobsHold, Stored
  <2> DEFINE new == [docs[k] EXCEPT !.data = data, !.next = next]
  <2>2. docs' = [docs EXCEPT ![k] = new]
    BY <1>5, <1>t DEF UpdateNextRefreshTime
  <2>3. new \in Document /\ Lock(new) = Lock(docs[k])
    BY <2>1, TimeWrites
  <2>4. new # NoPolicy
    BY <2>3, Values
  <2> HIDE DEF new
  <2>5. docs' \in [Policies -> Stored]
    BY <1>t, <2>2, <2>3 DEF Stored
  <2>6. \A m \in Policies : /\ docs[m] # NoPolicy => docs'[m] # NoPolicy
                            /\ Lock(docs'[m]) = Lock(docs[m])
    BY <1>t, <2>2, <2>3, <2>4
  <2> QED
    BY <1>5, <1>e, <2>5, <2>6, DataWrites DEF DataSyncTypeOK
<1>6. ASSUME NEW k \in Policies, k \in Todo(i) PROVE job[i].found[k].data \in Data
  BY <1>6, <1>t DEF Todo, Due
<1>7. ASSUME NEW k \in Policies, Unschedule(i, k) PROVE DataSyncInv'
  BY <1>5, <1>6, <1>7 DEF Unschedule, Times
<1>8. ASSUME NEW k \in Policies, RefreshFails(i, k) PROVE DataSyncInv'
  BY <1>5, <1>6, <1>8 DEF RefreshFails, Times
<1>9. ASSUME NEW k \in Policies, NEW d \in Fetched, Refresh(i, k, d) PROVE DataSyncInv'
  BY <1>5, <1>9, Values DEF Refresh, Times
<1> QED
  BY <1>1, <1>2, <1>3, <1>4, <1>7, <1>8, <1>9 DEF Round

\* What users do keeps the invariant: a lock they write under the sync's hands is
\* remembered in relocked.
LEMMA UserInv ==
    ASSUME DataSyncInv, NEW k \in Policies,
           \/ Tick(k)
           \/ \E v \in Revisions \cup {NoPolicy} : Commit(k, v)
           \/ \E lock \in BOOLEAN : SetPolicyLock(k, lock)
           \/ \E v \in Revisions, lock \in BOOLEAN : SavePolicy(k, v, lock)
    PROVE  DataSyncInv'
<1> USE DEF DataSyncInv
<1>t. sync \in SyncState /\ docs \in [Policies -> Stored]
  BY DEF DataSyncTypeOK
<1>1. CASE Tick(k)
  <2>1. docs[k] \in Document
    BY <1>1, <1>t DEF Tick, Stored
  <2> DEFINE new == [docs[k] EXCEPT !.next = "due"]
  <2>2. docs' = [docs EXCEPT ![k] = new] /\ UNCHANGED <<git, sync, job, faulty>>
    BY <1>1, <1>t DEF Tick
  <2>3. new \in Document /\ Lock(new) = Lock(docs[k])
    <3>1. "due" \in Times /\ docs[k].data \in Data
      BY <2>1 DEF Times, Document
    <3> QED
      BY <2>1, <3>1, TimeWrites
  <2>4. new # NoPolicy
    BY <2>3, Values
  <2> HIDE DEF new
  <2>5. docs' \in [Policies -> Stored]
    BY <1>t, <2>2, <2>3 DEF Stored
  <2>6. \A m \in Policies : /\ docs[m] # NoPolicy => docs'[m] # NoPolicy
                            /\ Lock(docs'[m]) = Lock(docs[m])
    BY <1>t, <2>2, <2>3, <2>4
  <2>7. \A j \in Refreshers, m \in Policies :
          job'[j].found[m] # NoPolicy => docs[m] # NoPolicy
    BY <2>2 DEF JobsHold
  <2> QED
    BY <2>2, <2>5, <2>6, <2>7, DataWrites DEF DataSyncTypeOK
<1>2. ASSUME NEW v \in Revisions \cup {NoPolicy}, Commit(k, v) PROVE DataSyncInv'
  BY <1>2 DEF Commit, DataSyncTypeOK, JobsHold, UpsertsCloned, FetchedLockCurrent,
     HasFetched
<1>3. ASSUME NEW new \in Document, docs' = [docs EXCEPT ![k] = new], Relock(k),
             UNCHANGED <<git, job, faulty>>
      PROVE  DataSyncInv'
  <2>1. new # NoPolicy
    BY Values
  <2>2. docs' \in [Policies -> Stored]
    BY <1>3, <1>t DEF Stored
  <2>3. /\ sync' \in SyncState
        /\ sync'.pc = sync.pc /\ sync'.todo = sync.todo /\ sync'.curr = sync.curr
        /\ sync'.repo = sync.repo /\ sync.relocked \subseteq sync'.relocked
        /\ HasFetched(k) => k \in sync'.relocked
    BY <1>3, <1>t DEF Relock, SyncState
  <2>4. FetchedLockCurrent'
    BY <1>3, <1>t, <2>3 DEF FetchedLockCurrent, HasFetched
  <2>5. JobsHold' /\ UpsertsCloned'
    BY <1>3, <1>t, <2>1, <2>3 DEF JobsHold, UpsertsCloned
  <2> QED
    BY <1>3, <2>2, <2>3, <2>4, <2>5 DEF DataSyncTypeOK
<1>4. ASSUME NEW lock \in BOOLEAN, SetPolicyLock(k, lock) PROVE DataSyncInv'
  <2>1. docs[k] \in Document
    BY <1>4, <1>t DEF SetPolicyLock, Stored
  <2>2. [docs[k] EXCEPT !.locked = lock] \in Document
    BY <2>1 DEF Document
  <2>3. docs' = [docs EXCEPT ![k] = [docs[k] EXCEPT !.locked = lock]]
    BY <1>4, <1>t DEF SetPolicyLock
  <2> QED
    BY <1>3, <1>4, <2>2, <2>3 DEF SetPolicyLock
<1>5. ASSUME NEW v \in Revisions, NEW lock \in BOOLEAN, SavePolicy(k, v, lock)
      PROVE  DataSyncInv'
  <2> DEFINE named == docs[k] # NoPolicy /\ docs[k].named
             new == [locked |-> lock, rev |-> v, data |-> DataOf[v], named |-> named,
                     next |-> "zero"]
  <2>1. named \in BOOLEAN
    OBVIOUS
  <2>2. new \in Document
    <3> HIDE DEF named
    <3> QED  BY <2>1, Values DEF Document, Times
  <2>3. docs' = [docs EXCEPT ![k] = new]
    BY <1>5 DEF SavePolicy
  <2> HIDE DEF new
  <2> QED
    BY <1>3, <1>5, <2>2, <2>3 DEF SavePolicy
<1> QED
  BY <1>1, <1>2, <1>4, <1>5

\* The invariant holds after every step.
LEMMA NextInv == DataSyncInv /\ [Next]_vars => DataSyncInv'
<1> SUFFICES ASSUME DataSyncInv, [Next]_vars PROVE DataSyncInv'
  OBVIOUS
<1>1. CASE FaultsCease \/ UNCHANGED vars
  <2>1. UNCHANGED <<git, docs, sync, job>> /\ faulty' \in BOOLEAN
    BY <1>1 DEF FaultsCease, vars, DataSyncInv, DataSyncTypeOK
  <2> QED
    BY <2>1 DEF DataSyncInv, DataSyncTypeOK, JobsHold, UpsertsCloned,
       FetchedLockCurrent, HasFetched
<1> QED
  BY <1>1, SyncInv, RoundInv, UserInv DEF Next, Fault

\* The inductive invariant holds in every reachable state.
THEOREM Invariance == DataSyncSafety => []DataSyncInv
  BY InitInv, NextInv, PTL DEF DataSyncSafety

\* The documents, the sync and the refreshers keep their shape, whatever the order
\* of syncs, refreshes, imports, locks, faults and restarts.
THEOREM DataSyncTypes == DataSyncSafety => []DataSyncTypeOK
<1>1. DataSyncInv => DataSyncTypeOK
  BY DEF DataSyncInv
<1> QED
  BY <1>1, Invariance, PTL

\* The lock the sync is going to write is the stored one unless a user wrote it
\* after the fetch.
THEOREM FetchedLocks == DataSyncSafety => []FetchedLockCurrent
<1>1. DataSyncInv => FetchedLockCurrent
  BY DEF DataSyncInv
<1> QED
  BY <1>1, Invariance, PTL

\* The sync overrides no lock but one written between its fetch and its update.
THEOREM SyncKeepsLocks == DataSyncSafety => SyncSavesUncontestedLock
<1>1. DataSyncInv /\ [Next]_vars =>
        [\A k \in Policies :
           Upsert(k) /\ k \notin sync.relocked => Lock(docs'[k]) = Lock(docs[k])]_vars
  <2> SUFFICES ASSUME DataSyncInv, NEW k \in Policies, Upsert(k), k \notin sync.relocked
               PROVE  Lock(docs'[k]) = Lock(docs[k])
    OBVIOUS
  <2> DEFINE l == sync.curr[k] # NoPolicy /\ sync.curr[k].locked
             v == sync.repo[k]
             new == [locked |-> l, rev |-> v, data |-> DataOf[v], named |-> TRUE,
                     next |-> nextDataRefreshTime(v)]
  <2>1. Lock(sync.curr[k]) = Lock(docs[k])
    BY DEF DataSyncInv, FetchedLockCurrent, HasFetched, Upsert
  <2>2. docs'[k] = new
    BY DEF Upsert, DataSyncInv, DataSyncTypeOK
  <2>3. v \in Revisions /\ l \in BOOLEAN
    BY DEF Upsert, DataSyncInv, UpsertsCloned, DataSyncTypeOK, SyncState
  <2>4. new # NoPolicy
    <3>1. new \in Document
      <4> HIDE DEF l, v
      <4> QED  BY <2>3, Values DEF Document
    <3> HIDE DEF new
    <3> QED  BY <3>1, Values
  <2>5. new.locked = l
    OBVIOUS
  <2>6. l = Lock(sync.curr[k])
    BY DEF Lock
  <2> HIDE DEF new, l
  <2>7. Lock(docs'[k]) <=> l
    BY <2>2, <2>4, <2>5 DEF Lock
  <2> QED
    BY <2>1, <2>6, <2>7 DEF Lock
<1> QED
  BY <1>1, Invariance, PTL DEF DataSyncSafety, SyncSavesUncontestedLock
=============================================================================
