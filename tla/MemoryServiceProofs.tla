------------------------ MODULE MemoryServiceProofs ------------------------
(* Proofs about MemoryService, for every number of policies, requests and  *)
(* revisions.                                                              *)
EXTENDS MemoryService, ServiceProofs

\* The inductive invariant.
MemoryInv ==
    MemoryTypeOK /\ DocumentsHeld /\ ChangeAnnounced /\ SnapshotAnnounced

\* Initial states satisfy the invariant.
LEMMA MemoryInitInv == MemoryInit => MemoryInv
<1> SUFFICES ASSUME MemoryInit PROVE MemoryInv
  OBVIOUS
<1>0. Idle \in Request /\ Idle.doc = NoPolicy /\ Idle.pc = "idle" /\ Process \in Instances
  BY IdleType, SingleProcess DEF Results
<1>1. MemoryTypeOK
  BY <1>0 DEF MemoryInit, ServiceInit, MemoryTypeOK, ServiceTypeOK, EmptyCache, Stored
<1>2. DocumentsHeld
  BY <1>0 DEF MemoryInit, ServiceInit, DocumentsHeld, Holding, EmptyCache
<1>3. ChangeAnnounced /\ SnapshotAnnounced
  BY <1>0 DEF MemoryInit, ServiceInit, ChangeAnnounced, SnapshotAnnounced, EmptyCache
<1> QED
  BY <1>1, <1>2, <1>3 DEF MemoryInv

\* The invariant holds after every step.
LEMMA MemoryNextInv == MemoryInv /\ [MemoryNext]_memoryVars => MemoryInv'
<1> SUFFICES ASSUME MemoryInv, [MemoryNext]_memoryVars PROVE MemoryInv'
  OBVIOUS
<1> USE DEF MemoryInv
<1>t. /\ ServiceTypeOK /\ req \in [Requests -> Request]
      /\ Process \in Instances /\ \A i \in Instances : i = Process
  BY SingleProcess DEF MemoryTypeOK, ServiceTypeOK
<1>1. ASSUME NEW r \in Requests, Accept(r) PROVE MemoryInv'
  <2>1. PICK op \in Ops, k \in Policies : Arrive(r, op, Process, k)
    BY <1>1 DEF Accept
  <2>2. UNCHANGED <<store, cache, late, listening, sender, lost>>
    BY <1>1, <2>1 DEF Accept, Arrive
  <2>3. /\ ServiceTypeOK' /\ DocumentsHeld' /\ req'[r].doc = NoPolicy
        /\ \A s \in Requests \ {r} : req'[s] = req[s]
    BY <1>t, <2>1, ArriveSteps
  <2>4. ChangeAnnounced' /\ SnapshotAnnounced'
    BY <2>2, <2>3 DEF ChangeAnnounced, SnapshotAnnounced, Key
  <2> QED
    BY <2>2, <2>3, <2>4 DEF MemoryTypeOK
<1>2. ASSUME NEW r \in Requests, Quiet(r), UNCHANGED <<listening, sender, lost>>
      PROVE  MemoryInv'
  <2>1. MemoryTypeOK' /\ DocumentsHeld'
    BY <1>t, <1>2, QuietType, QuietHeld DEF MemoryTypeOK
  <2>2. QuietShape(r) /\ (UNCHANGED <<cache, late>> \/ CacheSet(r))
    BY <1>t, <1>2, QuietSteps
  <2>3. Key(r) \in Policies /\ req[r].inst = Process
    BY <1>t DEF Key, Request
  <2>4. SnapshotAnnounced'
    BY <1>2, <2>2, <2>3 DEF SnapshotAnnounced, ChangeAnnounced, QuietShape, Kept,
       FromCache, Key
  <2>5. ChangeAnnounced'
    BY <1>2, <1>t, <2>2, <2>3 DEF SnapshotAnnounced, ChangeAnnounced, QuietShape,
       CacheSet, Key, ServiceTypeOK
  <2> QED
    BY <2>1, <2>4, <2>5
<1>3. ASSUME NEW r \in Requests, Writes(r, "ok"), sender' = sender \cup {r},
             UNCHANGED <<listening, lost>>
      PROVE  MemoryInv'
  <2>1. ServiceTypeOK' /\ DocumentsHeld'
    BY <1>t, <1>3, WriteHeld
  <2>2. sender' # {}
    BY <1>3
  <2> QED
    BY <1>3, <2>1, <2>2 DEF MemoryTypeOK, ChangeAnnounced, SnapshotAnnounced
<1>4. ASSUME NEW r \in Requests, SendChange(r) PROVE MemoryInv'
  <2>1. Purge(Process) /\ Overtake(Process) /\ store' = store
    BY <1>4 DEF SendChange, Purge
  <2>2. ServiceTypeOK' /\ DocumentsHeld'
    BY <1>t, <2>1, PurgeHeld
  <2>3. ChangeAnnounced'
    BY <1>t, <2>1 DEF Purge, ChangeAnnounced, EmptyCache, ServiceTypeOK
  <2>4. SnapshotAnnounced'
    <3>1. ASSUME NEW s \in Requests PROVE req'[s].overtaken \/ req'[s].doc = NoPolicy
      <4>1. req[s].inst = Process
        BY <1>t DEF Request
      <4> QED
        BY <1>t, <2>1, <4>1, OvertakeKeeps
    <3> QED
      BY <3>1 DEF SnapshotAnnounced
  <2> QED
    BY <1>4, <2>2, <2>3, <2>4 DEF SendChange, MemoryTypeOK
<1>5. ASSUME NEW r \in Requests, GiveUp(r) PROVE MemoryInv'
  BY <1>5 DEF GiveUp, serviceVars, MemoryTypeOK, ServiceTypeOK, DocumentsHeld, Key,
     ChangeAnnounced, SnapshotAnnounced
<1>6. CASE Listen \/ UNCHANGED memoryVars
  BY <1>6 DEF Listen, serviceVars, memoryVars, MemoryTypeOK, ServiceTypeOK, DocumentsHeld,
     Key, ChangeAnnounced, SnapshotAnnounced
<1>7. CASE Restart
  <2>1. Idle \in Request /\ Idle.doc = NoPolicy /\ Idle.pc \notin Holding
    BY IdleType DEF Results, Holding
  <2>2. MemoryTypeOK'
    BY <1>7, <2>1 DEF Restart, MemoryTypeOK, ServiceTypeOK, EmptyCache, Stored, Cloned
  <2>3. DocumentsHeld'
    BY <1>7, <2>1 DEF Restart, DocumentsHeld, Key, EmptyCache
  <2>4. ChangeAnnounced' /\ SnapshotAnnounced'
    BY <1>t, <1>7, <2>1 DEF Restart, ChangeAnnounced, SnapshotAnnounced, EmptyCache
  <2> QED
    BY <2>2, <2>3, <2>4
<1> QED
  BY <1>1, <1>2, <1>3, <1>4, <1>5, <1>6, <1>7 DEF MemoryNext, Handle

\* The inductive invariant holds in every reachable state: types, and how fresh
\* the cache of the process and the policies in the hands of its handlers are.
THEOREM MemoryInvariance == MemorySafety => []MemoryInv
  BY MemoryInitInv, MemoryNextInv, PTL DEF MemorySafety

\* Whatever the interleaving of handlers, the goroutines they leave behind, the
\* listener and restarts, the state is well formed.
THEOREM MemoryTypeCorrect == MemorySafety => []MemoryTypeOK
<1>1. MemoryInv => MemoryTypeOK
  BY DEF MemoryInv
<1> QED
  BY <1>1, MemoryInvariance, PTL

\* A stale cache entry has a change on offer that will purge it, unless a change
\* was given up or the entry was filled behind a purge.
THEOREM ChangesAreAnnounced == MemorySafety => []ChangeAnnounced
<1>1. MemoryInv => ChangeAnnounced
  BY DEF MemoryInv
<1> QED
  BY <1>1, MemoryInvariance, PTL

\* The policies handlers hold are as fresh as cache entries.
THEOREM SnapshotsAreAnnounced == MemorySafety => []SnapshotAnnounced
<1>1. MemoryInv => SnapshotAnnounced
  BY DEF MemoryInv
<1> QED
  BY <1>1, MemoryInvariance, PTL

\* Neither a handler nor the cache holds a policy the map does not have, although
\* a restart may leave out policies it had.
THEOREM MemoryDocumentsHeld == MemorySafety => []DocumentsHeld
<1>1. MemoryInv => DocumentsHeld
  BY DEF MemoryInv
<1> QED
  BY <1>1, MemoryInvariance, PTL

\* A handler evaluates a locked policy only in the cases MemoryLockRespected names.
THEOREM MemoryLocksAreRespected == MemorySafety => MemoryLockRespected
<1>1. MemoryInv /\ [MemoryNext]_memoryVars =>
        [\A r \in Requests :
           Admitted(r) /\ store[Key(r)].locked
              => req[r].overtaken \/ sender # {} \/ lost]_memoryVars
  <2> SUFFICES ASSUME MemoryInv, MemoryNext, NEW r \in Requests, Admitted(r),
                      store[Key(r)].locked, ~req[r].overtaken
               PROVE  sender # {} \/ lost
    OBVIOUS
  <2>1. /\ ServiceTypeOK /\ DocumentsHeld /\ req \in [Requests -> Request]
        /\ Process \in Instances
    BY SingleProcess DEF MemoryInv, MemoryTypeOK, ServiceTypeOK
  <2>2. req[r].doc # NoPolicy /\ ~req[r].doc.locked
    <3>0. req[r].pc = "admit" /\ req'[r].pc # "admit" /\ req'[r].pc # "idle"
      BY DEF Admitted, At
    <3>1. ASSUME NEW s \in Requests, Quiet(s)
          PROVE  req[r].doc # NoPolicy /\ ~req[r].doc.locked
      BY <2>1, <3>1, AdmittedQuietly
    <3>2. ASSUME NEW s \in Requests, Accept(s) \/ Writes(s, "ok") PROVE FALSE
      BY <2>1, <3>2, NotAdmitted DEF Accept
    <3>3. ASSUME NEW s \in Requests, SendChange(s) PROVE FALSE
      BY <2>1, <3>0, <3>3, OvertakeKeeps DEF SendChange, Purge
    <3>4. ASSUME NEW s \in Requests, GiveUp(s) PROVE FALSE
      BY <3>0, <3>4 DEF GiveUp, serviceVars
    <3>5. ASSUME Listen PROVE FALSE
      BY <3>0, <3>5 DEF Listen, serviceVars
    <3>6. ASSUME Restart PROVE FALSE
      BY <3>0, <3>6 DEF Restart, Idle
    <3> QED
      BY <3>1, <3>2, <3>3, <3>4, <3>5, <3>6 DEF MemoryNext, Handle
  <2> QED
    BY <2>2 DEF MemoryInv, SnapshotAnnounced
<1> QED
  BY <1>1, MemoryInvariance, PTL DEF MemorySafety, MemoryLockRespected
-----------------------------------------------------------------------------
(* MemoryService implements PolicyRegistry.                                *)

\* The registry of MemoryService takes the steps that the handlers' steps map to.
LEMMA MemorySameSteps ==
    /\ Contract!Init => Registry!Init
    /\ Contract!Settle => Registry!Settle
    /\ \A r : Contract!Admit(r) => Registry!Admit(r)
    /\ \A k, d : Contract!Write(k, d) => Registry!Write(k, d)
    /\ UNCHANGED Contract!vars => UNCHANGED Registry!vars
  BY DEF Contract!Init, Contract!Settle, Contract!Admit, Contract!Write, Contract!Sees,
     Contract!Current, Contract!vars, Registry!Init, Registry!Settle, Registry!Admit,
     Registry!Write, Registry!Sees, Registry!Current, Registry!vars

\* A restart is a reload: nothing of the previous process is seen any more.
LEMMA RestartReloads == ASSUME MemoryInv, Restart PROVE Registry!Reload
<1>1. /\ store' \in [Policies -> Document \cup {NoPolicy}]
      /\ \A i \in Instances, k \in Policies : cache'[i][k] = NoPolicy
      /\ \A r \in Requests : /\ req'[r].doc = NoPolicy /\ req'[r].pol = NoPolicy
                             /\ req'[r].pc = "idle"
  BY DEF Restart, Cloned, EmptyCache, Idle
<1>2. ASSUME NEW i \in Instances, NEW k \in Policies
      PROVE  Visible'[i][k] = Registry!Current(store', k)
  <2>1. \A d : d \in Visible'[i][k] <=> d # NoPolicy /\ d = store'[k]
    BY <1>1, VisibleIsNext
  <2> QED
    BY <2>1 DEF Registry!Current
<1>3. Visible' = [i \in Instances |-> [k \in Policies |-> Registry!Current(store', k)]]
  <2>1. Visible' = [i \in Instances |-> [k \in Policies |-> Visible'[i][k]]]
    BY DEF Visible
  <2> QED
    BY <1>2, <2>1
<1>4. Using' = [r \in Requests |-> NoPolicy]
  BY <1>1 DEF Using, At
<1> QED
  BY <1>1, <1>3, <1>4 DEF Registry!Reload

\* Every step maps to a step of the registry or to none.
LEMMA MemoryRegistryNext ==
    MemoryInv /\ [MemoryNext]_memoryVars => [Registry!Next]_(Registry!vars)
<1> SUFFICES ASSUME MemoryInv, [MemoryNext]_memoryVars
             PROVE  Registry!Next \/ UNCHANGED Registry!vars
  OBVIOUS
<1>t. ServiceTypeOK /\ DocumentsHeld /\ Process \in Instances
  BY SingleProcess DEF MemoryInv, MemoryTypeOK
<1>1. ASSUME NEW r \in Requests, Accept(r) PROVE Registry!Settle
  BY <1>t, <1>1, ArriveSettles, MemorySameSteps DEF Accept
<1>2. ASSUME NEW r \in Requests, Quiet(r) PROVE Registry!Settle \/ Registry!Admit(r)
  BY <1>t, <1>2, QuietMaps, MemorySameSteps
<1>3. ASSUME NEW r \in Requests, Writes(r, "ok")
      PROVE  \E k \in Policies, d \in Document : Registry!Write(k, d)
  BY <1>t, <1>3, WriteMaps, MemorySameSteps
<1>4. ASSUME NEW r \in Requests, SendChange(r) PROVE Registry!Settle
  <2>1. /\ Overtake(Process) /\ store' = store
        /\ cache' = [cache EXCEPT ![Process] = EmptyCache]
    BY <1>4 DEF SendChange, Purge
  <2> QED
    BY <1>t, <2>1, PurgeSettles, MemorySameSteps
<1>5. ASSUME NEW r \in Requests, GiveUp(r) PROVE UNCHANGED Registry!vars
  BY <1>5, Unseen, MemorySameSteps DEF GiveUp, serviceVars
<1>6. CASE Listen \/ UNCHANGED memoryVars
  BY <1>6, Unseen, MemorySameSteps DEF Listen, serviceVars, memoryVars
<1>7. CASE Restart
  BY <1>7, RestartReloads DEF Registry!Next
<1> QED
  BY <1>1, <1>2, <1>3, <1>4, <1>5, <1>6, <1>7 DEF MemoryNext, Handle, Registry!Next

\* The service over the memory storage implements the registry whose documents
\* a restart replaces, for any number of policies and requests.
THEOREM MemoryRefinement == MemorySafety => MemoryImplementsRegistry
<1>1. MemoryInit => Registry!Init
  BY InitMaps, MemorySameSteps DEF MemoryInit
<1> QED
  BY <1>1, MemoryRegistryNext, MemoryInvariance, PTL
     DEF MemorySafety, MemoryImplementsRegistry, Registry!Spec
=============================================================================
