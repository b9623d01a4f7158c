------------------------ MODULE MongoServiceProofs ------------------------
(* Proofs about MongoService, for every number of policies, instances,     *)
(* requests and revisions.                                                 *)
EXTENDS MongoService, ServiceProofs

\* The inductive invariant.
MongoInv == TypeOK /\ DocumentsHeld /\ CacheFresh /\ SnapshotFresh

\* Initial states satisfy the invariant.
LEMMA InitInv == MongoInit => MongoInv
<1> SUFFICES ASSUME MongoInit PROVE MongoInv
  OBVIOUS
<1>0. Idle \in Request /\ Idle.doc = NoPolicy /\ Idle.pc = "idle"
  BY IdleType DEF Results
<1>1. TypeOK
  BY <1>0 DEF MongoInit, ServiceInit, TypeOK, ServiceTypeOK, EmptyCache, Stored,
     Statuses
<1>2. DocumentsHeld
  BY <1>0 DEF MongoInit, ServiceInit, DocumentsHeld, Holding, EmptyCache
<1>3. CacheFresh
  BY DEF MongoInit, ServiceInit, CacheFresh, Serving, EmptyCache
<1>4. SnapshotFresh
  BY <1>0 DEF MongoInit, ServiceInit, SnapshotFresh, Serving
<1> QED
  BY <1>1, <1>2, <1>3, <1>4 DEF MongoInv

\* The invariant holds after every step.
LEMMA NextInv == MongoInv /\ [MongoNext]_mongoVars => MongoInv'
<1> SUFFICES ASSUME MongoInv, [MongoNext]_mongoVars PROVE MongoInv'
  OBVIOUS
<1> USE DEF MongoInv
<1>t. /\ ServiceTypeOK /\ req \in [Requests -> Request]
      /\ pending \in [Instances -> Nat]
  BY DEF TypeOK, ServiceTypeOK
<1>1. ASSUME NEW r \in Requests, Accept(r) PROVE MongoInv'
  <2>1. PICK op \in Ops, i \in Instances, k \in Policies : Arrive(r, op, i, k)
    BY <1>1 DEF Accept
  <2>2. UNCHANGED <<store, cache, late, status, pending>>
    BY <1>1, <2>1 DEF Accept, Arrive
  <2>3. /\ ServiceTypeOK' /\ DocumentsHeld' /\ req'[r].doc = NoPolicy
        /\ \A s \in Requests \ {r} : req'[s] = req[s]
    BY <1>t, <2>1, ArriveSteps
  <2>4. CacheFresh' /\ SnapshotFresh'
    BY <2>2, <2>3 DEF CacheFresh, SnapshotFresh, Serving, Key
  <2> QED
    BY <2>2, <2>3, <2>4 DEF TypeOK
<1>2. ASSUME NEW r \in Requests, Quiet(r) \/ StorageFails(r),
             UNCHANGED <<status, pending>>
      PROVE  MongoInv'
  <2>1. TypeOK' /\ DocumentsHeld'
    BY <1>t, <1>2, QuietType, QuietHeld DEF TypeOK
  <2>2. QuietShape(r) /\ (UNCHANGED <<cache, late>> \/ CacheSet(r))
    BY <1>t, <1>2, QuietSteps
  <2>3. Key(r) \in Policies /\ req[r].inst \in Instances
    BY <1>t DEF Key, Request
  <2>4. SnapshotFresh'
    BY <1>2, <2>2, <2>3 DEF SnapshotFresh, CacheFresh, QuietShape, Kept, FromCache,
       Serving, Key
  <2>5. CacheFresh'
    BY <1>2, <2>2, <2>3 DEF SnapshotFresh, CacheFresh, QuietShape, CacheSet, Serving, Key,
       TypeOK, ServiceTypeOK
  <2> QED
    BY <2>1, <2>4, <2>5
<1>3. ASSUME NEW r \in Requests, NEW result \in {"ok", "error"}, Writes(r, result),
             Publish, UNCHANGED status
      PROVE  MongoInv'
  <2>1. ServiceTypeOK' /\ DocumentsHeld'
    BY <1>t, <1>3, WriteHeld
  <2>2. TypeOK'
    BY <1>3, <2>1 DEF TypeOK, Publish
  <2>3. \A i \in Instances : Serving(i)' => pending'[i] > 0
    BY <1>3, <1>t DEF Publish, Serving
  <2>4. CacheFresh' /\ SnapshotFresh'
    BY <2>2, <2>3 DEF CacheFresh, SnapshotFresh, TypeOK, ServiceTypeOK, Request
  <2> QED
    BY <2>1, <2>2, <2>4
<1>4. ASSUME NEW k \in Policies, NEW d \in Document, ExternalWrite(k, d)
      PROVE  MongoInv'
  <2>1. TypeOK'
    BY <1>4 DEF ExternalWrite, Publish, TypeOK, ServiceTypeOK, Stored
  <2>2. DocumentsHeld'
    BY <1>4, <1>t, ServiceAssumption DEF ExternalWrite, DocumentsHeld, TypeOK,
       ServiceTypeOK, Key
  <2>3. \A i \in Instances : Serving(i)' => pending'[i] > 0
    BY <1>4, <1>t DEF ExternalWrite, Publish, Serving
  <2>4. CacheFresh' /\ SnapshotFresh'
    BY <2>1, <2>3 DEF CacheFresh, SnapshotFresh, TypeOK, ServiceTypeOK, Request
  <2> QED
    BY <2>1, <2>2, <2>4
<1>5. ASSUME NEW i \in Instances, OpenStream(i) PROVE MongoInv'
  <2>1. Overtake(i)
    BY <1>5 DEF OpenStream
  <2>2. TypeOK'
    BY <1>5, <1>t, <2>1, OvertakeKeeps DEF OpenStream, TypeOK, ServiceTypeOK, Statuses
  <2>3. DocumentsHeld'
    BY <1>5, <1>t, <2>1, OvertakeKeeps DEF OpenStream, DocumentsHeld, Key
  <2>4. CacheFresh'
    BY <1>5 DEF OpenStream, CacheFresh, Serving, TypeOK, ServiceTypeOK
  <2>5. SnapshotFresh'
    BY <1>5, <1>t, <2>1, OvertakeKeeps DEF OpenStream, SnapshotFresh, Serving, Key, TypeOK
  <2> QED
    BY <2>2, <2>3, <2>4, <2>5
<1>6. ASSUME NEW i \in Instances, Deliver(i) PROVE MongoInv'
  <2>1. Overtake(i) /\ UNCHANGED <<store, status>>
    BY <1>6 DEF Deliver, Purge
  <2>2. ServiceTypeOK' /\ DocumentsHeld'
    BY <1>6, <1>t, PurgeHeld DEF Deliver
  <2>3. TypeOK'
    BY <1>6, <1>t, <2>1, <2>2 DEF Deliver, TypeOK
  <2>4. CacheFresh'
    BY <1>6, <2>1 DEF Deliver, Purge, CacheFresh, Serving, TypeOK, ServiceTypeOK,
       EmptyCache
  <2>5. SnapshotFresh'
    BY <1>6, <1>t, <2>1, OvertakeKeeps DEF Deliver, SnapshotFresh, Serving, Key, TypeOK
  <2> QED
    BY <2>2, <2>3, <2>4, <2>5
<1>7. ASSUME NEW i \in Instances, StreamFails(i) \/ StreamCloses(i) PROVE MongoInv'
  <2>1. UNCHANGED <<store, cache, req, late>>
    BY <1>7 DEF StreamFails, StreamCloses, serviceVars
  <2>2. TypeOK'
    BY <1>7, <2>1 DEF StreamFails, StreamCloses, TypeOK, ServiceTypeOK, Statuses
  <2>3. DocumentsHeld'
    BY <2>1 DEF DocumentsHeld, Key
  <2>4. \A j \in Instances : Serving(j)' => Serving(j) /\ pending'[j] = pending[j]
    BY <1>7, <1>t DEF StreamFails, StreamCloses, Serving, TypeOK
  <2>5. CacheFresh'
    BY <2>1, <2>4 DEF CacheFresh
  <2>6. SnapshotFresh'
    BY <1>t, <2>1, <2>4 DEF SnapshotFresh, Key, Request
  <2> QED
    BY <2>2, <2>3, <2>5, <2>6
<1>8. ASSUME NEW i \in Instances, Restart(i) PROVE MongoInv'
  <2>1. Idle \in Request /\ Idle.doc = NoPolicy /\ Idle.pc \notin Holding
    BY IdleType DEF Results, Holding
  <2>2. TypeOK'
    BY <1>8, <2>1 DEF Restart, TypeOK, ServiceTypeOK, Statuses, EmptyCache, Stored
  <2>3. DocumentsHeld'
    BY <1>8, <2>1 DEF Restart, DocumentsHeld, Key, EmptyCache, TypeOK, ServiceTypeOK
  <2>4. CacheFresh'
    BY <1>8 DEF Restart, CacheFresh, Serving, EmptyCache, TypeOK, ServiceTypeOK
  <2>5. SnapshotFresh'
    BY <1>8, <2>1 DEF Restart, SnapshotFresh, Serving, Key, TypeOK
  <2> QED
    BY <2>2, <2>3, <2>4, <2>5
<1>9. CASE UNCHANGED mongoVars
  BY <1>9 DEF mongoVars, TypeOK, ServiceTypeOK, DocumentsHeld, CacheFresh, SnapshotFresh,
     Serving, Key
<1> QED
  BY <1>1, <1>2, <1>3, <1>4, <1>5, <1>6, <1>7, <1>8, <1>9 DEF MongoNext, Handle

\* The inductive invariant holds in every reachable state: types, and how fresh
\* the policies in the caches and in the hands of the handlers are.
THEOREM Invariance == MongoSafety => []MongoInv
  BY InitInv, NextInv, PTL DEF MongoSafety

\* Types and lifetimes: whatever the interleaving of handlers, listeners, crashes
\* and other writers, the state is well formed.
THEOREM TypeCorrect == MongoSafety => []TypeOK
<1>1. MongoInv => TypeOK
  BY DEF MongoInv
<1> QED
  BY <1>1, Invariance, PTL

\* A stale cache entry of a listening instance is about to be purged, unless it
\* was filled with an overtaken snapshot.
THEOREM CacheIsFresh == MongoSafety => []CacheFresh
<1>1. MongoInv => CacheFresh
  BY DEF MongoInv
<1> QED
  BY <1>1, Invariance, PTL

\* The policies handlers hold are as fresh as cache entries.
THEOREM SnapshotsAreFresh == MongoSafety => []SnapshotFresh
<1>1. MongoInv => SnapshotFresh
  BY DEF MongoInv
<1> QED
  BY <1>1, Invariance, PTL

\* Neither a handler nor a cache holds a policy the collection does not have.
THEOREM DocumentsAreHeld == MongoSafety => []DocumentsHeld
<1>1. MongoInv => DocumentsHeld
  BY DEF MongoInv
<1> QED
  BY <1>1, Invariance, PTL

\* A handler evaluates a locked policy only in the cases LockRespected names.
THEOREM LocksAreRespected == MongoSafety => LockRespected
<1>1. MongoInv /\ [MongoNext]_mongoVars =>
        [\A r \in Requests :
           Admitted(r) /\ store[Key(r)].locked =>
              \/ req[r].overtaken
              \/ ~Serving(req[r].inst)
              \/ pending[req[r].inst] > 0]_mongoVars
  <2> SUFFICES ASSUME MongoInv, MongoNext, NEW r \in Requests, Admitted(r),
                      store[Key(r)].locked, ~req[r].overtaken, Serving(req[r].inst)
               PROVE  pending[req[r].inst] > 0
    OBVIOUS
  <2>1. ServiceTypeOK /\ DocumentsHeld /\ req \in [Requests -> Request]
    BY DEF MongoInv, TypeOK, ServiceTypeOK
  <2>2. req[r].doc # NoPolicy /\ ~req[r].doc.locked
    <3>0. req[r].pc = "admit" /\ req'[r].pc # "admit"
      BY DEF Admitted, At
    <3>1. ASSUME NEW s \in Requests, Quiet(s) \/ StorageFails(s)
          PROVE  req[r].doc # NoPolicy /\ ~req[r].doc.locked
      BY <2>1, <3>1, AdmittedQuietly
    <3>2. ASSUME NEW s \in Requests,
                 Accept(s) \/ \E result \in {"ok", "error"} : Writes(s, result)
          PROVE  FALSE
      BY <2>1, <3>2, NotAdmitted DEF Accept
    <3>3. ASSUME NEW i \in Instances, OpenStream(i) \/ Deliver(i) PROVE FALSE
      BY <2>1, <3>0, <3>3, OvertakeKeeps DEF OpenStream, Deliver, Purge
    <3>4. ASSUME NEW i \in Instances, StreamFails(i) \/ StreamCloses(i) PROVE FALSE
      BY <3>0, <3>4 DEF StreamFails, StreamCloses, serviceVars
    <3>5. ASSUME NEW i \in Instances, Restart(i) PROVE FALSE
      BY <2>1, <3>0, <3>5, IdleType DEF Restart, Admitted, Idle
    <3>6. ASSUME NEW k \in Policies, NEW d \in Document, ExternalWrite(k, d)
          PROVE  FALSE
      BY <3>0, <3>6 DEF ExternalWrite
    <3> QED
      BY <3>1, <3>2, <3>3, <3>4, <3>5, <3>6 DEF MongoNext, Handle
  <2> QED
    BY <2>2 DEF MongoInv, SnapshotFresh
<1> QED
  BY <1>1, Invariance, PTL DEF MongoSafety, LockRespected
-----------------------------------------------------------------------------
(* MongoService implements PolicyRegistry.                                 *)

\* The registry of MongoService takes the steps that the handlers' steps map to.
LEMMA SameSteps ==
    /\ Contract!Init => Registry!Init
    /\ Contract!Settle => Registry!Settle
    /\ \A r : Contract!Admit(r) => Registry!Admit(r)
    /\ \A k, d : Contract!Write(k, d) => Registry!Write(k, d)
    /\ UNCHANGED Contract!vars => UNCHANGED Registry!vars
  BY DEF Contract!Init, Contract!Settle, Contract!Admit, Contract!Write, Contract!Sees,
     Contract!Current, Contract!vars, Registry!Init, Registry!Settle, Registry!Admit,
     Registry!Write, Registry!Sees, Registry!Current, Registry!vars

\* Every step maps to a step of the registry or to none.
LEMMA RegistryNext ==
    MongoInv /\ [MongoNext]_mongoVars => [Registry!Next]_(Registry!vars)
<1> SUFFICES ASSUME MongoInv, [MongoNext]_mongoVars
             PROVE  Registry!Next \/ UNCHANGED Registry!vars
  OBVIOUS
<1>t. ServiceTypeOK /\ DocumentsHeld /\ req \in [Requests -> Request]
  BY DEF MongoInv, TypeOK, ServiceTypeOK
<1>1. ASSUME NEW r \in Requests, Accept(r) PROVE Registry!Settle
  BY <1>t, <1>1, ArriveSettles, SameSteps DEF Accept
<1>2. ASSUME NEW r \in Requests, Quiet(r) \/ StorageFails(r)
      PROVE  Registry!Settle \/ Registry!Admit(r)
  BY <1>t, <1>2, QuietMaps, SameSteps
<1>3. ASSUME NEW r \in Requests, NEW result \in {"ok", "error"}, Writes(r, result)
      PROVE  \E k \in Policies, d \in Document : Registry!Write(k, d)
  BY <1>t, <1>3, WriteMaps, SameSteps
<1>4. ASSUME NEW k \in Policies, NEW d \in Document, ExternalWrite(k, d)
      PROVE  Registry!Write(k, d)
  <2>1. store' = [store EXCEPT ![k] = d] /\ cache' = cache /\ req' = req
    BY <1>4 DEF ExternalWrite
  <2>2. \A s \in Requests : KeepsSight(s)
    BY <1>t, <2>1, Unmoved
  <2>3. Using' = Using
    BY <2>1 DEF Using, At
  <2> QED
    BY <1>t, <2>1, <2>2, <2>3, Stores, SameSteps
<1>5. ASSUME NEW i \in Instances, OpenStream(i) \/ Deliver(i) PROVE Registry!Settle
  <2>1. /\ Overtake(i) /\ store' = store
        /\ cache' = cache \/ cache' = [cache EXCEPT ![i] = EmptyCache]
    BY <1>5 DEF OpenStream, Deliver, Purge
  <2> QED
    BY <1>t, <2>1, PurgeSettles, SameSteps
<1>6. ASSUME NEW i \in Instances, Restart(i) PROVE Registry!Settle
  <2>1. /\ store' = store /\ cache' = [cache EXCEPT ![i] = EmptyCache]
        /\ req' = [r \in Requests |-> IF req[r].inst = i THEN Idle ELSE req[r]]
    BY <1>6 DEF Restart
  <2>2. Idle.doc = NoPolicy /\ Idle.pol = NoPolicy /\ Idle.pc # "eval"
    BY DEF Idle
  <2>3. \A r \in Requests : KeepsSight(r)
    BY <1>t, <2>1, <2>2, Unmoved DEF KeepsSight
  <2>4. \A j \in Instances, k \in Policies : cache'[j][k] \in {NoPolicy, cache[j][k]}
    BY <1>t, <2>1 DEF EmptyCache, ServiceTypeOK
  <2>5. \A j \in Instances, k \in Policies : cache'[j][k] \in {NoPolicy} \cup Visible[j][k]
    BY <2>4, VisibleIs
  <2>6. \A r \in Requests : req'[r].pc = "eval" =>
                               req[r].pc = "eval" /\ req'[r].doc = req[r].doc
    BY <2>1, <2>2
  <2> QED
    BY <1>t, <2>1, <2>3, <2>5, <2>6, Settles, SameSteps
<1>7. ASSUME NEW i \in Instances, StreamFails(i) \/ StreamCloses(i)
      PROVE  UNCHANGED Registry!vars
  BY <1>7, Unseen, SameSteps DEF StreamFails, StreamCloses, serviceVars
<1>8. CASE UNCHANGED mongoVars
  BY <1>8, Unseen, SameSteps DEF mongoVars
<1> QED
  BY <1>1, <1>2, <1>3, <1>4, <1>5, <1>6, <1>7, <1>8
     DEF MongoNext, Handle, Registry!Next

\* The service over MongoDB implements the registry, for any number of processes,
\* policies and requests: whatever caches, handlers and other writers do, an
\* evaluation uses an unlocked document that was stored under its policy and that
\* its process has not lost sight of since.
THEOREM Refinement == MongoSafety => ImplementsRegistry
<1>1. MongoInit => Registry!Init
  BY InitMaps, SameSteps DEF MongoInit
<1> QED
  BY <1>1, RegistryNext, Invariance, PTL
     DEF MongoSafety, ImplementsRegistry, Registry!Spec
=============================================================================
