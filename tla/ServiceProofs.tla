---------------------------- MODULE ServiceProofs ----------------------------
(* What the steps of the handlers do, whatever storage announces the       *)
(* writes: the lemmas that the proofs about MongoService and MemoryService *)
(* share.                                                                  *)
EXTENDS PolicyService, TLAPS

\* A free slot is a request record: the CHOOSE of Idle picks members.
LEMMA IdleType == ASSUME NEW res \in Results
                  PROVE  /\ Idle \in Request
                         /\ [Idle EXCEPT !.res = res] \in Request
                         /\ Idle.doc = NoPolicy /\ Idle.pc = "idle"
<1>1. (CHOOSE i \in Instances : TRUE) \in Instances
  BY ServiceAssumption
<1>2. (CHOOSE k \in Policies : TRUE) \in Policies
  BY ServiceAssumption
<1>3. NoPolicy \in Stored
  BY DEF Stored
<1> QED
  BY <1>1, <1>2, <1>3 DEF Idle, Request, Steps, Ops, Results

\* A step of a handler that writes nothing keeps the types.
LEMMA QuietType ==
    ASSUME ServiceTypeOK, DocumentsHeld, NEW r \in Requests, Quiet(r) \/ StorageFails(r)
    PROVE  ServiceTypeOK'
<1> USE DEF ServiceTypeOK
<1>r. req[r] \in Request
  OBVIOUS
<1>f. ASSUME NEW res \in Results, Finish(r, res) PROVE req' \in [Requests -> Request]
  BY <1>f, IdleType DEF Finish
<1>t. ASSUME NEW d \in Stored, NEW o \in BOOLEAN, NEW step \in Steps,
             Take(r, d, o, step)
      PROVE  req' \in [Requests -> Request]
  BY <1>t, <1>r DEF Take, Request
<1>1. CASE CacheGet(r)
  <2> DEFINE d == cache[req[r].inst][Key(r)]
             o == Key(r) \in late[req[r].inst]
  <2>1. d \in Stored /\ Retrieved(r) \in Steps
    BY <1>r DEF Request, Key, Retrieved, Steps
  <2>2. o \in BOOLEAN
    OBVIOUS
  <2>3. CASE Take(r, d, o, Retrieved(r))
    <3> HIDE DEF d, o
    <3> QED  BY <1>1, <1>t, <2>1, <2>2, <2>3 DEF CacheGet
  <2>4. CASE Goto(r, "read")
    BY <1>1, <1>r, <2>4 DEF CacheGet, Goto, Request, Steps
  <2> QED
    BY <1>1, <2>3, <2>4 DEF CacheGet
<1>2. CASE ReadStore(r)
  <2>1. CASE Finish(r, "refused")
    BY <1>2, <1>f, <2>1 DEF ReadStore, Results
  <2>2. CASE Take(r, store[Key(r)], FALSE, "fill")
    BY <1>2, <1>r, <2>2 DEF ReadStore, Take, Key, Request, Steps
  <2> QED
    BY <1>2, <2>1, <2>2 DEF ReadStore
<1>3. CASE CacheSet(r)
  BY <1>3, <1>r DEF CacheSet, Goto, Request, Retrieved, Steps, Key
<1>4. CASE CheckSchema(r)
  <2>1. CASE Finish(r, "refused")
    BY <1>4, <1>f, <2>1 DEF CheckSchema, Results
  <2>2. CASE req' = [req EXCEPT ![r].pol = req[r].doc, ![r].doc = NoPolicy,
                                ![r].overtaken = FALSE, ![r].pc = "get"]
    BY <1>4, <1>r, <2>2 DEF CheckSchema, Request, Steps, Stored
  <2> QED
    BY <1>4, <2>1, <2>2 DEF CheckSchema
<1>5. CASE Evaluate(r)
  <2>1. CASE Goto(r, "check")
    BY <1>5, <1>r, <2>1 DEF Evaluate, Goto, Request, Steps
  <2>2. CASE \E res \in Results : Finish(r, res)
    BY <1>5, <1>f, <2>2 DEF Evaluate
  <2> QED
    BY <1>5, <2>1, <2>2 DEF Evaluate, Results
<1>p. CASE PrepareQuery(r)
  <2>1. CASE Goto(r, "eval")
    BY <1>p, <1>r, <2>1 DEF PrepareQuery, Goto, Request, Steps
  <2>2. CASE \E res \in Results : Finish(r, res)
    BY <1>p, <1>f, <2>2 DEF PrepareQuery
  <2> QED
    BY <1>p, <2>1, <2>2 DEF PrepareQuery, Results
<1>6. CASE ValidateOutput(r)
  <2>1. CASE Goto(r, "lockinvalid")
    BY <1>6, <1>r, <2>1 DEF ValidateOutput, Goto, Request, Steps
  <2>2. CASE \E res \in Results : Finish(r, res)
    BY <1>6, <1>f, <2>2 DEF ValidateOutput
  <2> QED
    BY <1>6, <2>1, <2>2 DEF ValidateOutput, Results
<1>7. CASE LoadPolicy(r)
  <2>1. CASE Finish(r, "refused")
    BY <1>7, <1>f, <2>1 DEF LoadPolicy, Results
  <2>2. CASE Take(r, store[Key(r)], FALSE, "setlock")
    BY <1>7, <1>r, <2>2 DEF LoadPolicy, Take, Key, Request, Steps
  <2> QED
    BY <1>7, <2>1, <2>2 DEF LoadPolicy
<1>8. CASE RefuseLock(r)
  BY <1>8, <1>f DEF RefuseLock, Results
<1>9. CASE RejectBundle(r)
  BY <1>9, <1>f DEF RejectBundle, Results
<1>10. CASE StorageFails(r)
  BY <1>10, <1>f DEF StorageFails, Results
<1> QED
  BY <1>1, <1>2, <1>3, <1>4, <1>5, <1>6, <1>7, <1>8, <1>9, <1>10, <1>p
     DEF Quiet
-----------------------------------------------------------------------------
\* What such a step may do to the policy the handler holds: drop it, keep it, or
\* take the stored or the cached one.
Kept(r) ==
    /\ req'[r].doc = req[r].doc
    /\ req'[r].overtaken = req[r].overtaken

FromCache(r) ==
    /\ req'[r].doc = cache[req[r].inst][Key(r)]
    /\ Key(r) \in late[req[r].inst] => req'[r].overtaken

QuietShape(r) ==
    /\ store' = store
    /\ \A s \in Requests \ {r} : req'[s] = req[s]
    /\ req'[r].pc \in Holding => req'[r].doc # NoPolicy
    /\ \/ req'[r].doc = NoPolicy
       \/ /\ req'[r].inst = req[r].inst /\ req'[r].key = req[r].key
          /\ Kept(r) \/ FromCache(r) \/ req'[r].doc = store[Key(r)]

\* Every step of a handler that writes nothing has that shape, and fills the
\* cache with nothing but the policy it holds.
LEMMA QuietSteps ==
    ASSUME ServiceTypeOK, DocumentsHeld, NEW r \in Requests, Quiet(r) \/ StorageFails(r)
    PROVE  /\ QuietShape(r)
           /\ UNCHANGED <<cache, late>> \/ CacheSet(r)
<1> USE DEF ServiceTypeOK
<1>r. req[r] \in Request
  OBVIOUS
<1>h. req[r].pc \in Holding => req[r].doc # NoPolicy
  BY DEF DocumentsHeld
<1>f. ASSUME NEW res \in Results, Finish(r, res), store' = store PROVE QuietShape(r)
  <2>1. req' = [req EXCEPT ![r] = [Idle EXCEPT !.res = res]]
    BY <1>f DEF Finish
  <2>2. [Idle EXCEPT !.res = res].doc = NoPolicy /\ [Idle EXCEPT !.res = res].pc = "idle"
    BY DEF Idle
  <2> QED
    BY <1>f, <2>1, <2>2 DEF QuietShape, Holding
<1>g. ASSUME NEW step \in Steps, Goto(r, step), store' = store,
             step \in Holding => req[r].doc # NoPolicy
      PROVE  QuietShape(r)
  BY <1>g, <1>r DEF Goto, QuietShape, Kept, Request
<1>1. CASE CacheGet(r)
  <2> DEFINE d == cache[req[r].inst][Key(r)]
             o == Key(r) \in late[req[r].inst]
  <2>1. store' = store /\ UNCHANGED <<cache, late>>
    BY <1>1 DEF CacheGet
  <2>2. CASE d # NoPolicy /\ Take(r, d, o, Retrieved(r))
    <3>1. /\ req'[r].doc = d /\ req'[r].inst = req[r].inst
          /\ req'[r].key = req[r].key
          /\ \A s \in Requests \ {r} : req'[s] = req[s]
      BY <1>r, <2>2 DEF Take, Request
    <3>2. req'[r].overtaken = o
      BY <1>r, <2>2 DEF Take, Request
    <3> QED
      BY <2>1, <2>2, <3>1, <3>2 DEF QuietShape, FromCache
  <2>3. CASE Goto(r, "read")
    BY <1>g, <2>1, <2>3 DEF Holding, Steps
  <2> QED
    BY <1>1, <2>1, <2>2, <2>3 DEF CacheGet
<1>2. CASE ReadStore(r)
  BY <1>2, <1>r, <1>f DEF ReadStore, Take, QuietShape, Request, Key, Results
<1>3. CASE CacheSet(r)
  BY <1>3, <1>g, <1>h DEF CacheSet, Retrieved, Holding, Steps, At
<1>4. CASE CheckSchema(r)
  <2>1. CASE Finish(r, "refused")
    BY <1>4, <1>f, <2>1 DEF CheckSchema, Results
  <2>2. CASE req' = [req EXCEPT ![r].pol = req[r].doc, ![r].doc = NoPolicy,
                                ![r].overtaken = FALSE, ![r].pc = "get"]
    BY <1>4, <1>r, <2>2 DEF CheckSchema, QuietShape, Request, Holding
  <2> QED
    BY <1>4, <2>1, <2>2 DEF CheckSchema
<1>5. CASE Evaluate(r)
  BY <1>5, <1>f, <1>g, <1>h DEF Evaluate, At, Holding, Results, Steps
<1>p. CASE PrepareQuery(r)
  BY <1>p, <1>f, <1>g, <1>h DEF PrepareQuery, At, Holding, Results, Steps
<1>6. CASE ValidateOutput(r)
  BY <1>6, <1>f, <1>g, <1>h DEF ValidateOutput, At, Holding, Results, Steps
<1>7. CASE LoadPolicy(r)
  BY <1>7, <1>r, <1>f DEF LoadPolicy, Take, QuietShape, Request, Key, Results
<1>8. CASE RefuseLock(r)
  BY <1>8, <1>f DEF RefuseLock, Results
<1>9. CASE RejectBundle(r)
  BY <1>9, <1>f DEF RejectBundle, Results
<1>10. CASE StorageFails(r)
  BY <1>10, <1>f DEF StorageFails, Results
<1> QED
  BY <1>1, <1>2, <1>3, <1>4, <1>5, <1>6, <1>7, <1>8, <1>9, <1>10, <1>p
     DEF Quiet
-----------------------------------------------------------------------------
\* A writing step stores a document, and the handler returns.
LEMMA WriteSteps ==
    ASSUME ServiceTypeOK, DocumentsHeld, NEW r \in Requests, NEW result \in {"ok", "error"},
           Writes(r, result)
    PROVE  /\ \E d \in Document : store' = [store EXCEPT ![Key(r)] = d]
           /\ \E res \in Results : Finish(r, res)
           /\ UNCHANGED <<cache, late>>
<1> USE DEF ServiceTypeOK
<1>r. Key(r) \in Policies /\ store[Key(r)] \in Stored
  BY DEF Request, Key
<1>l. ASSUME NEW lock \in BOOLEAN, store[Key(r)] # NoPolicy, SetLocked(Key(r), lock)
      PROVE  \E d \in Document : store' = [store EXCEPT ![Key(r)] = d]
  <2>1. store[Key(r)] \in Document
    BY <1>r, <1>l DEF Stored
  <2>2. [store[Key(r)] EXCEPT !.locked = lock] \in Document
    BY <2>1 DEF Document
  <2>3. store' = [store EXCEPT ![Key(r)] = [store[Key(r)] EXCEPT !.locked = lock]]
    BY <1>l, <1>r DEF SetLocked
  <2> QED
    BY <2>2, <2>3
<1>h. req[r].pc \in Holding => store[Key(r)] # NoPolicy
  BY DEF DocumentsHeld
<1>1. CASE SetPolicyLock(r, result)
  <2>1. store[Key(r)] # NoPolicy
    BY <1>1, <1>h DEF SetPolicyLock, At, Holding
  <2>2. (req[r].op = "lock") \in BOOLEAN
    OBVIOUS
  <2>3. SetLocked(Key(r), req[r].op = "lock")
    BY <1>1 DEF SetPolicyLock
  <2>4. \E d \in Document : store' = [store EXCEPT ![Key(r)] = d]
    BY <1>l, <2>1, <2>2, <2>3
  <2> QED
    BY <1>1, <2>4 DEF SetPolicyLock, Results
<1>2. CASE LockInvalid(r)
  <2>1. store[Key(r)] # NoPolicy
    BY <1>2, <1>h DEF LockInvalid, At, Holding
  <2> QED
    BY <1>2, <1>l, <2>1 DEF LockInvalid, Results
<1>3. CASE \E d \in Document : SaveBundle(r, d, result)
  BY <1>3 DEF SaveBundle, Results
<1> QED
  BY <1>1, <1>2, <1>3 DEF Writes

\* The purge of an instance keeps the invariant's parts about handlers: it only
\* marks the policies they hold as overtaken.
LEMMA OvertakeKeeps ==
    ASSUME ServiceTypeOK, NEW i \in Instances, Overtake(i)
    PROVE  /\ req' \in [Requests -> Request]
           /\ \A r \in Requests :
                /\ req'[r].pc = req[r].pc /\ req'[r].doc = req[r].doc
                /\ req'[r].key = req[r].key /\ req'[r].inst = req[r].inst
                /\ IF req[r].inst = i /\ req[r].doc # NoPolicy
                   THEN req'[r].overtaken
                   ELSE req'[r] = req[r]
  BY DEF ServiceTypeOK, Overtake, Request

\* A request that arrives keeps the types, and the documents of the others.
LEMMA ArriveSteps ==
    ASSUME ServiceTypeOK, DocumentsHeld, NEW r \in Requests,
           NEW op \in Ops, NEW i \in Instances, NEW k \in Policies, Arrive(r, op, i, k)
    PROVE  /\ ServiceTypeOK' /\ DocumentsHeld'
           /\ req'[r].doc = NoPolicy /\ req'[r].pol = NoPolicy /\ req'[r].inst = i
           /\ req'[r].pc \notin Holding
           /\ \A s \in Requests \ {r} : req'[s] = req[s]
<1> DEFINE new == [Idle EXCEPT !.pc = FirstStep(op), !.op = op, !.inst = i, !.key = k]
<1>1. FirstStep(op) \in Steps \ Holding
  BY DEF FirstStep, Ops, Steps, Holding
<1>2. /\ new \in Request /\ new.doc = NoPolicy /\ new.inst = i /\ new.pc \notin Holding
      /\ new.pol = NoPolicy
  <2>1. Idle.pol = NoPolicy
    BY DEF Idle
  <2> QED
    BY <1>1, <2>1, IdleType DEF Request, Results
<1>3. req' = [req EXCEPT ![r] = new] /\ UNCHANGED <<store, cache, late>>
  BY DEF Arrive
<1> HIDE DEF new
<1> QED
  BY <1>2, <1>3 DEF ServiceTypeOK, DocumentsHeld, Key

\* No step of a handler that writes nothing makes a policy outlive its document.
LEMMA QuietHeld ==
    ASSUME ServiceTypeOK, DocumentsHeld, NEW r \in Requests, Quiet(r) \/ StorageFails(r)
    PROVE  DocumentsHeld'
<1>1. QuietShape(r) /\ (UNCHANGED <<cache, late>> \/ CacheSet(r))
  BY QuietSteps
<1>2. Key(r) \in Policies /\ req[r].inst \in Instances
  BY DEF ServiceTypeOK, Key, Request
<1>3. \A s \in Requests :
        /\ req'[s].pc \in Holding => req'[s].doc # NoPolicy
        /\ req'[s].doc # NoPolicy => store'[req'[s].key] # NoPolicy
  BY <1>1, <1>2 DEF DocumentsHeld, QuietShape, Kept, FromCache, Key
<1>4. ASSUME NEW i \in Instances, NEW k \in Policies, cache'[i][k] # NoPolicy
      PROVE  store'[k] # NoPolicy
  <2>1. CASE CacheSet(r)
    <3>1. cache'[i][k] = cache[i][k] \/ (k = Key(r) /\ cache'[i][k] = req[r].doc)
      BY <1>2, <2>1 DEF CacheSet, ServiceTypeOK
    <3> QED
      BY <1>1, <1>4, <3>1 DEF DocumentsHeld, QuietShape
  <2>2. CASE UNCHANGED cache
    BY <1>1, <1>4, <2>2 DEF DocumentsHeld, QuietShape
  <2> QED
    BY <1>1, <2>1, <2>2
<1> QED
  BY <1>3, <1>4 DEF DocumentsHeld, Key

\* A writing step keeps the types, and removes no document.
LEMMA WriteHeld ==
    ASSUME ServiceTypeOK, DocumentsHeld, NEW r \in Requests, NEW result \in {"ok", "error"},
           Writes(r, result)
    PROVE  ServiceTypeOK' /\ DocumentsHeld'
<1>1. PICK d \in Document : store' = [store EXCEPT ![Key(r)] = d]
  BY WriteSteps
<1>2. PICK res \in Results : Finish(r, res)
  BY WriteSteps
<1>3. UNCHANGED <<cache, late>>
  BY WriteSteps
<1> DEFINE new == [Idle EXCEPT !.res = res]
<1>4. new \in Request /\ new.doc = NoPolicy /\ new.pc \notin Holding
  BY IdleType DEF Idle, Holding
<1>5. req' = [req EXCEPT ![r] = new]
  BY <1>2 DEF Finish
<1> HIDE DEF new
<1>6. Key(r) \in Policies /\ d # NoPolicy
  BY ServiceAssumption DEF Key, Request, ServiceTypeOK
<1>7. ServiceTypeOK'
  BY <1>1, <1>3, <1>4, <1>5, <1>6 DEF ServiceTypeOK, Stored
<1>8. DocumentsHeld'
  BY <1>1, <1>3, <1>4, <1>5, <1>6 DEF DocumentsHeld, ServiceTypeOK, Key
<1> QED
  BY <1>7, <1>8

\* A purge keeps the types, and takes documents away only from the cache.
LEMMA PurgeHeld ==
    ASSUME ServiceTypeOK, DocumentsHeld, NEW i \in Instances, Purge(i)
    PROVE  ServiceTypeOK' /\ DocumentsHeld'
<1>1. Overtake(i) /\ store' = store
  BY DEF Purge
<1>2. ServiceTypeOK'
  BY <1>1, OvertakeKeeps DEF Purge, ServiceTypeOK, EmptyCache, Stored
<1>3. DocumentsHeld'
  BY <1>1, OvertakeKeeps DEF Purge, DocumentsHeld, Key, EmptyCache, ServiceTypeOK
<1> QED
  BY <1>2, <1>3

\* A handler passes prepareQuery only by its own step, with an unlocked policy.
LEMMA AdmittedQuietly ==
    ASSUME ServiceTypeOK, DocumentsHeld, NEW r \in Requests, NEW s \in Requests,
           Quiet(s) \/ StorageFails(s), Admitted(r)
    PROVE  req[r].doc # NoPolicy /\ ~req[r].doc.locked
<1>1. req[r].pc = "admit" /\ req'[r].pc # "admit"
  BY DEF Admitted, At
<1>2. req[r].doc # NoPolicy
  BY <1>1 DEF DocumentsHeld, Holding
<1>3. s = r
  BY <1>1, QuietSteps DEF QuietShape
<1>4. PrepareQuery(r)
  BY <1>1, <1>3 DEF Quiet, StorageFails, CacheGet, ReadStore, CacheSet, CheckSchema,
     Evaluate, ValidateOutput, LoadPolicy, RefuseLock, RejectBundle, At
<1>5. ASSUME Finish(r, "refused") PROVE FALSE
  BY <1>5 DEF Finish, Idle, Admitted, ServiceTypeOK
<1> QED
  BY <1>2, <1>4, <1>5 DEF PrepareQuery

\* Neither an arrival nor a write lets a handler pass.
LEMMA NotAdmitted ==
    ASSUME ServiceTypeOK, DocumentsHeld, NEW r \in Requests, NEW s \in Requests,
           \/ \E op \in Ops, i \in Instances, k \in Policies : Arrive(s, op, i, k)
           \/ \E result \in {"ok", "error"} : Writes(s, result)
    PROVE  ~Admitted(r)
<1> SUFFICES ASSUME Admitted(r) PROVE FALSE
  OBVIOUS
<1>1. req[r].pc = "admit" /\ req'[r].pc # "admit" /\ req \in [Requests -> Request]
  BY DEF Admitted, At, ServiceTypeOK
<1>2. ASSUME NEW op \in Ops, NEW i \in Instances, NEW k \in Policies, Arrive(s, op, i, k)
      PROVE  FALSE
  BY <1>1, <1>2 DEF Arrive, At
<1>3. ASSUME NEW result \in {"ok", "error"}, Writes(s, result) PROVE FALSE
  BY <1>1, <1>3 DEF Writes, SetPolicyLock, LockInvalid, SaveBundle, Finish, At
<1> QED
  BY <1>2, <1>3
-----------------------------------------------------------------------------
(* What a process sees of the documents, and the steps of the registry     *)
(* that the steps of the handlers map to.  None of these steps depends on  *)
(* whether the documents survive the process.                              *)

Contract == INSTANCE PolicyRegistry WITH
    Documents <- Document, Volatile <- FALSE, visible <- Visible, using <- Using

\* What a process sees is the stored document, its cache entry and what its
\* handlers hold.
LEMMA VisibleIs ==
    \A i \in Instances, k \in Policies : \A d :
        d \in Visible[i][k] <=>
            /\ d # NoPolicy
            /\ \/ d = store[k] \/ d = cache[i][k]
               \/ \E r \in Requests : /\ req[r].inst = i /\ req[r].key = k
                                      /\ d = req[r].doc \/ d = req[r].pol
  BY DEF Visible, Held, Key

\* The same after a step.
LEMMA VisibleIsNext ==
    \A i \in Instances, k \in Policies : \A d :
        d \in (Visible')[i][k] <=>
            /\ d # NoPolicy
            /\ \/ d = (store')[k] \/ d = (cache')[i][k]
               \/ \E r \in Requests : /\ (req')[r].inst = i /\ (req')[r].key = k
                                      /\ d = (req')[r].doc \/ d = (req')[r].pol
  BY DEF Visible, Held, Key

\* A step of r's local state that takes its documents from what its process sees.
KeepsSight(r) ==
    \/ req'[r].doc = NoPolicy /\ req'[r].pol = NoPolicy
    \/ /\ req'[r].inst = req[r].inst /\ req'[r].key = req[r].key
       /\ req'[r].doc \in {NoPolicy} \cup Visible[req[r].inst][req[r].key]
       /\ req'[r].pol \in {NoPolicy} \cup Visible[req[r].inst][req[r].key]

\* Processes only lose sight of documents when handlers and caches are filled from
\* what is seen already.
LEMMA SeesKept ==
    ASSUME ServiceTypeOK,
           \A i \in Instances, k \in Policies :
              cache'[i][k] \in {NoPolicy} \cup Visible[i][k],
           \A r \in Requests : KeepsSight(r)
    PROVE  Contract!Sees(store')
<1> SUFFICES ASSUME NEW i \in Instances, NEW k \in Policies
             PROVE  /\ Contract!Current(store', k) \subseteq Visible'[i][k]
                    /\ Visible'[i][k] \subseteq Visible[i][k] \cup Contract!Current(store', k)
  BY DEF Contract!Sees
<1>1. Contract!Current(store', k) \subseteq Visible'[i][k]
  BY VisibleIsNext DEF Contract!Current
<1>2. ASSUME NEW d \in Visible'[i][k] PROVE d \in Visible[i][k] \/ d = store'[k]
  <2>1. CASE d = cache'[i][k]
    BY <2>1, VisibleIsNext
  <2>2. ASSUME NEW r \in Requests, req'[r].inst = i, req'[r].key = k,
               d = req'[r].doc \/ d = req'[r].pol
        PROVE  d \in Visible[i][k]
    BY <2>2, VisibleIsNext DEF KeepsSight
  <2> QED
    BY <2>1, <2>2, VisibleIsNext
<1> QED
  BY <1>1, <1>2, VisibleIsNext DEF Contract!Current

(* What the steps of the handlers do to what their processes see.          *)

\* A handler that keeps its documents keeps its sight.
LEMMA Unmoved ==
    ASSUME ServiceTypeOK, NEW r \in Requests,
           req'[r].inst = req[r].inst, req'[r].key = req[r].key,
           req'[r].doc = req[r].doc, req'[r].pol = req[r].pol
    PROVE  KeepsSight(r)
<1>1. req[r].inst \in Instances /\ req[r].key \in Policies
  BY DEF ServiceTypeOK, Request
<1> QED
  BY <1>1, VisibleIs DEF KeepsSight

\* A handler that returns holds nothing.
LEMMA Returned ==
    ASSUME ServiceTypeOK, NEW r \in Requests, NEW res \in Results, Finish(r, res)
    PROVE  /\ req'[r].pc = "idle" /\ req'[r].doc = NoPolicy /\ req'[r].pol = NoPolicy
           /\ \A s \in Requests \ {r} : req'[s] = req[s]
<1>1. req' = [req EXCEPT ![r] = [Idle EXCEPT !.res = res]]
  BY DEF Finish
<1>2. /\ [Idle EXCEPT !.res = res].pc = "idle"
      /\ [Idle EXCEPT !.res = res].doc = NoPolicy /\ [Idle EXCEPT !.res = res].pol = NoPolicy
  BY DEF Idle
<1>3. req \in [Requests -> Request]
  BY DEF ServiceTypeOK
<1> QED
  BY <1>1, <1>2, <1>3

\* prepareQuery lets r pass.
Starts(r) == PrepareQuery(r) /\ Goto(r, "eval") /\ ~req[r].doc.locked

\* The steps of a handler that write nothing take documents only from what its
\* process sees, and only prepareQuery starts an evaluation.
LEMMA QuietSight ==
    ASSUME ServiceTypeOK, DocumentsHeld, NEW r \in Requests, Quiet(r) \/ StorageFails(r)
    PROVE  /\ KeepsSight(r)
           /\ req'[r].pc # "eval" \/ Starts(r)
<1>r. req \in [Requests -> Request] /\ req[r] \in Request
  BY DEF ServiceTypeOK
<1>k. req[r].inst \in Instances /\ req[r].key \in Policies
  BY <1>r DEF Request
<1>f. ASSUME NEW res \in Results, Finish(r, res)
      PROVE  KeepsSight(r) /\ req'[r].pc # "eval"
  BY <1>f, Returned DEF KeepsSight
<1>g. ASSUME NEW step \in Steps, Goto(r, step)
      PROVE  KeepsSight(r) /\ req'[r].pc = step
  <2>1. /\ req'[r].inst = req[r].inst /\ req'[r].key = req[r].key
        /\ req'[r].doc = req[r].doc /\ req'[r].pol = req[r].pol /\ req'[r].pc = step
    BY <1>r, <1>g DEF Goto, Request
  <2> QED
    BY <2>1, Unmoved
<1>t. ASSUME NEW d, NEW o, NEW step \in Steps, Take(r, d, o, step),
             d \in Visible[req[r].inst][req[r].key]
      PROVE  KeepsSight(r) /\ req'[r].pc = step
  <2>1. /\ req'[r].inst = req[r].inst /\ req'[r].key = req[r].key
        /\ req'[r].doc = d /\ req'[r].pol = req[r].pol /\ req'[r].pc = step
    BY <1>r, <1>t DEF Take, Request
  <2>2. req[r].pol \in {NoPolicy} \cup Visible[req[r].inst][req[r].key]
    BY <1>k, VisibleIs
  <2> QED
    BY <1>t, <2>1, <2>2 DEF KeepsSight
<1>1. CASE CacheGet(r)
  <2> DEFINE d == cache[req[r].inst][Key(r)]
             o == Key(r) \in late[req[r].inst]
  <2>1. Retrieved(r) \in Steps \ {"eval"}
    BY DEF Retrieved, Steps
  <2>2. CASE d # NoPolicy /\ Take(r, d, o, Retrieved(r))
    <3>1. d \in Visible[req[r].inst][req[r].key]
      BY <1>k, <2>2, VisibleIs DEF Key
    <3>2. Take(r, d, o, Retrieved(r))
      BY <2>2
    <3> HIDE DEF d, o
    <3> QED
      BY <1>t, <2>1, <3>1, <3>2
  <2>3. CASE Goto(r, "read")
    BY <1>g, <2>3 DEF Steps
  <2> QED
    BY <1>1, <2>2, <2>3 DEF CacheGet
<1>s. store[Key(r)] # NoPolicy => store[Key(r)] \in Visible[req[r].inst][req[r].key]
  BY <1>k, VisibleIs DEF Key
<1>2. CASE ReadStore(r) \/ LoadPolicy(r)
  <2>1. CASE Finish(r, "refused")
    BY <1>f, <2>1 DEF Results
  <2>2. CASE store[Key(r)] # NoPolicy /\ Take(r, store[Key(r)], FALSE, "fill")
    BY <1>t, <1>s, <2>2 DEF Steps
  <2>3. CASE store[Key(r)] # NoPolicy /\ Take(r, store[Key(r)], FALSE, "setlock")
    BY <1>t, <1>s, <2>3 DEF Steps
  <2> QED
    BY <1>2, <2>1, <2>2, <2>3 DEF ReadStore, LoadPolicy
<1>3. CASE CacheSet(r)
  BY <1>3, <1>g DEF CacheSet, Retrieved, Steps
<1>4. CASE CheckSchema(r)
  <2>1. CASE Finish(r, "refused")
    BY <1>f, <2>1 DEF Results
  <2>2. CASE req' = [req EXCEPT ![r].pol = req[r].doc, ![r].doc = NoPolicy,
                                ![r].overtaken = FALSE, ![r].pc = "get"]
    <3>1. /\ req'[r].inst = req[r].inst /\ req'[r].key = req[r].key
          /\ req'[r].doc = NoPolicy /\ req'[r].pol = req[r].doc /\ req'[r].pc = "get"
      BY <1>r, <2>2 DEF Request
    <3>2. req[r].doc \in {NoPolicy} \cup Visible[req[r].inst][req[r].key]
      BY <1>k, VisibleIs
    <3> QED
      BY <3>1, <3>2 DEF KeepsSight
  <2> QED
    BY <1>4, <2>1, <2>2 DEF CheckSchema
<1>5. CASE PrepareQuery(r)
  BY <1>5, <1>f, <1>g DEF PrepareQuery, Starts, Results, Steps
<1>6. CASE Evaluate(r) \/ ValidateOutput(r)
  BY <1>6, <1>f, <1>g DEF Evaluate, ValidateOutput, Results, Steps
<1>7. CASE RefuseLock(r) \/ RejectBundle(r) \/ StorageFails(r)
  BY <1>7, <1>f DEF RefuseLock, RejectBundle, StorageFails, Results
<1> QED
  BY <1>1, <1>2, <1>3, <1>4, <1>5, <1>6, <1>7 DEF Quiet

\* What any step of a handler that writes nothing does to the caches.
LEMMA QuietCache ==
    ASSUME ServiceTypeOK, NEW r \in Requests, UNCHANGED cache \/ CacheSet(r),
           NEW i \in Instances, NEW k \in Policies
    PROVE  cache'[i][k] \in {NoPolicy} \cup Visible[i][k]
<1>1. CASE UNCHANGED cache
  BY <1>1, VisibleIs
<1>2. CASE CacheSet(r)
  <2>1. cache' = [cache EXCEPT ![req[r].inst][Key(r)] = req[r].doc]
    BY <1>2 DEF CacheSet
  <2>2. \/ cache'[i][k] = cache[i][k]
        \/ req[r].inst = i /\ req[r].key = k /\ cache'[i][k] = req[r].doc
    BY <2>1 DEF ServiceTypeOK, Key
  <2> QED
    BY <2>2, VisibleIs
<1> QED
  BY <1>1, <1>2
-----------------------------------------------------------------------------
\* A step that writes nothing and starts no evaluation.
LEMMA Settles ==
    ASSUME ServiceTypeOK, store' = store,
           \A i \in Instances, k \in Policies :
              cache'[i][k] \in {NoPolicy} \cup Visible[i][k],
           \A r \in Requests : KeepsSight(r),
           \A r \in Requests : req'[r].pc = "eval" =>
              req[r].pc = "eval" /\ req'[r].doc = req[r].doc
    PROVE  Contract!Settle
<1>1. Contract!Sees(store')
  BY SeesKept
<1>2. \A r \in Requests : Using'[r] \in {Using[r], NoPolicy}
  BY DEF Using, At
<1> QED
  BY <1>1, <1>2 DEF Contract!Settle

\* A step that stores a document and starts no evaluation.
LEMMA Stores ==
    ASSUME ServiceTypeOK, NEW k \in Policies, NEW d \in Document,
           store' = [store EXCEPT ![k] = d], cache' = cache,
           \A r \in Requests : KeepsSight(r),
           Using' = Using
    PROVE  Contract!Write(k, d)
<1>1. \A i \in Instances, q \in Policies : cache'[i][q] \in {NoPolicy} \cup Visible[i][q]
  BY VisibleIs
<1>2. Contract!Sees(store')
  BY <1>1, SeesKept
<1> QED
  BY <1>2 DEF Contract!Write
-----------------------------------------------------------------------------
\* prepareQuery lets a handler pass: the registry admits the evaluation.
LEMMA StartAdmits ==
    ASSUME ServiceTypeOK, DocumentsHeld, NEW r \in Requests, Starts(r)
    PROVE  Contract!Admit(r)
<1>1. req \in [Requests -> Request] /\ req[r] \in Request
  BY DEF ServiceTypeOK
<1>2. /\ req[r].pc = "admit" /\ ~req[r].doc.locked
      /\ store' = store /\ cache' = cache
  BY DEF Starts, PrepareQuery, At
<1>3. \A s \in Requests :
        /\ req'[s].inst = req[s].inst /\ req'[s].key = req[s].key
        /\ req'[s].doc = req[s].doc /\ req'[s].pol = req[s].pol
        /\ req'[s].pc = IF s = r THEN "eval" ELSE req[s].pc
  BY <1>1 DEF Starts, Goto, Request
<1>4. req[r].doc # NoPolicy
  BY <1>2 DEF DocumentsHeld, Holding
<1>5. req[r].inst \in Instances /\ req[r].key \in Policies
  BY <1>1 DEF Request
<1>6. req[r].doc \in Visible[req[r].inst][req[r].key]
  BY <1>4, <1>5, VisibleIs
<1>7. Visible' = Visible
  <2>1. ASSUME NEW i \in Instances, NEW k \in Policies PROVE Held(i, k)' = Held(i, k)
    BY <1>3 DEF Held, Key
  <2> QED
    BY <1>2, <2>1 DEF Visible
<1>8. Using' = [Using EXCEPT ![r] = req[r].doc]
  BY <1>2, <1>3 DEF Using, At
<1>9. Using[r] = NoPolicy
  BY <1>2 DEF Using, At
<1> QED
  BY <1>2, <1>5, <1>6, <1>7, <1>8, <1>9 DEF Contract!Admit
-----------------------------------------------------------------------------
\* Every initial state maps to one of the registry.
LEMMA InitMaps == ServiceInit => Contract!Init
<1> SUFFICES ASSUME ServiceInit PROVE Contract!Init
  OBVIOUS
<1>1. /\ store \in [Policies -> Document \cup {NoPolicy}]
      /\ \A i \in Instances, k \in Policies : cache[i][k] = NoPolicy
      /\ \A r \in Requests : req[r].doc = NoPolicy /\ req[r].pol = NoPolicy
                                /\ req[r].pc = "idle"
  BY DEF ServiceInit, EmptyCache, Stored, Idle
<1>2. ASSUME NEW i \in Instances, NEW k \in Policies
      PROVE  Visible[i][k] = Contract!Current(store, k)
  <2>1. \A d : d \in Visible[i][k] <=> d # NoPolicy /\ d = store[k]
    BY <1>1, VisibleIs
  <2> QED
    BY <2>1 DEF Contract!Current
<1>3. Visible = [i \in Instances |-> [k \in Policies |-> Contract!Current(store, k)]]
  <2>1. Visible = [i \in Instances |-> [k \in Policies |-> Visible[i][k]]]
    BY DEF Visible
  <2> QED
    BY <1>2, <2>1
<1>4. Using = [r \in Requests |-> NoPolicy]
  BY <1>1 DEF Using, At
<1> QED
  BY <1>1, <1>3, <1>4 DEF Contract!Init

\* A request that arrives sees nothing new.
LEMMA ArriveSettles ==
    ASSUME ServiceTypeOK, DocumentsHeld, NEW r \in Requests,
           NEW op \in Ops, NEW i \in Instances, NEW k \in Policies, Arrive(r, op, i, k)
    PROVE  Contract!Settle
<1>1. store' = store /\ cache' = cache
  BY DEF Arrive
<1>2. /\ req'[r].doc = NoPolicy /\ req'[r].pol = NoPolicy
      /\ \A s \in Requests \ {r} : req'[s] = req[s]
  BY ArriveSteps
<1>3. req'[r].pc # "eval"
  BY ArriveSteps DEF Holding
<1>4. \A s \in Requests : KeepsSight(s)
  BY <1>2, Unmoved DEF KeepsSight
<1>5. \A j \in Instances, q \in Policies : cache'[j][q] \in {NoPolicy} \cup Visible[j][q]
  BY <1>1, VisibleIs
<1> QED
  BY <1>1, <1>2, <1>3, <1>4, <1>5, Settles

\* A step of a handler that writes nothing is one of the registry.
LEMMA QuietMaps ==
    ASSUME ServiceTypeOK, DocumentsHeld, NEW r \in Requests, Quiet(r) \/ StorageFails(r)
    PROVE  Contract!Settle \/ Contract!Admit(r)
<1>1. /\ store' = store
      /\ \A s \in Requests \ {r} : req'[s] = req[s]
      /\ UNCHANGED cache \/ CacheSet(r)
  BY QuietSteps DEF QuietShape
<1>2. KeepsSight(r) /\ (req'[r].pc # "eval" \/ Starts(r))
  BY QuietSight
<1>3. CASE Starts(r)
  BY <1>3, StartAdmits
<1>4. CASE req'[r].pc # "eval"
  <2>1. \A s \in Requests : KeepsSight(s)
    BY <1>1, <1>2, Unmoved
  <2>2. \A i \in Instances, k \in Policies : cache'[i][k] \in {NoPolicy} \cup Visible[i][k]
    BY <1>1, QuietCache
  <2> QED
    BY <1>1, <1>4, <2>1, <2>2, Settles
<1> QED
  BY <1>2, <1>3, <1>4

\* A writing step writes in the registry.
LEMMA WriteMaps ==
    ASSUME ServiceTypeOK, DocumentsHeld, NEW r \in Requests, NEW result \in {"ok", "error"},
           Writes(r, result)
    PROVE  \E k \in Policies, d \in Document : Contract!Write(k, d)
<1>1. PICK d \in Document : store' = [store EXCEPT ![Key(r)] = d]
  BY WriteSteps
<1>2. PICK res \in Results : Finish(r, res)
  BY WriteSteps
<1>3. cache' = cache /\ Key(r) \in Policies
  BY WriteSteps DEF Key, Request, ServiceTypeOK
<1>4. /\ req'[r].pc = "idle" /\ req'[r].doc = NoPolicy /\ req'[r].pol = NoPolicy
      /\ \A s \in Requests \ {r} : req'[s] = req[s]
  BY <1>2, Returned
<1>5. \A s \in Requests : KeepsSight(s)
  BY <1>4, Unmoved DEF KeepsSight
<1>6. req[r].pc # "eval"
  BY DEF Writes, SetPolicyLock, LockInvalid, SaveBundle, At
<1>7. Using' = Using
  BY <1>4, <1>6 DEF Using, At
<1> QED
  BY <1>1, <1>3, <1>5, <1>7, Stores

\* The purge of a cache, and what is overtaken when a listener starts, only make a
\* process lose sight of replaced documents.
LEMMA PurgeSettles ==
    ASSUME ServiceTypeOK, NEW i \in Instances, Overtake(i), store' = store,
           cache' = cache \/ cache' = [cache EXCEPT ![i] = EmptyCache]
    PROVE  Contract!Settle
<1>1. \A r \in Requests : /\ req'[r].pc = req[r].pc /\ req'[r].doc = req[r].doc
                          /\ req'[r].key = req[r].key /\ req'[r].inst = req[r].inst
                          /\ req'[r].pol = req[r].pol
  BY DEF Overtake, Request, ServiceTypeOK
<1>2. \A r \in Requests : KeepsSight(r)
  BY <1>1, Unmoved
<1>3. \A j \in Instances, k \in Policies : cache'[j][k] \in {NoPolicy, cache[j][k]}
  BY DEF EmptyCache, ServiceTypeOK
<1>4. \A j \in Instances, k \in Policies : cache'[j][k] \in {NoPolicy} \cup Visible[j][k]
  BY <1>3, VisibleIs
<1> QED
  BY <1>1, <1>2, <1>4, Settles

\* What changes neither the storage, nor a cache, nor a handler is not seen.
LEMMA Unseen ==
    ASSUME UNCHANGED <<store, cache, req>>
    PROVE  UNCHANGED Contract!vars
  BY DEF Contract!vars, Visible, Held, Using, Key, At
=============================================================================
