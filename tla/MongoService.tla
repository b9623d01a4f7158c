---------------------------- MODULE MongoService ----------------------------
(***************************************************************************)
(* The policy service over the MongoDB storage                             *)
(* (internal/storage/mongodb/storage.go).  Every instance has a cache of   *)
(* its own and a listener that purges it for each event of the change      *)
(* stream of the policy collection; all instances, the sync process and    *)
(* the background jobs share the collection.                               *)
(***************************************************************************)
EXTENDS PolicyService, Naturals

CONSTANT MaxBacklog     \* bound: no new writes beyond so many undelivered events

ASSUME BacklogAssumption == MaxBacklog \in Nat \ {0}

(***************************************************************************)
(* status[i] is the state of the run group of cmd/policy/main.go:          *)
(*   starting  the server accepts requests, the stream is not open yet     *)
(*   serving   the listener reads the stream                               *)
(*   stopping  the listener returned an error: the group's context is      *)
(*             cancelled, requests in progress finish, no new ones         *)
(*   deaf      the listener returned nil: the server goes on without it    *)
(* pending[i] counts the stream's events the listener has not yet read.    *)
(***************************************************************************)
VARIABLES status, pending

mongoVars == <<store, cache, req, late, status, pending>>

Statuses == {"starting", "serving", "stopping", "deaf"}

TypeOK ==
    /\ ServiceTypeOK
    /\ status \in [Instances -> Statuses]
    /\ pending \in [Instances -> Nat]

MongoInit ==
    /\ ServiceInit
    /\ status = [i \in Instances |-> "starting"]
    /\ pending = [i \in Instances |-> 0]
-----------------------------------------------------------------------------
Serving(i) == status[i] = "serving"

\* Mutant: the change stream does not report updates.
PublishNothing == UNCHANGED pending

\* A committed write appears in every open change stream: each write sets
\* lastUpdate or nextDataRefreshTime, so none is a no-op.
Publish ==
    pending' = [i \in Instances |-> IF Serving(i) THEN pending[i] + 1 ELSE pending[i]]

RoomForWrites == \A i \in Instances : pending[i] < MaxBacklog

Accept(r) ==
    \E op \in Ops, i \in Instances, k \in Policies :
        /\ status[i] # "stopping"
        /\ op # "evaluate" => RoomForWrites
        /\ Arrive(r, op, i, k)
        /\ UNCHANGED <<status, pending>>

Handle(r) ==
    \/ /\ Quiet(r) \/ StorageFails(r)
       /\ UNCHANGED <<status, pending>>
    \/ /\ \E result \in {"ok", "error"} : Writes(r, result)
       /\ Publish
       /\ UNCHANGED status

\* The sync process, the data refresher and the bundle importer write
\* documents too, as does any other client of the database.
ExternalWrite(k, d) ==
    /\ RoomForWrites
    /\ store' = [store EXCEPT ![k] = d]
    /\ Publish
    /\ UNCHANGED <<cache, req, late, status>>
-----------------------------------------------------------------------------
(* ListenPolicyDataChanges.                                                *)

\* The stream starts at the moment it is opened: what was read before it is
\* covered by no event.
OpenStream(i) ==
    /\ status[i] = "starting"
    /\ status' = [status EXCEPT ![i] = "serving"]
    /\ Overtake(i)
    /\ late' = [late EXCEPT ![i] = {k \in Policies : cache[i][k] # NoPolicy}]
    /\ UNCHANGED <<store, cache, pending>>

Deliver(i) ==
    /\ Serving(i)
    /\ pending[i] > 0
    /\ pending' = [pending EXCEPT ![i] = @ - 1]
    /\ Purge(i)
    /\ UNCHANGED status

\* Watch, Next or Decode fails; the run group shuts the server down.
StreamFails(i) ==
    /\ status[i] \in {"starting", "serving"}
    /\ status' = [status EXCEPT ![i] = "stopping"]
    /\ pending' = [pending EXCEPT ![i] = 0]
    /\ UNCHANGED serviceVars

\* Next returns false without an error when the server closed the cursor.
StreamCloses(i) ==
    /\ Serving(i)
    /\ pending[i] = 0
    /\ status' = [status EXCEPT ![i] = "deaf"]
    /\ UNCHANGED <<serviceVars, pending>>

\* The process exits or crashes and is started again.
Restart(i) ==
    /\ status' = [status EXCEPT ![i] = "starting"]
    /\ pending' = [pending EXCEPT ![i] = 0]
    /\ cache' = [cache EXCEPT ![i] = EmptyCache]
    /\ late' = [late EXCEPT ![i] = {}]
    /\ req' = [r \in Requests |-> IF req[r].inst = i THEN Idle ELSE req[r]]
    /\ UNCHANGED store
-----------------------------------------------------------------------------
MongoNext ==
    \/ \E r \in Requests : Accept(r) \/ Handle(r)
    \/ \E k \in Policies, d \in Document : ExternalWrite(k, d)
    \/ \E i \in Instances :
         \/ OpenStream(i) \/ Deliver(i) \/ StreamFails(i)
         \/ StreamCloses(i) \/ Restart(i)

MongoSafety == MongoInit /\ [][MongoNext]_mongoVars

\* Handlers run to completion, and the listener of a running instance reads
\* on.  Requests, writes, failures and restarts need not happen.
MongoFairness ==
    /\ \A r \in Requests : WF_mongoVars(Handle(r))
    /\ \A i \in Instances : WF_mongoVars(Deliver(i)) /\ WF_mongoVars(OpenStream(i))

MongoSpec == MongoSafety /\ MongoFairness
-----------------------------------------------------------------------------
\* An entry of a serving instance that differs from the storage has an event
\* on its way that will purge it, unless it was filled with a snapshot that a
\* purge had already overtaken (retrievePolicy sets what it read, whatever
\* PolicyDataChange did in between).
CacheFresh ==
    \A i \in Instances, k \in Policies :
        Serving(i) /\ k \notin late[i] /\ cache[i][k] \notin {NoPolicy, store[k]}
            => pending[i] > 0

\* The same of the policies the handlers hold between retrieving and using one:
\* this is what makes CacheFresh survive CacheSet.
SnapshotFresh ==
    \A r \in Requests :
        Serving(req[r].inst) /\ ~req[r].overtaken
        /\ req[r].doc \notin {NoPolicy, store[Key(r)]}
            => pending[req[r].inst] > 0

\* A locked policy is evaluated only by a handler whose instance still has to
\* hear of the lock, whose snapshot was overtaken by a purge, or whose
\* instance has no listener.
LockRespected ==
    [][\A r \in Requests :
         Admitted(r) /\ store[Key(r)].locked =>
            \/ req[r].overtaken
            \/ ~Serving(req[r].inst)
            \/ pending[req[r].inst] > 0]_mongoVars

Registry == INSTANCE PolicyRegistry WITH
    Documents <- Document, Volatile <- FALSE, visible <- Visible, using <- Using

\* The caches, streams and handlers of all processes together implement the
\* registry: retrievePolicy hands prepareQuery only documents that were stored
\* under the policy and that the process has not lost sight of, and only
\* unlocked ones are evaluated.
ImplementsRegistry == Registry!Spec

\* Once a document stays as it is, every serving instance without a late entry
\* for it ends up evaluating exactly that document.
Converges ==
    \A i \in Instances, k \in Policies, d \in Document :
        <>[](store[k] = d /\ Serving(i) /\ k \notin late[i])
            => <>[](\A r \in Requests :
                      At(r, "admit") /\ req[r].inst = i /\ Key(r) = k
                          => req[r].doc = d)

\* Instance i listens, has nothing cached and handles no request.
Quiescent(i) ==
    /\ Serving(i)
    /\ cache[i] = EmptyCache
    /\ \A r \in Requests : req[r].pc = "idle"

\* README.md, Policy Locking: "Locking a policy means that it's not allowed for
\* evaluation (execution)".  Once a policy stays locked, an instance that keeps
\* listening from a quiescent state on stops evaluating it.
LockStopsEvaluation ==
    \A i \in Instances, k \in Policies :
        <>(Quiescent(i) /\ []Serving(i))
        /\ <>[](store[k] # NoPolicy /\ store[k].locked)
            => <>[](\A r \in Requests :
                      At(r, "admit") /\ req[r].inst = i /\ Key(r) = k
                          => req[r].doc.locked)

\* internal/config/config.go: "LockOnValidationFailure indicates whether a policy
\* must be locked for execution if the policy output fails the schema validation".  When Validate answers that
\* the output is invalid without trying to lock, the policy is locked already.
ValidationFailureLocks ==
    [][\A r \in Requests :
         ValidationLock /\ At(r, "check") /\ req'[r].res = "invalid"
             => store[Key(r)].locked]_mongoVars
=============================================================================
