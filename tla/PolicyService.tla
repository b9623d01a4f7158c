--------------------------- MODULE PolicyService ---------------------------
(***************************************************************************)
(* The request handlers of the policy service                              *)
(* (internal/service/policy/service.go) and the policy cache they share    *)
(* (internal/regocache/regocache.go), over a policy storage.               *)
(*                                                                         *)
(* A handler runs in its own goroutine.  Every access it makes to the      *)
(* cache or to the storage is one step, so the steps of any two handlers   *)
(* interleave.  What a storage does to announce a write differs between    *)
(* the two storages; the steps that write therefore leave the announcement *)
(* to the modules MongoService and MemoryService, which conjoin it.        *)
(*                                                                         *)
(* A policy document is abstracted to its lock flag and a revision: the    *)
(* revision stands for the Rego source, the static data, the output schema *)
(* and the configurations, which are only ever replaced together here.     *)
(***************************************************************************)
CONSTANTS
    Policies,       \* identities: repository, group, name and version
    Instances,      \* running processes of the policy service
    Requests,       \* slots for requests in progress
    Revisions,      \* contents of a policy document
    Schemas,        \* the revisions that carry an output schema
    ValidationLock, \* cfg.Policy.LockOnValidationFailure
    NoPolicy        \* no document, no cache entry

Document == [locked : BOOLEAN, rev : Revisions]

ASSUME ServiceAssumption ==
    /\ Policies # {} /\ Instances # {}
    /\ Schemas \subseteq Revisions
    /\ ValidationLock \in BOOLEAN
    /\ NoPolicy \notin Document

Stored == Document \cup {NoPolicy}

Ops == {"evaluate", "validate", "lock", "unlock", "import"}

\* Where a handler stands: the access or the decision it makes next.
Steps == {"idle", "get", "read", "fill", "schema", "admit", "eval",
          "check", "lockinvalid", "load", "setlock", "save"}

\* What the last request of a slot was answered: "refused" stands for the
\* NotFound, Forbidden and BadRequest errors a handler decides on, "invalid"
\* for an output that fails the schema, "error" for every other failure.
Results == {"none", "ok", "error", "refused", "invalid"}

(***************************************************************************)
(* req[r].doc is the policy the handler last retrieved and req[r].pol the  *)
(* one Validate retrieved first, whose schema and lock flag it uses later. *)
(*                                                                         *)
(* Two history variables say when a snapshot escapes the purge that should *)
(* have removed it.  req[r].overtaken: since the handler took its doc, the *)
(* cache of its instance was purged (or had no listener yet).  late[i]:    *)
(* the entries of cache[i] that were filled with such a doc.               *)
(***************************************************************************)
VARIABLES
    store,      \* the policy collection
    cache,      \* regocache of every instance
    req,        \* the handlers
    late        \* history: entries filled with an overtaken snapshot

serviceVars == <<store, cache, req, late>>

Request == [pc : Steps, op : Ops, inst : Instances, key : Policies,
            pol : Stored, doc : Stored, overtaken : BOOLEAN, res : Results]

\* A free slot; its fields other than pc and res carry no meaning.
Idle == [pc |-> "idle", op |-> "evaluate", inst |-> CHOOSE i \in Instances : TRUE,
         key |-> CHOOSE k \in Policies : TRUE, pol |-> NoPolicy,
         doc |-> NoPolicy, overtaken |-> FALSE, res |-> "none"]

ServiceTypeOK ==
    /\ store \in [Policies -> Stored]
    /\ cache \in [Instances -> [Policies -> Stored]]
    /\ req \in [Requests -> Request]
    /\ late \in [Instances -> SUBSET Policies]

EmptyCache == [k \in Policies |-> NoPolicy]

ServiceInit ==
    /\ store \in [Policies -> Stored]
    /\ cache = [i \in Instances |-> EmptyCache]
    /\ req = [r \in Requests |-> Idle]
    /\ late = [i \in Instances |-> {}]
-----------------------------------------------------------------------------
At(r, step) == req[r].pc = step

Key(r) == req[r].key

Goto(r, step) == req' = [req EXCEPT ![r].pc = step]

\* The handler takes snapshot d of its policy, o saying whether d is already
\* overtaken, and continues at step.
Take(r, d, o, step) ==
    req' = [req EXCEPT ![r].doc = d, ![r].overtaken = o, ![r].pc = step]

\* The handler returns and its local state is gone.
Finish(r, result) == req' = [req EXCEPT ![r] = [Idle EXCEPT !.res = result]]

\* Mutant: the update replaces the document instead of setting its flag.
SetLockedReplaces(k, lock) == store' = [store EXCEPT ![k] = [locked |-> lock]]

SetLocked(k, lock) == store' = [store EXCEPT ![k].locked = lock]

FirstStep(op) ==
    CASE op \in {"evaluate", "validate"} -> "get"
      [] op \in {"lock", "unlock"} -> "load"
      [] op = "import" -> "save"

Arrive(r, op, i, k) ==
    /\ At(r, "idle")
    /\ req' = [req EXCEPT ![r] = [Idle EXCEPT !.pc = FirstStep(op), !.op = op,
                                              !.inst = i, !.key = k]]
    /\ UNCHANGED <<store, cache, late>>
-----------------------------------------------------------------------------
(* retrievePolicy, called once by Evaluate and twice by Validate.          *)

\* Validate's first retrieval is for the schema, every other is for the query.
Retrieved(r) ==
    IF req[r].op = "validate" /\ req[r].pol = NoPolicy THEN "schema" ELSE "admit"

CacheGet(r) ==
    LET i == req[r].inst
        d == cache[i][Key(r)]
    IN  /\ At(r, "get")
        /\ IF d # NoPolicy
           THEN Take(r, d, Key(r) \in late[i], Retrieved(r))
           ELSE Goto(r, "read")
        /\ UNCHANGED <<store, cache, late>>

\* Mutant: a NotFound error is taken for a policy.
ReadStoreNotFoundIgnored(r) ==
    /\ At(r, "read")
    /\ Take(r, store[Key(r)], FALSE, "fill")
    /\ UNCHANGED <<store, cache, late>>

ReadStore(r) ==
    /\ At(r, "read")
    /\ \/ /\ store[Key(r)] # NoPolicy
          /\ Take(r, store[Key(r)], FALSE, "fill")
       \/ /\ store[Key(r)] = NoPolicy
          /\ Finish(r, "refused")
    /\ UNCHANGED <<store, cache, late>>

\* Mutant: the cache keeps the source of a policy but not its lock.
CacheSetUnlocked(r) ==
    LET i == req[r].inst
    IN  /\ At(r, "fill")
        /\ cache' = [cache EXCEPT ![i][Key(r)] = [req[r].doc EXCEPT !.locked = FALSE]]
        /\ late' = [late EXCEPT ![i] = IF req[r].overtaken THEN @ \cup {Key(r)}
                                                           ELSE @ \ {Key(r)}]
        /\ Goto(r, Retrieved(r))
        /\ UNCHANGED store

CacheSet(r) ==
    LET i == req[r].inst
    IN  /\ At(r, "fill")
        /\ cache' = [cache EXCEPT ![i][Key(r)] = req[r].doc]
        /\ late' = [late EXCEPT ![i] = IF req[r].overtaken THEN @ \cup {Key(r)}
                                                           ELSE @ \ {Key(r)}]
        /\ Goto(r, Retrieved(r))
        /\ UNCHANGED store
-----------------------------------------------------------------------------
(* Evaluate and Validate.                                                  *)

\* Validate keeps the policy it retrieved and calls Evaluate.
CheckSchema(r) ==
    /\ At(r, "schema")
    /\ IF req[r].doc.rev \notin Schemas
       THEN Finish(r, "refused")
       ELSE req' = [req EXCEPT ![r].pol = req[r].doc, ![r].doc = NoPolicy,
                               ![r].overtaken = FALSE, ![r].pc = "get"]
    /\ UNCHANGED <<store, cache, late>>

\* Mutant: prepareQuery does not look at the lock.
PrepareQueryUnlocked(r) ==
    /\ At(r, "admit")
    /\ Finish(r, "error") \/ Goto(r, "eval")
    /\ UNCHANGED <<store, cache, late>>

\* The lock check of prepareQuery; building and preparing the query may fail.
PrepareQuery(r) ==
    /\ At(r, "admit")
    /\ \/ req[r].doc.locked /\ Finish(r, "refused")
       \/ ~req[r].doc.locked /\ (Finish(r, "error") \/ Goto(r, "eval"))
    /\ UNCHANGED <<store, cache, late>>

\* The evaluation may fail, and so may storing the result in the cache service.
\* Validate goes on with the result, Evaluate answers it.
Evaluate(r) ==
    /\ At(r, "eval")
    /\ \/ Finish(r, "error")
       \/ req[r].op = "evaluate" /\ Finish(r, "ok")
       \/ req[r].op = "validate" /\ Goto(r, "check")
    /\ UNCHANGED <<store, cache, late>>

\* The output is checked against the schema of the first retrieval.  lock(pol)
\* refuses when that same retrieval saw the policy locked, which Validate logs.
ValidateOutput(r) ==
    /\ At(r, "check")
    /\ \/ Finish(r, "ok")
       \/ Finish(r, "error")
       \/ /\ ValidationLock /\ ~req[r].pol.locked
          /\ Goto(r, "lockinvalid")
       \/ /\ ~(ValidationLock /\ ~req[r].pol.locked)
          /\ Finish(r, "invalid")
    /\ UNCHANGED <<store, cache, late>>

LockInvalid(r) ==
    /\ At(r, "lockinvalid")
    /\ SetLocked(Key(r), TRUE)
    /\ Finish(r, "invalid")
    /\ UNCHANGED <<cache, late>>
-----------------------------------------------------------------------------
(* Lock and Unlock read the storage, not the cache, and decide on that read. *)

LoadPolicy(r) ==
    /\ At(r, "load")
    /\ \/ /\ store[Key(r)] # NoPolicy
          /\ Take(r, store[Key(r)], FALSE, "setlock")
       \/ /\ store[Key(r)] = NoPolicy
          /\ Finish(r, "refused")
    /\ UNCHANGED <<store, cache, late>>

RefuseLock(r) ==
    /\ At(r, "setlock")
    /\ req[r].doc.locked = (req[r].op = "lock")
    /\ Finish(r, "refused")
    /\ UNCHANGED <<store, cache, late>>

\* An update that reached the storage may still be reported as failed.
SetPolicyLock(r, result) ==
    /\ At(r, "setlock")
    /\ req[r].doc.locked # (req[r].op = "lock")
    /\ SetLocked(Key(r), req[r].op = "lock")
    /\ Finish(r, result)
    /\ UNCHANGED <<cache, late>>
-----------------------------------------------------------------------------
(* ImportBundle writes the document it finds in a verified bundle.         *)

RejectBundle(r) ==
    /\ At(r, "save")
    /\ \E result \in {"refused", "error"} : Finish(r, result)
    /\ UNCHANGED <<store, cache, late>>

SaveBundle(r, d, result) ==
    /\ At(r, "save")
    /\ store' = [store EXCEPT ![Key(r)] = d]
    /\ Finish(r, result)
    /\ UNCHANGED <<cache, late>>

\* The storage fails without effect.  A failed lock after a validation failure
\* is only logged.
StorageFails(r) ==
    /\ \/ /\ req[r].pc \in {"read", "load"}
          /\ Finish(r, "error")
       \/ /\ At(r, "setlock")
          /\ req[r].doc.locked # (req[r].op = "lock")
          /\ Finish(r, "error")
       \/ /\ At(r, "lockinvalid")
          /\ Finish(r, "invalid")
    /\ UNCHANGED <<store, cache, late>>
-----------------------------------------------------------------------------
\* Every handler of instance i that holds a snapshot has been overtaken.
Overtake(i) ==
    req' = [r \in Requests |->
              IF req[r].inst = i /\ req[r].doc # NoPolicy
              THEN [req[r] EXCEPT !.overtaken = TRUE]
              ELSE req[r]]

\* Mutant: the listener runs, but the cache keeps its entries.
PurgeNothing(i) ==
    /\ late' = [late EXCEPT ![i] = {}]
    /\ Overtake(i)
    /\ UNCHANGED <<store, cache>>

\* PolicyDataChange of the cache, called by the storage's listener: any change
\* purges every entry.
Purge(i) ==
    /\ cache' = [cache EXCEPT ![i] = EmptyCache]
    /\ late' = [late EXCEPT ![i] = {}]
    /\ Overtake(i)
    /\ UNCHANGED store

\* The steps of a handler that write nothing to the storage, and those that do.
Quiet(r) ==
    \/ CacheGet(r) \/ ReadStore(r) \/ CacheSet(r) \/ CheckSchema(r)
    \/ PrepareQuery(r) \/ Evaluate(r) \/ ValidateOutput(r)
    \/ LoadPolicy(r) \/ RefuseLock(r) \/ RejectBundle(r)

Writes(r, result) ==
    \/ SetPolicyLock(r, result)
    \/ LockInvalid(r)
    \/ \E d \in Document : SaveBundle(r, d, result)

\* prepareQuery lets r pass in this step.
Admitted(r) == At(r, "admit") /\ req'[r].pc = "eval"
-----------------------------------------------------------------------------
\* A handler that is about to use a policy has one, and neither a handler nor a
\* cache holds a policy the storage has lost: SetPolicyLock always finds the
\* document that lock and Unlock decided on.
Holding == {"fill", "schema", "admit", "eval", "check", "lockinvalid", "setlock"}

DocumentsHeld ==
    /\ \A r \in Requests :
         /\ req[r].pc \in Holding => req[r].doc # NoPolicy
         /\ req[r].doc # NoPolicy => store[Key(r)] # NoPolicy
    /\ \A i \in Instances, k \in Policies :
         cache[i][k] # NoPolicy => store[k] # NoPolicy
-----------------------------------------------------------------------------
(* What of this state a caller can tell: the refinement mapping to         *)
(* PolicyRegistry.                                                         *)

\* The copies of k that a handler of instance i holds.
Held(i, k) ==
    UNION {{req[r].doc, req[r].pol} : r \in {q \in Requests : req[q].inst = i /\ Key(q) = k}}

Visible ==
    [i \in Instances |-> [k \in Policies |->
        ({store[k], cache[i][k]} \cup Held(i, k)) \ {NoPolicy}]]

Using == [r \in Requests |-> IF At(r, "eval") THEN req[r].doc ELSE NoPolicy]
=============================================================================
