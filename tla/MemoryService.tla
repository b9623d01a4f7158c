---------------------------- MODULE MemoryService ----------------------------
(***************************************************************************)
(* The policy service over the in-memory storage                           *)
(* (internal/storage/memory/storage.go): one process, whose policies live  *)
(* in a map filled from a clone when it starts.  A write starts a          *)
(* goroutine that offers the change on an unbuffered channel and gives up  *)
(* when the request's context ends or after ten seconds; the listener      *)
(* takes changes from the channel and purges the cache.                    *)
(***************************************************************************)
EXTENDS PolicyService

Process == CHOOSE i \in Instances : TRUE

ASSUME SingleProcess == Instances = {Process}

VARIABLES
    listening,  \* the goroutine of ListenPolicyDataChanges has started
    sender,     \* the changes offered on the channel, by the writing request
    lost        \* history: a change was given up since the last purge

memoryVars == <<store, cache, req, late, listening, sender, lost>>

MemoryTypeOK ==
    /\ ServiceTypeOK
    /\ listening \in BOOLEAN
    /\ sender \subseteq Requests
    /\ lost \in BOOLEAN

\* createPolicy of the cloner leaves every policy unlocked.
Cloned == {d \in Document : ~d.locked} \cup {NoPolicy}

MemoryInit ==
    /\ ServiceInit
    /\ store \in [Policies -> Cloned]
    /\ listening = FALSE
    /\ sender = {}
    /\ lost = FALSE
-----------------------------------------------------------------------------
\* A slot is free once the goroutine its last request left behind has ended.
Accept(r) ==
    /\ r \notin sender
    /\ \E op \in Ops, k \in Policies : Arrive(r, op, Process, k)
    /\ UNCHANGED <<listening, sender, lost>>

\* A write to the map never fails, and SetPolicyLock finds the policy the
\* handler read before: nothing removes one.
Handle(r) ==
    \/ /\ Quiet(r)
       /\ UNCHANGED <<listening, sender, lost>>
    \/ /\ Writes(r, "ok")
       /\ sender' = sender \cup {r}
       /\ UNCHANGED <<listening, lost>>
-----------------------------------------------------------------------------
Listen ==
    /\ ~listening
    /\ listening' = TRUE
    /\ UNCHANGED <<serviceVars, sender, lost>>

\* The listener receives the change of r.
SendChange(r) ==
    /\ r \in sender /\ listening
    /\ sender' = sender \ {r}
    /\ lost' = FALSE
    /\ Purge(Process)
    /\ UNCHANGED listening

\* <-ctx.Done() or the timer.  The handler returns after the write and the server
\* then cancels the request's context; select picks any ready case, so this may
\* win although the listener is ready to receive.
GiveUp(r) ==
    /\ r \in sender
    /\ sender' = sender \ {r}
    /\ lost' = TRUE
    /\ UNCHANGED <<serviceVars, listening>>

\* The process exits and is started again with the policies of a new clone.
Restart ==
    /\ store' \in [Policies -> Cloned]
    /\ cache' = [i \in Instances |-> EmptyCache]
    /\ req' = [r \in Requests |-> Idle]
    /\ late' = [i \in Instances |-> {}]
    /\ listening' = FALSE
    /\ sender' = {}
    /\ lost' = FALSE
-----------------------------------------------------------------------------
MemoryNext ==
    \/ \E r \in Requests : Accept(r) \/ Handle(r) \/ SendChange(r) \/ GiveUp(r)
    \/ Listen
    \/ Restart

MemorySafety == MemoryInit /\ [][MemoryNext]_memoryVars

\* Handlers run to completion, the listener starts, and a goroutine that offers
\* a change ends one way or the other.
MemorySpec ==
    /\ MemorySafety
    /\ WF_memoryVars(Listen)
    /\ \A r \in Requests : /\ WF_memoryVars(Handle(r))
                           /\ WF_memoryVars(SendChange(r) \/ GiveUp(r))
-----------------------------------------------------------------------------
\* An entry that differs from the map has a change on offer that will purge it,
\* unless the goroutine of SavePolicy or SetPolicyLock gave a change up since
\* the last purge, or the entry was filled with an overtaken snapshot.
ChangeAnnounced ==
    \A k \in Policies :
        k \notin late[Process] /\ cache[Process][k] \notin {NoPolicy, store[k]}
            => sender # {} \/ lost

\* The same of the policies the handlers hold: what retrievePolicy will put into
\* the cache differs from the map only while the goroutine of the write still
\* offers its change, after one was given up, or behind a purge.
SnapshotAnnounced ==
    \A r \in Requests :
        ~req[r].overtaken /\ req[r].doc \notin {NoPolicy, store[Key(r)]}
            => sender # {} \/ lost

\* A handler of the single process evaluates a locked policy only while the
\* change is on offer, after one was given up, or with an overtaken snapshot.
MemoryLockRespected ==
    [][\A r \in Requests :
         Admitted(r) /\ store[Key(r)].locked
            => req[r].overtaken \/ sender # {} \/ lost]_memoryVars

Registry == INSTANCE PolicyRegistry WITH
    Documents <- Document, Volatile <- TRUE, visible <- Visible, using <- Using

\* The map, the cache and the handlers of the single process implement the
\* registry, whose documents a restart replaces by those of a new clone.
MemoryImplementsRegistry == Registry!Spec

\* Once a document stays as it is and no change is given up any more, requests
\* end up evaluating exactly that document, late entries apart.
MemoryConverges ==
    \A k \in Policies, d \in Document :
        <>[](store[k] = d /\ ~lost /\ k \notin late[Process])
            => <>[](\A r \in Requests :
                      At(r, "admit") /\ Key(r) = k => req[r].doc = d)
=============================================================================
