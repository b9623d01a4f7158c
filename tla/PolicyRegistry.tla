--------------------------- MODULE PolicyRegistry ---------------------------
(***************************************************************************)
(* What the policy service promises its callers, without caches, streams,  *)
(* channels or handlers.                                                   *)
(*                                                                         *)
(* There is one document per policy.  A process may go on seeing documents *)
(* that have been replaced, but only ones that were stored under that      *)
(* policy, and one it has stopped seeing comes back to it only by being    *)
(* written again.  An evaluation uses an unlocked document that its        *)
(* process sees.                                                           *)
(***************************************************************************)
CONSTANTS
    Policies, Instances, Requests,
    Documents,      \* what may be stored for a policy
    NoPolicy,       \* no document
    Volatile        \* the documents do not survive the process

VARIABLES
    store,          \* the document of every policy
    visible,        \* the documents a process may evaluate for a policy
    using           \* the document a request is evaluating

vars == <<store, visible, using>>

Current(s, k) == {s[k]} \ {NoPolicy}

Init ==
    /\ store \in [Policies -> Documents \cup {NoPolicy}]
    /\ visible = [i \in Instances |-> [k \in Policies |-> Current(store, k)]]
    /\ using = [r \in Requests |-> NoPolicy]

\* A process sees what is stored and may lose sight of what is not.
Sees(s) ==
    \A i \in Instances, k \in Policies :
        /\ Current(s, k) \subseteq visible'[i][k]
        /\ visible'[i][k] \subseteq visible[i][k] \cup Current(s, k)

Write(k, d) ==
    /\ store' = [store EXCEPT ![k] = d]
    /\ Sees(store')
    /\ using' = using

\* Evaluations end and processes lose sight of replaced documents.
Settle ==
    /\ store' = store
    /\ Sees(store)
    /\ \A r \in Requests : using'[r] \in {using[r], NoPolicy}

Admit(r) ==
    /\ using[r] = NoPolicy
    /\ \E i \in Instances, k \in Policies : \E d \in visible[i][k] :
         /\ ~d.locked
         /\ using' = [using EXCEPT ![r] = d]
    /\ store' = store
    /\ visible' = visible

\* A process that keeps the documents itself starts again.
Reload ==
    /\ Volatile
    /\ store' \in [Policies -> Documents \cup {NoPolicy}]
    /\ visible' = [i \in Instances |-> [k \in Policies |-> Current(store', k)]]
    /\ using' = [r \in Requests |-> NoPolicy]

Next ==
    \/ \E k \in Policies, d \in Documents : Write(k, d)
    \/ Settle
    \/ \E r \in Requests : Admit(r)
    \/ Reload

Spec == Init /\ [][Next]_vars
=============================================================================
