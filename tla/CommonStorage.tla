--------------------------- MODULE CommonStorage ---------------------------
(***************************************************************************)
(* The functions storage.get, storage.set and storage.delete that policies *)
(* call (internal/regofunc/storage.go), over the common data of either     *)
(* storage.  All three are declared with Memoize: within one evaluation    *)
(* OPA answers a call it has seen, by name and arguments, from memory.     *)
(* Evaluations run concurrently and share the data.                        *)
(***************************************************************************)
CONSTANTS
    Keys,           \* keys that are not blank
    Values,         \* JSON objects
    Evaluations,    \* slots for evaluations in progress
    None            \* no data under a key, no call remembered

Calls ==
    [fn : {"get", "delete"}, key : Keys]
    \cup [fn : {"set"}, key : Keys, value : Values]

\* storage.set and storage.delete answer null, here "ok".
Answers == {"ok", "error"} \cup Values

VARIABLES
    data,       \* the common storage
    running,    \* the evaluations in progress
    memo,       \* what OPA remembers of their calls
    answer      \* what the last call of each was answered

vars == <<data, running, memo, answer>>

NoMemo == [c \in Calls |-> None]

CommonStorageTypeOK ==
    /\ data \in [Keys -> Values \cup {None}]
    /\ running \subseteq Evaluations
    /\ memo \in [Evaluations -> [Calls -> Answers \cup {None}]]

Init ==
    /\ data = [k \in Keys |-> None]
    /\ running = {}
    /\ memo = [e \in Evaluations |-> NoMemo]
    /\ answer = [e \in Evaluations |-> None]
-----------------------------------------------------------------------------
GetData(c) == IF data[c.key] = None THEN "error" ELSE data[c.key]

DeleteData(c) == IF data[c.key] = None THEN "error" ELSE "ok"

Remember(e, c, a) ==
    /\ memo' = [memo EXCEPT ![e][c] = a]
    /\ answer' = [answer EXCEPT ![e] = a]

\* The function runs and its answer, an error too, is remembered.  A call of the
\* storage may fail without effect.
Call(e, c) ==
    /\ memo[e][c] = None
    /\ \/ /\ c.fn = "get"
          /\ Remember(e, c, GetData(c))
          /\ UNCHANGED data
       \/ /\ c.fn = "set"
          /\ data' = [data EXCEPT ![c.key] = c.value]
          /\ Remember(e, c, "ok")
       \/ /\ c.fn = "delete"
          /\ data' = [data EXCEPT ![c.key] = None]
          /\ Remember(e, c, DeleteData(c))
       \/ /\ Remember(e, c, "error")
          /\ UNCHANGED data
    /\ UNCHANGED running

\* The function does not run.
CallRemembered(e, c) ==
    /\ memo[e][c] # None
    /\ answer' = [answer EXCEPT ![e] = memo[e][c]]
    /\ UNCHANGED <<data, running, memo>>

Start(e) ==
    /\ e \notin running
    /\ running' = running \cup {e}
    /\ UNCHANGED <<data, memo, answer>>

\* The evaluation ends and its builtin cache with it.
End(e) ==
    /\ running' = running \ {e}
    /\ memo' = [memo EXCEPT ![e] = NoMemo]
    /\ answer' = [answer EXCEPT ![e] = None]
    /\ UNCHANGED data

Next ==
    \E e \in Evaluations :
        \/ Start(e)
        \/ e \in running /\ (End(e) \/ \E c \in Calls : Call(e, c) \/ CallRemembered(e, c))

CommonStorageSpec == Init /\ [][Next]_vars
-----------------------------------------------------------------------------
\* doc/policy_development.md, storage.set: "Set data to the storage if the key
\* exist the data will be updated."  A storage.set that is answered without an
\* error leaves its data under its key.
SetUpdates ==
    [][\A e \in Evaluations, c \in Calls :
         e \in running /\ (Call(e, c) \/ CallRemembered(e, c)) /\ c.fn = "set"
         /\ answer'[e] # "error"
             => data'[c.key] = c.value]_vars
=============================================================================
