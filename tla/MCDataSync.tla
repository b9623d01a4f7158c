----------------------------- MODULE MCDataSync -----------------------------
(* Small instances of DataSync for TLC.  Revision 1 has no data            *)
(* configuration, revision 2 one that cannot be used, revisions 3 and 4    *)
(* good ones.                                                              *)
EXTENDS DataSync, Integers, TLC

MCConfigOf == 
    [v \in Revisions |-> CASE v = 1 -> "none" [] v = 2 -> "bad" [] v > 2 -> "good"]

\* Every revision has a data.json of its own.
MCOwnData == [v \in Revisions |-> v]

Symmetry == Permutations(Refreshers)
=============================================================================
