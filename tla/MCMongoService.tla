--------------------------- MODULE MCMongoService ---------------------------
(* Small instances of MongoService for TLC.                                *)
EXTENDS MongoService, TLC

\* The slots for requests are interchangeable in the runs without liveness.
Symmetry == Permutations(Requests)
=============================================================================
