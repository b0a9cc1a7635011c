----------------------- MODULE MCStorageOperations -----------------------
(* Small instances of StorageOperations. *)
EXTENDS StorageOperations, TLC

CONSTANTS c1, c2

Symmetric == Permutations(Callers)
==========================================================================
