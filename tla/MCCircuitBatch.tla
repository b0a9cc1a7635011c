-------------------------- MODULE MCCircuitBatch --------------------------
(* Small instances of CircuitBatch for TLC. *)
EXTENDS CircuitBatch, FiniteSets, Functions, TLC

OneResource == [r \in Requests |-> CHOOSE k \in Resources : TRUE]

CallerSymmetry == Permutations(Callers)
Symmetry == CallerSymmetry \cup Permutations(Batches) \cup Permutations(Requests)

UsedRequests == (Range(request) \cup Range(wants) \cup {a[2] : a \in answers}) \ {NoRequest}
UsedBatches == made \cup (Range(job) \ {NoBatch})

(* Two requests meet on one batch, two batches on one resource. *)
OneContention ==
    Cardinality(UsedBatches) > 1 => Cardinality(UsedRequests) = 1 /\ faults < MaxFaults
=============================================================================
