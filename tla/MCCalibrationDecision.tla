----------------------- MODULE MCCalibrationDecision -----------------------
(* A small instance of CalibrationDecision. *)
EXTENDS CalibrationDecision, TLC

SameSeed == [t \in Targets |-> 3]

Symmetry ==
    Permutations(Sessions) \cup Permutations(Targets)
        \cup Permutations(RunOutputs) \cup Permutations(DecisionOutputs)

Measuring == {c \in Sessions : work[c].step \notin {"idle", "decided"}}

Several(w) == IF "current" \in DOMAIN w THEN Parallel(w) ELSE FALSE

Fails(w) == IF "eligible" \in DOMAIN w THEN ~ w.eligible ELSE FALSE

(* A run whose three peaks agree. *)
Steady(w) ==
    /\ ("refined" \in DOMAIN w) => w.refined = w.coarse
    /\ ("confirmed" \in DOMAIN w) => w.confirmed = w.refined

(* Bounds: of two runs at most one drives two targets, one that drives a single target is   *)
(* steady, and a run that failed a gate is the only one; while a caller measures, the other *)
(* is idle or waits to publish its own run.                                                 *)
Bounds ==
    /\ Cardinality(PublishedIn(runs)) + Cardinality(Measuring) > 1 =>
         /\ \A o \in PublishedIn(runs) : ~ Fails(runs[o])
         /\ \A c \in Measuring : ~ Fails(work[c]) /\ (~ Several(work[c]) => Steady(work[c]))
         /\ \A o \in PublishedIn(runs), c \in Measuring : ~ Several(runs[o]) \/ ~ Several(work[c])
    /\ \A c \in Measuring : \A e \in Sessions \ {c} :
         /\ work[c].step # "publish" => work[e].step \in {"idle", "publish"}
         /\ ~ Several(work[c]) \/ ~ Several(work[e])
=============================================================================
