-------------------------- MODULE MCExperimentRun --------------------------
(* Small instances of ExperimentRun for TLC. *)
EXTENDS ExperimentRun, TLC

RunSymmetry == Permutations(Runs)
============================================================================
