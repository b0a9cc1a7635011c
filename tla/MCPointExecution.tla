------------------------- MODULE MCPointExecution -------------------------
(* A small instance of PointExecution for TLC. *)
EXTENDS PointExecution

OneResource == [r \in Requests |-> CHOOSE k \in Resources : TRUE]
===========================================================================
