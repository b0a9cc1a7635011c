------------------------- MODULE MCPulseSchedule -------------------------
(* A small instance of PulseSchedule: two qubits and the coupler between   *)
(* them, as the platform has.                                              *)
EXTENDS PulseSchedule

CONSTANTS q1, q2, c

TheEndpoints == [k \in {c} |-> <<q1, q2>>]
TheDynamicPhase == <<3, 5>>
==========================================================================
