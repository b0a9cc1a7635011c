------------------------ MODULE MCCalibrationScan ------------------------
(* A small instance of CalibrationScan. *)
EXTENDS CalibrationScan

CONSTANTS c1, c2, r1, r2
==========================================================================
