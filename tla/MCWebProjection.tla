--------------------------- MODULE MCWebProjection ---------------------------
(* Small instances of WebProjection for TLC. *)
EXTENDS WebProjection, TLC

CONSTANTS r1, r2, p1, p2

OneRunTwice == (p1 :> r2) @@ (p2 :> r2)

(* Bounds, all of them on what comes from outside the service: a run that starts trashed is *)
(* moved before the next is published, one that starts archived before that or not at all;  *)
(* a registrar is not at work where there is both a mutation and a fault; two registrars    *)
(* work on one run only where nothing is moved and no rebuild was killed, and with a fault  *)
(* only when it left the event lock or set the event aside; two faults happen only without  *)
(* a mutation, and before the first registrar or after its event was consumed.              *)
Mutating == moves > 0 \/ job.batch # {}

Bounds ==
    /\ moves = 0 => carrier[r1] # "trashed archived"
    /\ moves = 0 /\ carrier[r1] # "hot" /\ carrier[r2] # "none" =>
          carrier[r1] = "archived" /\ ~ Mutating
    /\ Mutating /\ faults > 0 => registrar[p1] \in {"start", "end"}
    /\ registrar[p2] # "start" => ~ Mutating /\ lockFile # "left" /\ carrier[r1] = "hot"
    /\ faults > 0 /\ registrar[p2] # "start" =>
          registrar[p1] = "end" /\ (eventLock[r2] = p1 \/ r2 \in quarantine)
    /\ faults > 1 =>
          /\ ~ Mutating /\ registrar[p2] = "start"
          /\ registrar[p1] # "start" => registrar[p1] = "end" /\ r2 \in enqueued \ inbox
=============================================================================
