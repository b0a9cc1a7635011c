-------------------------- MODULE BatchProgress --------------------------
(***************************************************************************)
(* What a circuit batch promises its callers, free of files, locks and     *)
(* failures: a batch id is bound to one request, its points are completed  *)
(* in order and never undone, completed and cancelled are final, and what  *)
(* a caller is told is so.                                                 *)
(***************************************************************************)
EXTENDS Naturals

CONSTANTS
    Batches,   \* batch ids
    Requests,  \* request digests
    Nothing,   \* the request of a batch nobody has asked for
    Points     \* number of circuits of a batch

VARIABLES
    bound,   \* batch -> the request it is bound to
    status,  \* batch -> where its head says it is
    done,    \* batch -> points completed
    told     \* the answers given

Open == {"prepared", "running", "interrupted", "deadline_exceeded"}

Init ==
    /\ bound = [b \in Batches |-> Nothing]
    /\ status = [b \in Batches |-> "absent"]
    /\ done = [b \in Batches |-> 0]
    /\ told = {}

Bind(b, r) ==
    /\ bound[b] = Nothing
    /\ bound' = [bound EXCEPT ![b] = r]
    /\ UNCHANGED <<status, done, told>>

Become(b, s) ==
    /\ status' = [status EXCEPT ![b] = s]
    /\ UNCHANGED <<bound, done, told>>

Prepare(b) == bound[b] # Nothing /\ status[b] = "absent" /\ Become(b, "prepared")
Start(b) == status[b] \in Open /\ Become(b, "running")
Stop(b) == status[b] = "running" /\ \E s \in {"interrupted", "deadline_exceeded"} : Become(b, s)
Cancel(b) == status[b] \in Open /\ Become(b, "cancelled")
Complete(b) == status[b] = "running" /\ done[b] = Points /\ Become(b, "completed")

(* What was completed is taken back when its head could not be flushed, but never once a  *)
(* caller was told.                                                                       *)
Retract(b) ==
    /\ status[b] = "completed" /\ \A r \in Requests : <<b, r, "completed">> \notin told
    /\ Become(b, "interrupted")

(* A point is completed; the error that follows it may be recorded with it. *)
Advance(b) ==
    /\ status[b] = "running" /\ done[b] < Points
    /\ done' = [done EXCEPT ![b] = @ + 1]
    /\ \E s \in {"running", "interrupted"} : status' = [status EXCEPT ![b] = s]
    /\ UNCHANGED <<bound, told>>

Tell(b, r, kind) ==
    /\ CASE kind = "conflict" -> bound[b] \notin {Nothing, r}
         [] kind \in {"completed", "cancelled"} -> bound[b] = r /\ status[b] = kind
    /\ told' = told \cup {<<b, r, kind>>}
    /\ UNCHANGED <<bound, status, done>>

Next == \E b \in Batches :
            \/ Prepare(b) \/ Start(b) \/ Stop(b) \/ Cancel(b) \/ Complete(b) \/ Retract(b)
            \/ Advance(b)
            \/ \E r \in Requests :
                  Bind(b, r) \/ \E k \in {"conflict", "completed", "cancelled"} : Tell(b, r, k)

Spec == Init /\ [][Next]_<<bound, status, done, told>>
===========================================================================
