--------------------------- MODULE CircuitBatch ---------------------------
(***************************************************************************)
(* The resumable circuit batch of src/sqvm/runtime/batch.py.               *)
(*                                                                         *)
(* A caller runs a batch of circuits under a batch lock and the lock of    *)
(* the resource its context names.  For each point, in order, it runs the  *)
(* circuit (which publishes model evidence, then circuit evidence), writes *)
(* a receipt and replaces the batch head.  A batch whose caller failed,    *)
(* ran out of time or was killed is resumed by the same call: points in    *)
(* the head are reused, and complete evidence of the next is adopted.      *)
(***************************************************************************)
EXTENDS Naturals, FiniteSets

CONSTANTS
    Callers,     \* threads that call run_circuit_batch, each of its own process
    Batches,     \* batch ids
    Requests,    \* request digests
    Resources,   \* resource keys
    ResourceOf,  \* request -> its resource key
    NoCaller,    \* holder of a free lock
    NoBatch,     \* batch of an idle caller
    NoRequest,   \* request of a batch without request.json
    Points,      \* number of circuits of a batch
    Faults,      \* the kinds of failure that may happen: a subset of FaultKinds
    MaxFaults    \* bound on the failures injected

FaultKinds == {"point", "partial", "receipt", "head", "flush", "crash"}

ASSUME BatchAssumption ==
    /\ ResourceOf \in [Requests -> Resources]
    /\ NoCaller \notin Callers /\ NoBatch \notin Batches /\ NoRequest \notin Requests
ASSUME BoundAssumption ==
    /\ Points \in Nat \ {0}
    /\ Faults \subseteq FaultKinds
    /\ MaxFaults \in Nat

VARIABLES
    made,          \* batches whose batch/ directory exists
    request,       \* batch -> the request of request.json
    head,          \* batch -> head.json
    stale,         \* batches with a head temporary that a killed caller left
    receipts,      \* batch -> points with a receipt
    model,         \* batch -> points with model evidence
    evidence,      \* batch -> points with circuit evidence
    cancellation,  \* batch -> its cancellation request, "torn" while being written
    batchLock, resourceLock,
    pc,            \* where each caller is
    job, wants,    \* the batch and the request of its call
    local,         \* its copy of the head
    after,         \* where it goes when the head is saved
    reused,        \* points completed when its attempt began
    token,         \* callers whose cancellation token is set
    answers,       \* history: what callers were told
    faults         \* failures injected

disk == <<made, request, head, stale, receipts, model, evidence>>
locks == <<batchLock, resourceLock>>
caller == <<pc, job, wants, local, after, reused, token>>
vars == <<disk, cancellation, locks, caller, answers, faults>>

Phases == {"idle", "batchLock", "resourceLock", "locked", "made", "opened", "begin",
           "points", "modelled", "result", "saving", "verify", "stop"}
Nexts == {"opened", "begin", "points", "verify", "stop"}

Open == {"prepared", "running", "interrupted", "deadline_exceeded"}
Statuses == {"absent", "completed", "cancelled"} \cup Open
Head == [status: Statuses, completed: 0..Points]
Absent == [status |-> "absent", completed |-> 0]

Answer == Batches \X Requests \X {"conflict", "completed", "cancelled"}

Init ==
    /\ made = {} /\ stale = {}
    /\ request = [b \in Batches |-> NoRequest]
    /\ head = [b \in Batches |-> Absent]
    /\ receipts = [b \in Batches |-> {}]
    /\ model = [b \in Batches |-> {}]
    /\ evidence = [b \in Batches |-> {}]
    /\ cancellation = [b \in Batches |-> "none"]
    /\ batchLock = [b \in Batches |-> NoCaller]
    /\ resourceLock = [k \in Resources |-> NoCaller]
    /\ pc = [c \in Callers |-> "idle"]
    /\ job = [c \in Callers |-> NoBatch]
    /\ wants = [c \in Callers |-> NoRequest]
    /\ local = [c \in Callers |-> Absent]
    /\ after = [c \in Callers |-> "stop"]
    /\ reused = [c \in Callers |-> 0]
    /\ token = {} /\ answers = {} /\ faults = 0

-----------------------------------------------------------------------------
Goto(c, phase) == pc' = [pc EXCEPT ![c] = phase]

(* Bug: the locks of the call are released whoever holds them. *)
LeaveReleasingAny(c) ==
    /\ batchLock' = [b \in Batches |-> IF b = job[c] THEN NoCaller ELSE batchLock[b]]
    /\ resourceLock' = [k \in Resources |->
                          IF k = ResourceOf[wants[c]] THEN NoCaller ELSE resourceLock[k]]
    /\ pc' = [pc EXCEPT ![c] = "idle"]
    /\ job' = [job EXCEPT ![c] = NoBatch]
    /\ wants' = [wants EXCEPT ![c] = NoRequest]
    /\ local' = [local EXCEPT ![c] = Absent]
    /\ after' = [after EXCEPT ![c] = "stop"]
    /\ reused' = [reused EXCEPT ![c] = 0]
    /\ token' = token \ {c}

(* The call returns or raises: the context managers release both locks. *)
Leave(c) ==
    /\ batchLock' = [b \in Batches |-> IF batchLock[b] = c THEN NoCaller ELSE batchLock[b]]
    /\ resourceLock' = [k \in Resources |-> IF resourceLock[k] = c THEN NoCaller ELSE resourceLock[k]]
    /\ pc' = [pc EXCEPT ![c] = "idle"]
    /\ job' = [job EXCEPT ![c] = NoBatch]
    /\ wants' = [wants EXCEPT ![c] = NoRequest]
    /\ local' = [local EXCEPT ![c] = Absent]
    /\ after' = [after EXCEPT ![c] = "stop"]
    /\ reused' = [reused EXCEPT ![c] = 0]
    /\ token' = token \ {c}

Tell(c, kind) == answers' = answers \cup {<<job[c], wants[c], kind>>}

(* _write_head(h), then go on at next. *)
Save(c, h, next) ==
    /\ local' = [local EXCEPT ![c] = h]
    /\ after' = [after EXCEPT ![c] = next]
    /\ Goto(c, "saving")
    /\ UNCHANGED <<job, wants, reused, token, locks, answers>>

(* The terminal head, written by the handlers of the attempt. *)
End(c, status) == Save(c, [local[c] EXCEPT !.status = status], "stop")

Asked(c) == c \in token \/ cancellation[job[c]] = "asked"
Torn(c) == c \notin token /\ cancellation[job[c]] = "torn"
Free(c) == ~Asked(c) /\ ~Torn(c)

Point(c) == local[c].completed + 1
Modelled(c) == Point(c) \in model[job[c]]
Evident(c) == Point(c) \in evidence[job[c]]

-----------------------------------------------------------------------------
Call(c, b, r) ==
    /\ pc[c] = "idle"
    /\ job' = [job EXCEPT ![c] = b]
    /\ wants' = [wants EXCEPT ![c] = r]
    /\ Goto(c, "batchLock")
    /\ UNCHANGED <<disk, cancellation, locks, local, after, reused, token, answers, faults>>

LockBatch(c) ==
    /\ pc[c] = "batchLock" /\ batchLock[job[c]] = NoCaller
    /\ batchLock' = [batchLock EXCEPT ![job[c]] = c]
    /\ Goto(c, "resourceLock")
    /\ UNCHANGED <<disk, cancellation, resourceLock, job, wants, local, after, reused, token,
                   answers, faults>>

LockResource(c) ==
    /\ pc[c] = "resourceLock" /\ resourceLock[ResourceOf[wants[c]]] = NoCaller
    /\ resourceLock' = [resourceLock EXCEPT ![ResourceOf[wants[c]]] = c]
    /\ Goto(c, "locked")
    /\ UNCHANGED <<disk, cancellation, batchLock, job, wants, local, after, reused, token,
                   answers, faults>>

(* batch_busy, after a bounded wait *)
Busy(c) ==
    /\ \/ pc[c] = "batchLock" /\ batchLock[job[c]] # NoCaller
       \/ pc[c] = "resourceLock" /\ resourceLock[ResourceOf[wants[c]]] # NoCaller
    /\ Leave(c)
    /\ UNCHANGED <<disk, cancellation, answers, faults>>

(* _run_locked: what the batch directory says. *)
Conflict(c) ==
    /\ pc[c] = "locked" /\ request[job[c]] \notin {NoRequest, wants[c]}
    /\ Tell(c, "conflict") /\ Leave(c)
    /\ UNCHANGED <<disk, cancellation, faults>>

(* Killed before the first head: refused from then on. *)
Unopenable(c) ==
    /\ pc[c] = "locked" /\ job[c] \in made
    /\ request[job[c]] \in {NoRequest, wants[c]} /\ head[job[c]] = Absent
    /\ Leave(c)
    /\ UNCHANGED <<disk, cancellation, answers, faults>>

Bound(c) == pc[c] = "locked" /\ request[job[c]] = wants[c]

Replay(c) ==
    /\ Bound(c) /\ head[job[c]].status = "completed"
    /\ Goto(c, "verify")
    /\ UNCHANGED <<disk, cancellation, locks, job, wants, local, after, reused, token, answers,
                   faults>>

AlreadyCancelled(c) ==
    /\ Bound(c) /\ head[job[c]].status = "cancelled"
    /\ Tell(c, "cancelled") /\ Leave(c)
    /\ UNCHANGED <<disk, cancellation, faults>>

Resume(c) ==
    /\ Bound(c) /\ head[job[c]].status \in Open
    /\ local' = [local EXCEPT ![c] = head[job[c]]]
    /\ Goto(c, "opened")
    /\ UNCHANGED <<disk, cancellation, locks, job, wants, after, reused, token, answers, faults>>

Make(c) ==
    /\ pc[c] = "locked" /\ job[c] \notin made
    /\ made' = made \cup {job[c]}
    /\ Goto(c, "made")
    /\ UNCHANGED <<request, head, stale, receipts, model, evidence, cancellation, locks, job,
                   wants, local, after, reused, token, answers, faults>>

Bind(c) ==
    /\ pc[c] = "made"
    /\ request' = [request EXCEPT ![job[c]] = wants[c]]
    /\ Save(c, [status |-> "prepared", completed |-> 0], "opened")
    /\ UNCHANGED <<made, head, stale, receipts, model, evidence, cancellation, faults>>

-----------------------------------------------------------------------------
CancelBefore(c) ==
    /\ pc[c] = "opened" /\ Asked(c)
    /\ End(c, "cancelled")
    /\ UNCHANGED <<disk, cancellation, faults>>

TornBefore(c) ==
    /\ pc[c] = "opened" /\ Torn(c)
    /\ Leave(c)
    /\ UNCHANGED <<disk, cancellation, answers, faults>>

Start(c) ==
    /\ pc[c] = "opened" /\ Free(c)
    /\ Save(c, [local[c] EXCEPT !.status = "running"], "begin")
    /\ UNCHANGED <<disk, cancellation, faults>>

Begin(c) ==
    /\ pc[c] = "begin"
    /\ reused' = [reused EXCEPT ![c] = local[c].completed]
    /\ Goto(c, "points")
    /\ UNCHANGED <<disk, cancellation, locks, job, wants, local, after, token, answers, faults>>

Left(c) == pc[c] = "points" /\ local[c].completed < Points

CancelBetween(c) ==
    /\ Left(c) /\ Asked(c)
    /\ End(c, "cancelled")
    /\ UNCHANGED <<disk, cancellation, faults>>

TornBetween(c) ==
    /\ Left(c) /\ Torn(c)
    /\ End(c, "interrupted")
    /\ UNCHANGED <<disk, cancellation, faults>>

(* Bug: the deadline is counted from the first attempt. *)
DeadlineOfBatch(c) ==
    /\ pc[c] = "points"
    /\ End(c, "deadline_exceeded")
    /\ UNCHANGED <<disk, cancellation, faults>>

(* The deadline is positive and counted from the start of the attempt: it  *)
(* can pass once a point has run.                                          *)
Deadline(c) ==
    /\ pc[c] = "points" /\ local[c].completed > reused[c]
    /\ End(c, "deadline_exceeded")
    /\ UNCHANGED <<disk, cancellation, faults>>

(* _adopt_or_execute: evidence that is there is loaded, never replaced. *)
Adopt(c) ==
    /\ Left(c) /\ Free(c) /\ Modelled(c) /\ Evident(c)
    /\ Goto(c, "result")
    /\ UNCHANGED <<disk, cancellation, locks, job, wants, local, after, reused, token, answers,
                   faults>>

Incomplete(c) ==
    /\ Left(c) /\ Free(c) /\ Modelled(c) # Evident(c)
    /\ End(c, "interrupted")
    /\ UNCHANGED <<disk, cancellation, faults>>

RunPoint(c) ==
    /\ Left(c) /\ Free(c) /\ ~Modelled(c) /\ ~Evident(c)
    /\ model' = [model EXCEPT ![job[c]] = @ \cup {Point(c)}]
    /\ Goto(c, "modelled")
    /\ UNCHANGED <<made, request, head, stale, receipts, evidence, cancellation, locks, job, wants,
                   local, after, reused, token, answers, faults>>

PublishEvidence(c) ==
    /\ pc[c] = "modelled"
    /\ evidence' = [evidence EXCEPT ![job[c]] = @ \cup {Point(c)}]
    /\ Goto(c, "result")
    /\ UNCHANGED <<made, request, head, stale, receipts, model, cancellation, locks, job, wants,
                   local, after, reused, token, answers, faults>>

(* The receipt exists although the head does not name it. *)
AlreadyReceipted(c) ==
    /\ pc[c] = "result" /\ Point(c) \in receipts[job[c]]
    /\ End(c, "interrupted")
    /\ UNCHANGED <<disk, cancellation, faults>>

(* Bug: the head is saved before the receipt is written. *)
WriteReceiptLate(c) ==
    /\ pc[c] = "result" /\ Point(c) \notin receipts[job[c]]
    /\ receipts' = [receipts EXCEPT ![job[c]] = @ \cup 1..local[c].completed]
    /\ Save(c, [local[c] EXCEPT !.completed = Point(c)], "points")
    /\ UNCHANGED <<made, request, head, stale, model, evidence, cancellation, faults>>

WriteReceipt(c) ==
    /\ pc[c] = "result" /\ Point(c) \notin receipts[job[c]]
    /\ receipts' = [receipts EXCEPT ![job[c]] = @ \cup {Point(c)}]
    /\ Save(c, [local[c] EXCEPT !.completed = Point(c)], "points")
    /\ UNCHANGED <<made, request, head, stale, model, evidence, cancellation, faults>>

Finish(c) ==
    /\ pc[c] = "points" /\ local[c].completed = Points
    /\ Save(c, [local[c] EXCEPT !.status = "completed"], "verify")
    /\ UNCHANGED <<disk, cancellation, faults>>

SaveHead(c) ==
    /\ pc[c] = "saving"
    /\ head' = [head EXCEPT ![job[c]] = local[c]]
    /\ Goto(c, after[c])
    /\ UNCHANGED <<made, request, stale, receipts, model, evidence, cancellation, locks, job, wants,
                   local, after, reused, token, answers, faults>>

Raise(c) ==
    /\ pc[c] = "stop"
    /\ IF local[c].status = "cancelled" THEN Tell(c, "cancelled") ELSE UNCHANGED answers
    /\ Leave(c)
    /\ UNCHANGED <<disk, cancellation, faults>>

(* verify_circuit_batch: nothing but request, head and points; a completed  *)
(* head; one receipt for each point, each with its evidence.                *)
Verified(b) ==
    /\ b \notin stale
    /\ head[b] = [status |-> "completed", completed |-> Points]
    /\ receipts[b] = 1..Points /\ model[b] = 1..Points /\ evidence[b] = 1..Points

Verify(c) ==
    /\ pc[c] = "verify"
    /\ IF Verified(job[c]) THEN Tell(c, "completed") ELSE UNCHANGED answers
    /\ Leave(c)
    /\ UNCHANGED <<disk, cancellation, faults>>

-----------------------------------------------------------------------------
(* request_circuit_batch_cancellation creates the file and then writes it;  *)
(* the cancellation token of a call is set by its own process.              *)
CancelCreate(b) ==
    /\ cancellation[b] = "none"
    /\ cancellation' = [cancellation EXCEPT ![b] = "torn"]
    /\ UNCHANGED <<disk, locks, caller, answers, faults>>

CancelWrite(b) ==
    /\ cancellation[b] = "torn"
    /\ cancellation' = [cancellation EXCEPT ![b] = "asked"]
    /\ UNCHANGED <<disk, locks, caller, answers, faults>>

CancelToken(c) ==
    /\ pc[c] # "idle" /\ c \notin token
    /\ token' = token \cup {c}
    /\ UNCHANGED <<disk, cancellation, locks, pc, job, wants, local, after, reused, answers, faults>>

Fault(kind) == kind \in Faults /\ faults < MaxFaults /\ faults' = faults + 1

(* The circuit runner or the caller's progress callback raises. *)
PointFails(c) ==
    /\ pc[c] = "points" /\ Fault("point")
    /\ End(c, "interrupted")
    /\ UNCHANGED <<disk, cancellation>>

(* The runner raises between its two publications. *)
PartialFails(c) ==
    /\ pc[c] = "modelled" /\ Fault("partial")
    /\ End(c, "interrupted")
    /\ UNCHANGED <<disk, cancellation>>

ReceiptFails(c) ==
    /\ pc[c] = "result" /\ Fault("receipt")
    /\ End(c, "interrupted")
    /\ UNCHANGED <<disk, cancellation>>

(* Bug: the handler saves the head the attempt began with. *)
HeadErrorForgetting(c) ==
    IF after[c] \in {"points", "verify"}
    THEN Save(c, [status |-> "interrupted", completed |-> reused[c]], "stop")
    ELSE Leave(c) /\ UNCHANGED answers

(* An error of _write_head is recorded as an interruption when it happens  *)
(* within the attempt, and raised as it is otherwise.                      *)
HeadError(c) ==
    IF after[c] \in {"points", "verify"} THEN End(c, "interrupted")
                                         ELSE Leave(c) /\ UNCHANGED answers

HeadFails(c) ==
    /\ pc[c] = "saving" /\ Fault("head")
    /\ HeadError(c)
    /\ UNCHANGED <<disk, cancellation>>

(* The file is in place, and the flush after it fails. *)
FlushFails(c) ==
    /\ Fault("flush")
    /\ \/ /\ pc[c] = "result" /\ Point(c) \notin receipts[job[c]]
          /\ receipts' = [receipts EXCEPT ![job[c]] = @ \cup {Point(c)}]
          /\ End(c, "interrupted")
          /\ UNCHANGED head
       \/ /\ pc[c] = "saving"
          /\ head' = [head EXCEPT ![job[c]] = local[c]]
          /\ HeadError(c)
          /\ UNCHANGED receipts
    /\ UNCHANGED <<made, request, stale, model, evidence, cancellation>>

(* The caller's process is killed: its locks are free, and a head being     *)
(* saved may leave its temporary file behind.                               *)
Crash(c) ==
    /\ pc[c] # "idle" /\ Fault("crash")
    /\ \/ UNCHANGED stale
       \/ pc[c] = "saving" /\ stale' = stale \cup {job[c]}
    /\ Leave(c)
    /\ UNCHANGED <<made, request, head, receipts, model, evidence, cancellation, answers>>

-----------------------------------------------------------------------------
Work(c) ==
    \/ LockBatch(c) \/ LockResource(c) \/ Busy(c)
    \/ Conflict(c) \/ Unopenable(c) \/ Replay(c) \/ AlreadyCancelled(c) \/ Resume(c)
    \/ Make(c) \/ Bind(c)
    \/ CancelBefore(c) \/ TornBefore(c) \/ Start(c) \/ Begin(c)
    \/ CancelBetween(c) \/ TornBetween(c) \/ Deadline(c)
    \/ Adopt(c) \/ Incomplete(c) \/ RunPoint(c) \/ PublishEvidence(c)
    \/ AlreadyReceipted(c) \/ WriteReceipt(c) \/ Finish(c)
    \/ SaveHead(c) \/ Raise(c) \/ Verify(c)

Fail(c) ==
    \/ PointFails(c) \/ PartialFails(c) \/ ReceiptFails(c) \/ HeadFails(c) \/ FlushFails(c)
    \/ Crash(c)

Next ==
    \/ \E c \in Callers :
          \/ \E b \in Batches, r \in Requests : Call(c, b, r)
          \/ Work(c) \/ CancelToken(c) \/ Fail(c)
    \/ \E b \in Batches : CancelCreate(b) \/ CancelWrite(b)

Spec == Init /\ [][Next]_vars

-----------------------------------------------------------------------------
(* Heads, receipts and locks hold what the code can write: a head counts no *)
(* more points than its request has, a lock has a caller or nobody.         *)
TypeOK ==
    /\ made \subseteq Batches /\ stale \subseteq Batches
    /\ request \in [Batches -> Requests \cup {NoRequest}]
    /\ head \in [Batches -> Head]
    /\ receipts \in [Batches -> SUBSET (1..Points)]
    /\ model \in [Batches -> SUBSET (1..Points)]
    /\ evidence \in [Batches -> SUBSET (1..Points)]
    /\ cancellation \in [Batches -> {"none", "torn", "asked"}]
    /\ batchLock \in [Batches -> Callers \cup {NoCaller}]
    /\ resourceLock \in [Resources -> Callers \cup {NoCaller}]
    /\ pc \in [Callers -> Phases]
    /\ job \in [Callers -> Batches \cup {NoBatch}]
    /\ wants \in [Callers -> Requests \cup {NoRequest}]
    /\ local \in [Callers -> Head]
    /\ after \in [Callers -> Nexts]
    /\ reused \in [Callers -> 0..Points]
    /\ token \subseteq Callers
    /\ answers \subseteq Answer
    /\ faults \in 0..MaxFaults

(* Past both locks of run_circuit_batch. *)
Inside(c) == pc[c] \notin {"idle", "batchLock", "resourceLock"}

(* Two callers are never past the locks with the same batch or with the    *)
(* same resource, whatever the order in which they queue, give up or die.  *)
Exclusive ==
    \A c, d \in Callers : c # d /\ Inside(c) /\ Inside(d) =>
        job[c] # job[d] /\ ResourceOf[wants[c]] # ResourceOf[wants[d]]

(* The head never names a point whose receipt or evidence is not on disk,  *)
(* and at most one point is on disk ahead of it: a failure at any step     *)
(* costs at most the point that was being run.                             *)
HeadBacked ==
    \A b \in Batches :
        /\ 1..head[b].completed \subseteq receipts[b]
        /\ receipts[b] \subseteq evidence[b] /\ evidence[b] \subseteq model[b]
        /\ model[b] \subseteq 1..(head[b].completed + 1)

(* What a caller was told stays so: the completed result and the           *)
(* cancellation of a batch are final, and it is bound to one request.      *)
AnswersStand ==
    \A b \in Batches, r \in Requests :
        /\ <<b, r, "completed">> \in answers =>
              request[b] = r /\ head[b] = [status |-> "completed", completed |-> Points]
        /\ <<b, r, "cancelled">> \in answers => request[b] = r /\ head[b].status = "cancelled"
        /\ <<b, r, "conflict">> \in answers => request[b] \notin {NoRequest, r}

(* One abstract batch behind the files, whatever fails.                     *)
HeadStatus == [b \in Batches |-> head[b].status]
HeadDone == [b \in Batches |-> head[b].completed]

Progress == INSTANCE BatchProgress WITH
    Nothing <- NoRequest, bound <- request, status <- HeadStatus, done <- HeadDone, told <- answers

(* run_circuit_batch amounts to BatchProgress: bound to one request, one    *)
(* more point at a time, and final once it was cancelled or a caller was    *)
(* told that it is completed.                                               *)
ImplementsProgress == Progress!Spec
===========================================================================
