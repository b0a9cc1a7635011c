-------------------------- MODULE CalibrationScan --------------------------
(***************************************************************************)
(* One calibration scan under one operation id: run_qubit_spectroscopy_scan *)
(* (src/sqvm/calibration/spectroscopy_run.py) or run_qubit_rabi_scan       *)
(* (rabi.py).                                                              *)
(*                                                                         *)
(* A call collects a circuit batch in a staging directory named after the  *)
(* operation, adds the dataset, the workflow and three terminal documents, *)
(* verifies the whole and renames it to the target, which is never         *)
(* replaced.  A caller that failed calls again with the same id: what is   *)
(* published is reopened, a finished staging directory is published, and   *)
(* an unfinished one is taken up where its batch stands.  The batch itself *)
(* is CircuitBatch; here it is bound, gains points, and ends.              *)
(***************************************************************************)
EXTENDS Naturals, FiniteSets

CONSTANTS
    Callers,        \* processes that call with the operation id
    Requests,       \* the requests they ask it for
    Retrier,        \* the caller that calls again until the operation has ended,
    ItsRequest,     \* always with this request
    Missing,        \* a directory that is not there
    NoRequest, Nobody,
    Points,         \* circuits of a batch
    MaxCalls,       \* bound on the calls of the other callers
    Faults,         \* the kinds of failure that may happen: a subset of FaultKinds
    MaxFaults       \* bound on the failures injected

FaultKinds == {"point", "write", "rename", "flush", "record", "kill"}

ASSUME ScanAssumption ==
    /\ IsFiniteSet(Callers)
    /\ Retrier \in Callers /\ ItsRequest \in Requests
    /\ NoRequest \notin Requests /\ Nobody \notin Callers
    /\ Points \in Nat \ {0} /\ MaxCalls \in Nat
    /\ Faults \subseteq FaultKinds /\ MaxFaults \in Nat

VARIABLES
    workflow,          \* which of the two scans it is
    staging, target,   \* the two directories
    marker,            \* the fallback marker beside the staging directory
    uncertain,         \* the record of an uncertain publication
    cancellation,      \* the cancellation request of the batch
    batchLock,         \* the caller inside the batch lock
    pc, wants,         \* where each caller is, and the request of its call
    own,               \* the recommendation id it works with
    resumed,           \* callers that publish what an earlier call finished
    calls, faults,     \* calls of the other callers, failures injected
    answers            \* history: the results callers were given

directories == <<staging, target>>
records == <<marker, uncertain>>
caller == <<pc, wants, own, resumed>>
bounds == <<calls, faults>>
vars == <<workflow, directories, records, cancellation, batchLock, caller, bounds, answers>>

(* Recommendation ids: rabi derives its own from the operation id; spectroscopy draws a   *)
(* new one for each call, and only ids still in use need to differ.                        *)
Derived == 0
NoId == Cardinality(Callers) + 5
Ids == 0..NoId

Batch == [request: Requests \cup {NoRequest}, status: {"absent", "open", "completed", "cancelled"},
          points: 0..Points, metadata: Ids]
Directory == [batch: Batch, dataset: BOOLEAN, workflow: Ids, terminal: 0..3,
              listed: BOOLEAN, recovery: BOOLEAN]
NoBatch == [request |-> NoRequest, status |-> "absent", points |-> 0, metadata |-> NoId]
Empty == [batch |-> NoBatch, dataset |-> FALSE, workflow |-> NoId, terminal |-> 0,
          listed |-> FALSE, recovery |-> FALSE]

ASSUME MissingAssumption == Missing \notin Directory

Phases == {"idle", "target", "staging", "claim", "run", "batch", "lock", "points",
           "collected", "dataset", "workflow", "check", "publish", "flush", "reopen",
           "failed", "record", "mark", "unpublished"}

Init ==
    /\ workflow \in {"spectroscopy", "rabi"}
    /\ staging = Missing /\ target = Missing
    /\ marker = FALSE /\ uncertain = FALSE /\ cancellation = FALSE
    /\ batchLock = Nobody
    /\ pc = [c \in Callers |-> "idle"]
    /\ wants = [c \in Callers |-> NoRequest]
    /\ own = [c \in Callers |-> NoId]
    /\ resumed = {}
    /\ calls = 0 /\ faults = 0 /\ answers = {}

-----------------------------------------------------------------------------
InUse == {own[c] : c \in Callers}
            \cup UNION {{d.workflow, d.batch.metadata} : d \in {staging, target} \ {Missing}}
Drawn ==
    IF workflow = "rabi" THEN {Derived}
    ELSE {i \in 1..NoId - 1 : i \notin InUse /\ \A j \in 1..i - 1 : j \in InUse}

(* verify_qubit_spectroscopy_scan and _verify_rabi_evidence_root: exactly the expected     *)
(* files, each binding the others, over a completed batch.                                *)
Whole(d) ==
    /\ d # Missing
    /\ d.batch.status = "completed" /\ d.dataset /\ d.workflow # NoId /\ d.terminal = 3
    /\ ~d.listed /\ ~d.recovery

Goto(c, phase) == pc' = [pc EXCEPT ![c] = phase]
Step(c, phase) == Goto(c, phase) /\ UNCHANGED <<wants, own, resumed>>
Release(c) == batchLock' = IF batchLock = c THEN Nobody ELSE batchLock
Fault(kind) == kind \in Faults /\ faults < MaxFaults /\ faults' = faults + 1 /\ UNCHANGED calls

(* The call is over: it returned or raised. *)
Leave(c) ==
    /\ Goto(c, "idle")
    /\ wants' = [wants EXCEPT ![c] = NoRequest]
    /\ own' = [own EXCEPT ![c] = NoId]
    /\ resumed' = resumed \ {c}

(* An exception: only a first-hand spectroscopy call has a handler, which records it. *)
Raise(c, handler) ==
    IF workflow = "spectroscopy" /\ c \notin resumed THEN Step(c, handler) ELSE Leave(c)

Return(c, got, id) ==
    /\ answers' = answers \cup {[asked |-> wants[c], got |-> got, id |-> id]}
    /\ Leave(c)

-----------------------------------------------------------------------------
Call(c, r) ==
    /\ pc[c] = "idle"
    /\ IF c = Retrier THEN r = ItsRequest /\ UNCHANGED calls
                      ELSE calls < MaxCalls /\ calls' = calls + 1
    /\ Goto(c, "target")
    /\ wants' = [wants EXCEPT ![c] = r]
    /\ \E id \in Drawn : own' = [own EXCEPT ![c] = id]
    /\ UNCHANGED <<workflow, directories, records, cancellation, batchLock, resumed, faults, answers>>

FindTarget(c) ==
    /\ pc[c] = "target"
    /\ Step(c, IF target = Missing THEN "staging" ELSE "reopen")
    /\ UNCHANGED <<workflow, directories, records, cancellation, batchLock, bounds, answers>>

(* Bug: a finished staging directory is not recognised, its batch is collected again. *)
FindStagingUnfinished(c) ==
    /\ pc[c] = "staging"
    /\ staging' = IF staging = Missing THEN Empty ELSE staging
    /\ Step(c, "run")
    /\ UNCHANGED <<workflow, target, records, cancellation, batchLock, bounds, answers>>

(* The staging directory is made, taken up, or, with a workflow in it, published. *)
FindStaging(c) ==
    /\ pc[c] = "staging"
    /\ staging' = IF staging = Missing THEN Empty ELSE staging
    /\ IF staging'.workflow # NoId
       THEN /\ Goto(c, "claim") /\ resumed' = resumed \cup {c}
            /\ UNCHANGED <<wants, own>>
       ELSE Step(c, "run")
    /\ UNCHANGED <<workflow, target, records, cancellation, batchLock, bounds, answers>>

(* _clear_recovery_markers, which only spectroscopy has. *)
Cleared(d) == IF d = Missing THEN d ELSE [d EXCEPT !.recovery = FALSE]

Claim(c) ==
    /\ pc[c] = "claim"
    /\ IF workflow = "spectroscopy" THEN staging' = Cleared(staging) /\ marker' = FALSE
                                    ELSE UNCHANGED <<staging, marker>>
    /\ Step(c, "check")
    /\ UNCHANGED <<workflow, target, uncertain, cancellation, batchLock, bounds, answers>>

-----------------------------------------------------------------------------
(* The circuit batch in the staging directory. *)

(* The execution directory: spectroscopy makes it without its parent. *)
MakeExecution(c) ==
    /\ pc[c] = "run"
    /\ IF workflow = "spectroscopy" /\ staging = Missing THEN Raise(c, "failed")
                                                         ELSE Step(c, "batch")
    /\ UNCHANGED <<workflow, directories, records, cancellation, batchLock, bounds, answers>>

(* run_circuit_batch makes its output, parents included, before it waits for the lock. *)
EnsureOutput(c) ==
    /\ pc[c] = "batch"
    /\ staging' = IF staging = Missing THEN Empty ELSE staging
    /\ Step(c, "lock")
    /\ UNCHANGED <<workflow, target, records, cancellation, batchLock, bounds, answers>>

Busy(c) ==
    /\ pc[c] = "lock" /\ batchLock # Nobody
    /\ Raise(c, "failed")
    /\ UNCHANGED <<workflow, directories, records, cancellation, batchLock, bounds, answers>>

(* Inside the lock the batch is bound to the request, taken up, refused, or found ended. *)
Enterable(c) ==
    /\ pc[c] = "lock" /\ batchLock = Nobody
    /\ staging # Missing
    /\ \/ staging.batch.status = "absent"
       \/ staging.batch.status = "open" /\ staging.batch.request = wants[c]

Bound(c) ==
    IF staging.batch.status = "absent"
    THEN [request |-> wants[c], status |-> "open", points |-> 0, metadata |-> own[c]]
    ELSE staging.batch

EnterBatch(c) ==
    /\ Enterable(c) /\ ~cancellation
    /\ staging' = [staging EXCEPT !.batch = Bound(c)]
    /\ batchLock' = c
    /\ Step(c, "points")
    /\ UNCHANGED <<workflow, target, records, cancellation, bounds, answers>>

(* A cancellation that is there already ends even a batch that has all its points. *)
EnterCancelled(c) ==
    /\ Enterable(c) /\ cancellation
    /\ staging' = [staging EXCEPT !.batch = [Bound(c) EXCEPT !.status = "cancelled"]]
    /\ Raise(c, "failed")
    /\ UNCHANGED <<workflow, target, records, cancellation, batchLock, bounds, answers>>

RefuseBatch(c) ==
    /\ pc[c] = "lock" /\ batchLock = Nobody
    /\ \/ staging = Missing
       \/ staging # Missing /\ staging.batch.request \notin {NoRequest, wants[c]}
       \/ staging # Missing /\ staging.batch.status = "cancelled"
    /\ Raise(c, "failed")
    /\ UNCHANGED <<workflow, directories, records, cancellation, batchLock, bounds, answers>>

(* Bug: the id the call drew is kept, not that of the attempt that bound the batch. *)
CollectedOwn(c) ==
    /\ Goto(c, "collected")
    /\ UNCHANGED <<wants, own, resumed>>

(* The batch hands over its results, with the metadata of its first attempt. *)
Collected(c) ==
    /\ Goto(c, "collected")
    /\ own' = [own EXCEPT ![c] = staging.batch.metadata]
    /\ UNCHANGED <<wants, resumed>>

ReplayBatch(c) ==
    /\ pc[c] = "lock" /\ batchLock = Nobody
    /\ staging # Missing /\ staging.batch.status = "completed" /\ staging.batch.request = wants[c]
    /\ Collected(c)
    /\ UNCHANGED <<workflow, directories, records, cancellation, batchLock, bounds, answers>>

RunPoint(c) ==
    /\ pc[c] = "points" /\ ~cancellation /\ staging.batch.points < Points
    /\ staging' = [staging EXCEPT !.batch.points = @ + 1]
    /\ Step(c, "points")
    /\ UNCHANGED <<workflow, target, records, cancellation, batchLock, bounds, answers>>

(* A point fails, or the deadline has passed: the points before it stay. *)
StopBatch(c) ==
    /\ pc[c] = "points" /\ Fault("point")
    /\ Release(c)
    /\ Raise(c, "failed")
    /\ UNCHANGED <<workflow, directories, records, cancellation, answers>>

CancelBatch(c) ==
    /\ pc[c] = "points" /\ cancellation /\ staging.batch.points < Points
    /\ staging' = [staging EXCEPT !.batch.status = "cancelled"]
    /\ Release(c)
    /\ Raise(c, "failed")
    /\ UNCHANGED <<workflow, target, records, cancellation, bounds, answers>>

CompleteBatch(c) ==
    /\ pc[c] = "points" /\ staging.batch.points = Points
    /\ staging' = [staging EXCEPT !.batch.status = "completed"]
    /\ Release(c)
    /\ Collected(c)
    /\ UNCHANGED <<workflow, target, records, cancellation, bounds, answers>>

(* request_circuit_batch_cancellation, by cancel_spectroscopy or cancel_rabi. *)
RequestCancellation ==
    /\ ~cancellation /\ calls < MaxCalls
    /\ cancellation' = TRUE /\ calls' = calls + 1
    /\ UNCHANGED <<workflow, directories, records, batchLock, caller, faults, answers>>

-----------------------------------------------------------------------------
(* The documents, each created only if it is not there. *)

WriteDataset(c) ==
    /\ pc[c] = "collected"
    /\ IF staging = Missing \/ staging.dataset
       THEN Raise(c, "failed") /\ UNCHANGED staging
       ELSE Step(c, "dataset") /\ staging' = [staging EXCEPT !.dataset = TRUE]
    /\ UNCHANGED <<workflow, target, records, cancellation, batchLock, bounds, answers>>

WriteWorkflow(c) ==
    /\ pc[c] = "dataset"
    /\ IF workflow = "spectroscopy"
       THEN staging' = [Cleared(staging) EXCEPT !.workflow = own[c]] /\ marker' = FALSE
       ELSE staging' = [staging EXCEPT !.workflow = own[c]] /\ UNCHANGED marker
    /\ Step(c, "workflow")
    /\ UNCHANGED <<workflow, target, uncertain, cancellation, batchLock, bounds, answers>>

(* write_completed_evidence: the first of them lists the files that are there. *)
WriteTerminal(c) ==
    /\ pc[c] = "workflow" /\ staging.terminal < 3
    /\ staging' = [staging EXCEPT !.terminal = @ + 1,
                                  !.listed = IF staging.terminal = 0 THEN staging.recovery ELSE @]
    /\ Step(c, IF staging.terminal = 2 THEN "check" ELSE "workflow")
    /\ UNCHANGED <<workflow, target, records, cancellation, batchLock, bounds, answers>>

WriteFails(c) ==
    /\ pc[c] \in {"collected", "dataset", "workflow"} /\ Fault("write")
    /\ Raise(c, "failed")
    /\ UNCHANGED <<workflow, directories, records, cancellation, batchLock, answers>>

-----------------------------------------------------------------------------
(* Bug: whatever is there is published. *)
VerifyUnread(c) ==
    /\ pc[c] = "check"
    /\ IF staging # Missing THEN Step(c, "publish") ELSE Raise(c, "failed")
    /\ UNCHANGED <<workflow, directories, records, cancellation, batchLock, bounds, answers>>

(* The staging directory is verified; rabi also compares its request. *)
Verify(c) ==
    /\ pc[c] = "check"
    /\ IF Whole(staging) /\ (workflow = "rabi" => staging.batch.request = wants[c])
       THEN Step(c, "publish") ELSE Raise(c, "failed")
    /\ UNCHANGED <<workflow, directories, records, cancellation, batchLock, bounds, answers>>

(* atomic_publish: a rename that replaces nothing, then the flushes. *)
Publish(c) ==
    /\ pc[c] = "publish"
    /\ IF staging # Missing /\ target = Missing
       THEN target' = staging /\ staging' = Missing /\ Step(c, "flush")
       ELSE Raise(c, "unpublished") /\ UNCHANGED directories
    /\ UNCHANGED <<workflow, records, cancellation, batchLock, bounds, answers>>

PublishFails(c) ==
    /\ \/ pc[c] = "publish" /\ Fault("rename")
       \/ pc[c] = "flush" /\ Fault("flush")
    /\ Raise(c, "unpublished")
    /\ UNCHANGED <<workflow, directories, records, cancellation, batchLock, answers>>

Published(c) ==
    /\ pc[c] = "flush"
    /\ IF c \in resumed
       THEN Step(c, "reopen") /\ UNCHANGED answers
       ELSE Return(c, wants[c], own[c])
    /\ UNCHANGED <<workflow, directories, records, cancellation, batchLock, bounds>>

(* Bug: what is published is returned without a look at its request. *)
ReopenTrusting(c) ==
    /\ pc[c] = "reopen"
    /\ IF Whole(target)
       THEN Return(c, target.batch.request, target.workflow)
       ELSE Leave(c) /\ UNCHANGED answers
    /\ UNCHANGED <<workflow, directories, records, cancellation, batchLock, bounds>>

(* _reopen_published_scan replays the published batch with the request of the call;        *)
(* _open_published compares the stored request.                                            *)
Reopen(c) ==
    /\ pc[c] = "reopen"
    /\ IF Whole(target) /\ target.batch.request = wants[c]
       THEN Return(c, target.batch.request, target.workflow)
       ELSE Leave(c) /\ UNCHANGED answers
    /\ UNCHANGED <<workflow, directories, records, cancellation, batchLock, bounds>>

(* The published batch is replayed under the batch lock too. *)
ReopenBusy(c) ==
    /\ pc[c] = "reopen" /\ workflow = "spectroscopy" /\ batchLock # Nobody
    /\ Leave(c)
    /\ UNCHANGED <<workflow, directories, records, cancellation, batchLock, bounds, answers>>

-----------------------------------------------------------------------------
(* The handler of run_qubit_spectroscopy_scan. *)

(* Bug: the handler removes the staging directory, as that of the calibration does. *)
HandleRemoving(c) ==
    /\ pc[c] \in {"failed", "unpublished"} /\ staging # Missing
    /\ staging' = Missing
    /\ Step(c, "mark")
    /\ UNCHANGED <<workflow, target, records, cancellation, batchLock, bounds, answers>>

Handle(c) ==
    /\ pc[c] \in {"failed", "unpublished"} /\ staging # Missing
    /\ Step(c, "record")
    /\ UNCHANGED <<workflow, directories, records, cancellation, batchLock, bounds, answers>>

(* The staging directory is gone: the publication is uncertain if it is this call's. *)
HandleGone(c) ==
    /\ pc[c] \in {"failed", "unpublished"} /\ staging = Missing
    /\ uncertain' = (uncertain \/ (pc[c] = "unpublished" /\ target # Missing))
    /\ Leave(c)
    /\ UNCHANGED <<workflow, directories, marker, cancellation, batchLock, bounds, answers>>

(* write_recovery_required, or where that fails write_recovery_fallback_marker. *)
Record(c) ==
    /\ pc[c] = "record"
    /\ IF staging = Missing
       THEN Step(c, "mark") /\ UNCHANGED staging
       ELSE Leave(c) /\ staging' = [staging EXCEPT !.recovery = TRUE]
    /\ UNCHANGED <<workflow, target, records, cancellation, batchLock, bounds, answers>>

Mark(c) ==
    /\ pc[c] = "mark"
    /\ marker' = TRUE
    /\ Leave(c)
    /\ UNCHANGED <<workflow, directories, uncertain, cancellation, batchLock, bounds, answers>>

RecordFails(c) ==
    /\ \/ pc[c] = "record" /\ Step(c, "mark")
       \/ pc[c] = "mark" /\ Leave(c)
       \/ pc[c] = "unpublished" /\ staging = Missing /\ target # Missing /\ Leave(c)
    /\ Fault("record")
    /\ UNCHANGED <<workflow, directories, records, cancellation, batchLock, answers>>

Kill(c) ==
    /\ pc[c] # "idle" /\ Fault("kill")
    /\ Leave(c) /\ Release(c)
    /\ UNCHANGED <<workflow, directories, records, cancellation, answers>>

-----------------------------------------------------------------------------
Work(c) ==
    \/ FindTarget(c) \/ FindStaging(c) \/ Claim(c)
    \/ MakeExecution(c) \/ EnsureOutput(c) \/ Busy(c)
    \/ EnterBatch(c) \/ EnterCancelled(c) \/ RefuseBatch(c) \/ ReplayBatch(c)
    \/ RunPoint(c) \/ CancelBatch(c) \/ CompleteBatch(c)
    \/ WriteDataset(c) \/ WriteWorkflow(c) \/ WriteTerminal(c)
    \/ Verify(c) \/ Publish(c) \/ Published(c) \/ Reopen(c) \/ ReopenBusy(c)
    \/ Handle(c) \/ HandleGone(c) \/ Record(c) \/ Mark(c)

Failure(c) ==
    StopBatch(c) \/ WriteFails(c) \/ PublishFails(c) \/ RecordFails(c) \/ Kill(c)

Next ==
    \/ RequestCancellation
    \/ \E c \in Callers : Work(c) \/ Failure(c) \/ \E r \in Requests : Call(c, r)

(* A process goes on with its call, and the retrier calls again. *)
Fairness ==
    /\ \A c \in Callers : WF_vars(Work(c))
    /\ WF_vars(Call(Retrier, ItsRequest))

Spec == Init /\ [][Next]_vars /\ Fairness

-----------------------------------------------------------------------------
(* Every variable stays in its type. *)
TypeOK ==
    /\ workflow \in {"spectroscopy", "rabi"}
    /\ staging \in Directory \cup {Missing} /\ target \in Directory \cup {Missing}
    /\ marker \in BOOLEAN /\ uncertain \in BOOLEAN /\ cancellation \in BOOLEAN
    /\ batchLock \in Callers \cup {Nobody}
    /\ pc \in [Callers -> Phases]
    /\ wants \in [Callers -> Requests \cup {NoRequest}]
    /\ own \in [Callers -> Ids]
    /\ resumed \subseteq Callers
    /\ calls \in 0..MaxCalls /\ faults \in 0..MaxFaults
    /\ answers \subseteq [asked: Requests, got: Requests, id: Ids]

(* What is published is a complete scan over a completed batch, and its recommendation is  *)
(* that of the attempt that bound the batch, whatever attempts and failures followed.       *)
PublishedSound ==
    target # Missing =>
        /\ Whole([target EXCEPT !.recovery = FALSE])
        /\ target.batch.points = Points
        /\ target.workflow = target.batch.metadata

(* Whoever was given a result asked for just this request, and all were given the one       *)
(* result that is published under the operation.                                            *)
AnswersTrue ==
    \A a \in answers :
        /\ a.asked = a.got
        /\ target # Missing /\ a.got = target.batch.request /\ a.id = target.workflow

(* No failure, cancellation or kill takes away a point that was completed: the staging      *)
(* directory only gains points, or becomes the target.                                      *)
ProgressKept ==
    [][staging # Missing =>
           IF staging' = Missing THEN target' = staging
           ELSE /\ staging'.batch.points >= staging.batch.points
                /\ staging.batch.request # NoRequest => staging'.batch.request = staging.batch.request]_vars

Writing(c) == pc[c] \in {"dataset", "workflow", "check", "publish"}

(* Left between its dataset and its last document, or with a recovery record listed as      *)
(* evidence: no call completes such a directory.                                            *)
HalfWritten ==
    /\ staging # Missing /\ staging.dataset
    /\ staging.terminal < 3 \/ staging.listed
    /\ \A c \in Callers : ~Writing(c)

(* A caller that calls again in the end sees the scan published, unless it was cancelled,   *)
(* belongs to another request, or a failure left it half written.                           *)
Settles ==
    <>(\/ target # Missing
       \/ HalfWritten
       \/ /\ staging # Missing
          /\ staging.batch.status = "cancelled" \/ staging.batch.request \in Requests \ {ItsRequest})
===========================================================================
