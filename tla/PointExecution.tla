-------------------------- MODULE PointExecution --------------------------
(***************************************************************************)
(* A circuit batch whose points are executed step by step, while the       *)
(* authorities they are computed under are being upgraded.                 *)
(*                                                                         *)
(* run_calibration_scan_point reads three tracked authorities: the model   *)
(* authority of the projected charge model, the control authority of the   *)
(* electronics and the physics authority of the coefficients.  Each names  *)
(* the digests of its sources, and loads only when the files agree.  The   *)
(* point reads them again and again, in the caller's process and in a      *)
(* worker's: when it starts, when the worker is asked and when it runs,    *)
(* when the result is recorded, when the staging directory is verified and *)
(* when the published one is.  No lock covers these files.                 *)
(***************************************************************************)
EXTENDS CircuitBatch

CONSTANTS
    Versions,     \* the versions of an authority, 1..Versions
    MaxUpgrades   \* bound on the upgrades begun

ASSUME VersionAssumption == Versions \in Nat \ {0} /\ MaxUpgrades \in Nat

Kinds == {"model", "control", "physics"}
Parts == {"sources", "approved"}

VARIABLES
    authority,  \* kind -> the version of its sources, and the version approved
    step,       \* caller -> where it is in the point it executes or reopens
    known,      \* caller -> the model authority it has resolved
    asked,      \* caller -> the model authority its worker must answer with
    draft,      \* caller -> what the artifact at hand was made with
    seen,       \* caller -> the authorities the verification under way has compared
    artifact,   \* batch -> point -> what its model evidence was made with
    held        \* batch -> point -> history: the authorities that held when it was published

files == <<artifact, held>>
inFlight == <<step, known, asked, draft, seen>>
execution == <<authority, files, inFlight>>

Steps == {"none", "begin", "control", "coefficients", "ask", "work", "read", "record",
          "staged", "checked", "published", "reopen", "reopened", "verified"}

Blank == [k \in Kinds \cup {"worker", "recorded"} |-> 0]
Fresh == [k \in Kinds |-> [part \in Parts |-> 1]]

ExecutionInit ==
    /\ Init
    /\ authority = Fresh
    /\ step = [c \in Callers |-> "none"]
    /\ known = [c \in Callers |-> 0] /\ asked = [c \in Callers |-> 0]
    /\ draft = [c \in Callers |-> Blank]
    /\ seen = [c \in Callers |-> {}]
    /\ artifact = [b \in Batches |-> [p \in 1..Points |-> Blank]]
    /\ held = [b \in Batches |-> [p \in 1..Points |-> {}]]

-----------------------------------------------------------------------------
(* An authority loads when every source it names is as it names it. *)
Loads(kind) == authority[kind].sources = authority[kind].approved
Approved(kind) == authority[kind].approved

(* An authority is whole, and is the one the artifact was made with. *)
Holds(kind, evidenced) == Loads(kind) /\ evidenced[kind] = Approved(kind)

(* The verification of the control point and of the coefficients: their     *)
(* context is built anew, and they were made under it.                      *)
ControlVerifies(c) == Holds("control", draft[c])
CoefficientsVerify(c) == Holds("physics", draft[c])

(* The result was computed and recorded under the authority its verifier   *)
(* has resolved, and the digest it recorded is that of the file now.       *)
ResultVerifies(c) ==
    /\ draft[c].model = known[c] /\ draft[c].worker = known[c]
    /\ draft[c].recorded = Approved("model")

Verifying(c) == step[c] \in {"staged", "reopened"}

(* What the step at hand reads and compares; it raises otherwise. *)
Passes(c) ==
    CASE step[c] \in {"begin", "ask", "work", "published", "reopen"} -> Loads("model")
      [] step[c] = "control" -> Loads("control")
      [] step[c] = "coefficients" -> Loads("physics")
      [] step[c] = "read" -> draft[c].worker = asked[c]
      [] step[c] = "checked" -> ~Modelled(c)
      [] Verifying(c) /\ seen[c] = {} -> ControlVerifies(c)
      [] Verifying(c) /\ seen[c] = {"control"} -> CoefficientsVerify(c)
      [] Verifying(c) /\ seen[c] = {"control", "physics"} -> ResultVerifies(c)
      [] OTHER -> TRUE

At(c, s) == step[c] = s /\ Passes(c)
To(c, s) == step' = [step EXCEPT ![c] = s]
Made(c, part, version) == draft' = [draft EXCEPT ![c][part] = version]

Rest(c) ==
    /\ step' = [step EXCEPT ![c] = "none"]
    /\ known' = [known EXCEPT ![c] = 0] /\ asked' = [asked EXCEPT ![c] = 0]
    /\ draft' = [draft EXCEPT ![c] = Blank]
    /\ seen' = [seen EXCEPT ![c] = {}]

-----------------------------------------------------------------------------
(* _adopt_or_execute, for the next point of the batch. *)
BeginPoint(c) ==
    /\ step[c] = "none" /\ Left(c) /\ Free(c) /\ ~Modelled(c) /\ ~Evident(c)
    /\ To(c, "begin")
    /\ UNCHANGED <<vars, authority, files, known, asked, draft, seen>>

BeginReopen(c) ==
    /\ step[c] = "none" /\ Left(c) /\ Free(c) /\ Modelled(c) /\ Evident(c)
    /\ draft' = [draft EXCEPT ![c] = artifact[job[c]][Point(c)]]
    /\ To(c, "reopen")
    /\ UNCHANGED <<vars, authority, files, known, asked, seen>>

(* The authority is resolved when the point starts ... *)
Admit(c) ==
    /\ At(c, "begin")
    /\ known' = [known EXCEPT ![c] = Approved("model")]
    /\ Made(c, "model", Approved("model"))
    /\ To(c, "control")
    /\ UNCHANGED <<vars, authority, files, asked, seen>>

(* Bug: what was verified before its publication is not verified again. *)
TrustStaged(c) ==
    /\ At(c, "published") \/ At(c, "reopen")
    /\ known' = [known EXCEPT ![c] = Approved("model")]
    /\ To(c, IF step[c] = "published" THEN "verified" ELSE "reopened")
    /\ UNCHANGED <<vars, authority, files, asked, draft, seen>>

(* ... and again when what was published is verified. *)
Resolve(c) ==
    /\ At(c, "published") \/ At(c, "reopen")
    /\ known' = [known EXCEPT ![c] = Approved("model")]
    /\ To(c, "reopened")
    /\ UNCHANGED <<vars, authority, files, asked, draft, seen>>

PublishControl(c) ==
    /\ At(c, "control")
    /\ Made(c, "control", Approved("control"))
    /\ To(c, "coefficients")
    /\ UNCHANGED <<vars, authority, files, known, asked, seen>>

PublishCoefficients(c) ==
    /\ At(c, "coefficients")
    /\ Made(c, "physics", Approved("physics"))
    /\ To(c, "ask")
    /\ UNCHANGED <<vars, authority, files, known, asked, seen>>

(* The caller resolves the authority its worker has to answer with ... *)
AskWorker(c) ==
    /\ At(c, "ask")
    /\ asked' = [asked EXCEPT ![c] = Approved("model")]
    /\ To(c, "work")
    /\ UNCHANGED <<vars, authority, files, known, draft, seen>>

(* ... the worker, a process of its own, resolves the one it works under,  *)
RunWorker(c) ==
    /\ At(c, "work")
    /\ Made(c, "worker", Approved("model"))
    /\ To(c, "read")
    /\ UNCHANGED <<vars, authority, files, known, asked, seen>>

(* and the caller reads what it left. *)
ReadResult(c) ==
    /\ At(c, "read")
    /\ To(c, "record")
    /\ UNCHANGED <<vars, authority, files, known, asked, draft, seen>>

(* The result names the authority of the start, and the digest of the file *)
(* as it is now.                                                           *)
WriteResult(c) ==
    /\ At(c, "record")
    /\ Made(c, "recorded", Approved("model"))
    /\ To(c, "staged")
    /\ UNCHANGED <<vars, authority, files, known, asked, seen>>

VerifyControl(c) ==
    /\ Verifying(c) /\ seen[c] = {} /\ Passes(c)
    /\ seen' = [seen EXCEPT ![c] = {"control"}]
    /\ UNCHANGED <<vars, authority, files, step, known, asked, draft>>

VerifyCoefficients(c) ==
    /\ Verifying(c) /\ seen[c] = {"control"} /\ Passes(c)
    /\ seen' = [seen EXCEPT ![c] = {"control", "physics"}]
    /\ UNCHANGED <<vars, authority, files, step, known, asked, draft>>

VerifyResult(c) ==
    /\ Verifying(c) /\ seen[c] = {"control", "physics"} /\ Passes(c)
    /\ seen' = [seen EXCEPT ![c] = {}]
    /\ To(c, IF step[c] = "staged" THEN "checked" ELSE "verified")
    /\ UNCHANGED <<vars, authority, files, known, asked, draft>>

(* The rename of the staging directory, refused when the point is there. *)
PublishModel(c) ==
    /\ At(c, "checked")
    /\ model' = [model EXCEPT ![job[c]] = @ \cup {Point(c)}]
    /\ artifact' = [artifact EXCEPT ![job[c]][Point(c)] = draft[c]]
    /\ held' = [held EXCEPT ![job[c]][Point(c)] = {kind \in Kinds : Holds(kind, draft[c])}]
    /\ Goto(c, "modelled") /\ To(c, "published")
    /\ UNCHANGED <<made, request, head, stale, receipts, evidence, cancellation, locks, job, wants,
                   local, after, reused, token, answers, faults>>
    /\ UNCHANGED <<authority, known, asked, draft, seen>>

RecordEvidence(c) ==
    /\ At(c, "verified") /\ PublishEvidence(c)
    /\ Rest(c)
    /\ UNCHANGED <<authority, files>>

(* What was verified is adopted, whatever was asked meanwhile. *)
AdoptVerified(c) ==
    /\ At(c, "verified") /\ pc[c] = "points"
    /\ Goto(c, "result") /\ Rest(c)
    /\ UNCHANGED <<disk, cancellation, locks, job, wants, local, after, reused, token, answers,
                   faults>>
    /\ UNCHANGED <<authority, files>>

(* A step that does not pass raises: what is staged is removed, what is    *)
(* published stays, and the attempt is recorded as interrupted.            *)
Refuse(c) ==
    /\ step[c] # "none" /\ ~Passes(c)
    /\ End(c, "interrupted") /\ Rest(c)
    /\ UNCHANGED <<disk, cancellation, faults, authority, files>>

-----------------------------------------------------------------------------
(* An upgrade replaces the sources of an authority and the authority that   *)
(* names them, one after the other, in either order, and is not taken back. *)
Begun == {upgrade \in Kinds \X (1..Versions) :
              \E part \in Parts : upgrade[2] < authority[upgrade[1]][part]}

Edit(kind, part) ==
    /\ authority[kind][part] < Versions
    /\ \A other \in Parts : authority[kind][part] <= authority[kind][other]
    /\ authority' = [authority EXCEPT ![kind][part] = @ + 1]
    /\ UNCHANGED <<vars, files, inFlight>>

BeginEdit(kind) ==
    /\ Loads(kind) /\ Cardinality(Begun) < MaxUpgrades
    /\ \E part \in Parts : Edit(kind, part)

FinishEdit(kind) == ~Loads(kind) /\ \E part \in Parts : Edit(kind, part)

(* The steps of the batch outside a point ... *)
BatchStep(c) ==
    /\ step[c] = "none"
    /\ \/ LockBatch(c) \/ LockResource(c) \/ Busy(c)
       \/ Conflict(c) \/ Unopenable(c) \/ Replay(c) \/ AlreadyCancelled(c) \/ Resume(c)
       \/ Make(c) \/ Bind(c)
       \/ CancelBefore(c) \/ TornBefore(c) \/ Start(c) \/ Begin(c)
       \/ CancelBetween(c) \/ TornBetween(c) \/ Deadline(c) \/ Incomplete(c)
       \/ AlreadyReceipted(c) \/ WriteReceipt(c) \/ Finish(c)
       \/ SaveHead(c) \/ Raise(c) \/ Verify(c)
    /\ UNCHANGED execution

PointStep(c) ==
    \/ BeginPoint(c) \/ BeginReopen(c) \/ Admit(c) \/ Resolve(c)
    \/ PublishControl(c) \/ PublishCoefficients(c) \/ AskWorker(c) \/ RunWorker(c) \/ ReadResult(c)
    \/ WriteResult(c) \/ VerifyControl(c) \/ VerifyCoefficients(c) \/ VerifyResult(c)
    \/ PublishModel(c) \/ RecordEvidence(c) \/ AdoptVerified(c) \/ Refuse(c)

(* ... and its failures, within a point or outside it. *)
FailStep(c) == Fail(c) /\ Rest(c) /\ UNCHANGED <<authority, files>>

CallOf(c, b, r) == Call(c, b, r) /\ UNCHANGED execution
CancelWriteOf(b) == CancelWrite(b) /\ UNCHANGED execution

ExecutionNext ==
    \/ \E c \in Callers :
          \/ \E b \in Batches, r \in Requests : CallOf(c, b, r)
          \/ BatchStep(c) \/ PointStep(c) \/ FailStep(c)
          \/ CancelToken(c) /\ UNCHANGED execution
    \/ \E b \in Batches : CancelWriteOf(b) \/ (CancelCreate(b) /\ UNCHANGED execution)
    \/ \E kind \in Kinds : BeginEdit(kind) \/ FinishEdit(kind)

everything == <<vars, execution>>
ExecutionSpec == ExecutionInit /\ [][ExecutionNext]_everything

(* A running call goes on, a cancellation request is written to its end, an *)
(* upgrade that was begun is finished, and an operation that was            *)
(* interrupted is called again with its request.                            *)
RetryOf(c, b) == \E r \in Requests : request[b] = r /\ CallOf(c, b, r)

FairExecution ==
    /\ ExecutionSpec
    /\ \A c \in Callers :
          /\ WF_everything(BatchStep(c) \/ PointStep(c))
          /\ \A b \in Batches : SF_everything(RetryOf(c, b))
    /\ \A b \in Batches : WF_everything(CancelWriteOf(b))
    /\ \A kind \in Kinds : WF_everything(FinishEdit(kind))

-----------------------------------------------------------------------------
(* Versions are versions of an authority, and a step belongs to a point.   *)
ExecutionTypeOK ==
    /\ TypeOK
    /\ authority \in [Kinds -> [Parts -> 1..Versions]]
    /\ step \in [Callers -> Steps]
    /\ known \in [Callers -> 0..Versions] /\ asked \in [Callers -> 0..Versions]
    /\ draft \in [Callers -> [DOMAIN Blank -> 0..Versions]]
    /\ seen \in [Callers -> SUBSET Kinds]
    /\ artifact \in [Batches -> [1..Points -> [DOMAIN Blank -> 0..Versions]]]
    /\ held \in [Batches -> [1..Points -> SUBSET Kinds]]

(* A point that has circuit evidence was made under authorities that held   *)
(* together: when its model evidence was published, each of the three was   *)
(* whole and was the one the point was made with, the worker's process, its *)
(* caller and the record agree, whatever was upgraded during the minutes    *)
(* that it took.                                                            *)
Coherent ==
    \A b \in Batches : \A p \in evidence[b] :
        /\ held[b][p] = Kinds
        /\ artifact[b][p].worker = artifact[b][p].model
        /\ artifact[b][p].recorded = artifact[b][p].model

(* What no call can get past: a batch killed before its first head, a       *)
(* receipt the head does not name, model evidence without circuit evidence, *)
(* and evidence the head does not name, of authorities since upgraded.      *)
Stuck(b) ==
    LET p == head[b].completed + 1
    IN \/ head[b] = Absent
       \/ p \in receipts[b]
       \/ p \in model[b] /\ p \notin evidence[b]
       \/ p \in evidence[b] /\ \E kind \in Kinds : artifact[b][p][kind] # Approved(kind)

(* A batch that is called again and again is completed or cancelled, with  *)
(* points that fail, kills, deadlines and upgrades in between, unless it   *)
(* is stuck for ever.                                                      *)
Settles ==
    \A b \in Batches :
        <>(request[b] # NoRequest) =>
            <>(head[b].status \in {"completed", "cancelled"}) \/ <>[]Stuck(b)
===========================================================================
