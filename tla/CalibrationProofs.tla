------------------------- MODULE CalibrationProofs -------------------------
(***************************************************************************)
(* Proofs about the calibrations.  Of CalibrationScan, for any callers,    *)
(* requests, points and failures: what is published, and what callers are  *)
(* told about it.  Of CalibrationDecision, for any callers, targets,       *)
(* outputs, axes and limits: every calibration is traceable to eligible    *)
(* runs, and follows from the parent it names.                             *)
(***************************************************************************)
EXTENDS CalibrationScan, CalibrationDecision, FiniteSetTheorems, TLAPS

(* A complete scan of the attempt that bound its batch, with or without a recovery record. *)
Finished(d) ==
    /\ d # Missing
    /\ d.batch.status = "completed" /\ d.batch.points = Points
    /\ d.dataset /\ d.workflow # NoId /\ d.workflow = d.batch.metadata
    /\ d.terminal = 3 /\ ~d.listed

(* A first-hand call that has written the dataset, which only one call can. *)
Author(c) ==
    \/ pc[c] \in {"dataset", "workflow"}
    \/ pc[c] \in {"check", "publish"} /\ c \notin resumed

(* A call in progress has a request, and the staging directory it writes in is there. *)
CallInv ==
    \A c \in Callers :
        /\ pc[c] # "idle" => wants[c] \in Requests
        /\ pc[c] = "points" =>
              /\ batchLock = c
              /\ staging # Missing /\ staging.batch.status = "open"
              /\ staging.batch.request = wants[c]
        /\ pc[c] \in {"dataset", "workflow"} => staging # Missing
        /\ pc[c] = "claim" => c \in resumed

BatchInv ==
    staging # Missing =>
        /\ staging.batch.status = "absent" => staging.batch = NoBatch
        /\ staging.batch.status = "completed" => staging.batch.points = Points

(* Until the scan is published, the staging directory is what the calls left in it. *)
UnpublishedInv ==
    target = Missing =>
        /\ staging # Missing =>
              /\ staging.dataset \/ staging.terminal = 0
              /\ \/ staging.workflow = NoId
                 \/ /\ staging.dataset /\ staging.batch.status = "completed"
                    /\ staging.workflow = staging.batch.metadata
        /\ \A c \in Callers :
              /\ pc[c] = "collected" \/ Author(c) =>
                    /\ staging # Missing /\ staging.batch.status = "completed"
                    /\ staging.batch.request = wants[c] /\ staging.batch.metadata = own[c]
              /\ Author(c) => staging.dataset /\ \A d \in Callers : Author(d) => c = d
              /\ pc[c] = "dataset" => staging.workflow = NoId
              /\ pc[c] \in {"dataset", "workflow"} => staging.terminal < 3
              /\ Author(c) /\ pc[c] # "dataset" => staging.workflow = own[c]
              /\ pc[c] = "publish" => Finished(staging)

(* Once it is published, the callers are told what it is. *)
PublishedInv ==
    /\ target # Missing => Finished(target)
    /\ \A c \in Callers : pc[c] = "flush" /\ c \notin resumed =>
          target # Missing /\ target.batch.request = wants[c] /\ target.workflow = own[c]

Inv == TypeOK /\ CallInv /\ BatchInv /\ UnpublishedInv /\ PublishedInv /\ AnswersTrue

LEMMA NoIdType == NoId \in Nat /\ NoId > 0 /\ Derived \in Ids /\ NoId \in Ids
  BY FS_CardinalityType, ScanAssumption DEF NoId, Derived, Ids

LEMMA InitInv == Init => Inv
<1> SUFFICES ASSUME Init PROVE Inv
  OBVIOUS
<1>1. TypeOK
  <2>1. calls \in 0..MaxCalls /\ faults \in 0..MaxFaults
    BY ScanAssumption DEF Init
  <2>2. pc \in [Callers -> Phases] /\ own \in [Callers -> Ids]
    BY NoIdType DEF Init, Phases
  <2>3. wants \in [Callers -> Requests \cup {NoRequest}]
    BY DEF Init
  <2>4. answers \subseteq [asked: Requests, got: Requests, id: Ids]
    BY DEF Init
  <2> QED BY <2>1, <2>2, <2>3, <2>4 DEF Init, TypeOK
<1>2. CallInv /\ BatchInv
  BY DEF Init, CallInv, BatchInv
<1>3. UnpublishedInv /\ PublishedInv /\ AnswersTrue
  BY DEF Init, UnpublishedInv, PublishedInv, AnswersTrue, Author
<1> QED BY <1>1, <1>2, <1>3 DEF Inv

-----------------------------------------------------------------------------
(* A step that leaves the directories and the answers alone, and after which its caller is *)
(* not in the batch and writes nothing.                                                    *)
Elsewhere == {"idle", "target", "staging", "run", "batch", "lock", "reopen",
              "failed", "record", "mark", "unpublished"}

Aside(c) ==
    /\ pc[c] # "idle"
    /\ UNCHANGED <<workflow, directories, answers>>
    /\ \E p \in Elsewhere : Goto(c, p) /\ (p # "idle" => wants' = wants)
    /\ wants' \in {wants, [wants EXCEPT ![c] = NoRequest]}
    /\ own' \in {own, [own EXCEPT ![c] = NoId]}
    /\ resumed' \in {resumed, resumed \ {c}}
    /\ batchLock' = batchLock \/ Release(c)
    /\ marker' \in BOOLEAN /\ uncertain' \in BOOLEAN /\ cancellation' \in BOOLEAN
    /\ calls' \in 0..MaxCalls /\ faults' \in 0..MaxFaults

(* Such a step keeps the invariant. *)
LEMMA AsideInv == ASSUME Inv, NEW c \in Callers, Aside(c) PROVE Inv'
<1> USE DEF directories
<1> PICK p \in Elsewhere : Goto(c, p) /\ (p # "idle" => wants' = wants)
  BY DEF Aside
<1>1. /\ pc' = [pc EXCEPT ![c] = p] /\ p \in Phases
      /\ p \notin {"points", "collected", "dataset", "workflow", "claim", "check", "publish", "flush"}
  BY DEF Goto, Elsewhere, Phases
<1>2. TypeOK'
  BY <1>1, NoIdType DEF Inv, TypeOK, Aside, Release
<1>3. ASSUME NEW d \in Callers, d # c
      PROVE  /\ pc'[d] = pc[d] /\ wants'[d] = wants[d] /\ own'[d] = own[d]
             /\ d \in resumed' <=> d \in resumed
             /\ batchLock = d => batchLock' = d
  <2>1. pc'[d] = pc[d]
    BY <1>1, <1>3 DEF Inv, TypeOK
  <2>2. wants'[d] = wants[d] /\ own'[d] = own[d]
    BY <1>3 DEF Inv, TypeOK, Aside
  <2>3. d \in resumed' <=> d \in resumed
    BY <1>3 DEF Aside
  <2>4. batchLock = d => batchLock' = d
    BY <1>3 DEF Aside, Release
  <2> QED BY <2>1, <2>2, <2>3, <2>4
<1>4. pc'[c] = p /\ (p # "idle" => wants'[c] = wants[c])
  BY <1>1 DEF Inv, TypeOK
<1>5. staging' = staging /\ target' = target /\ answers' = answers
  BY DEF Aside
<1>6. CallInv' /\ BatchInv'
  <2>1. BatchInv'
    BY <1>5 DEF Inv, BatchInv
  <2>2. CallInv'
    BY <1>1, <1>3, <1>4, <1>5 DEF Inv, CallInv, Aside
  <2> QED BY <2>1, <2>2
<1>7. UnpublishedInv'
  <2>1. \A d \in Callers : Author(d)' => d # c /\ Author(d)
    BY <1>1, <1>3, <1>4 DEF Author
  <2> QED BY <1>1, <1>3, <1>4, <1>5, <2>1 DEF Inv, UnpublishedInv, Finished
<1>8. PublishedInv' /\ AnswersTrue'
  <2>1. AnswersTrue'
    BY <1>5 DEF Inv, AnswersTrue
  <2>2. PublishedInv'
    BY <1>1, <1>3, <1>4, <1>5 DEF Inv, PublishedInv, Finished
  <2> QED BY <2>1, <2>2
<1> QED BY <1>2, <1>6, <1>7, <1>8 DEF Inv

(* The steps that are of this kind. *)
LEMMA AsideSteps ==
    ASSUME Inv, NEW c \in Callers,
           \/ FindTarget(c) \/ MakeExecution(c) \/ Busy(c) \/ RefuseBatch(c) \/ ReopenBusy(c)
           \/ Handle(c) \/ HandleGone(c) \/ Mark(c) \/ Failure(c)
    PROVE  Aside(c)
<1>0. ASSUME NEW k, Fault(k) PROVE faults' \in 0..MaxFaults /\ calls' \in 0..MaxCalls
  BY <1>0, ScanAssumption DEF Inv, TypeOK, Fault
<1> USE DEF Aside, Elsewhere, Step, Goto, Leave, Raise, Release, directories, records, caller, bounds
<1>1. FindTarget(c) => Aside(c)
  BY DEF Inv, TypeOK, FindTarget
<1>2. MakeExecution(c) => Aside(c)
  BY DEF Inv, TypeOK, MakeExecution
<1>3. Busy(c) => Aside(c)
  BY DEF Inv, TypeOK, Busy
<1>4. RefuseBatch(c) => Aside(c)
  BY DEF Inv, TypeOK, RefuseBatch
<1>5. StopBatch(c) => Aside(c)
  BY <1>0 DEF Inv, TypeOK, StopBatch
<1>6. ReopenBusy(c) => Aside(c)
  BY DEF Inv, TypeOK, ReopenBusy
<1>7. WriteFails(c) => Aside(c)
  BY <1>0 DEF Inv, TypeOK, WriteFails
<1>8. PublishFails(c) => Aside(c)
  BY <1>0 DEF Inv, TypeOK, PublishFails
<1>9. Handle(c) => Aside(c)
  BY DEF Inv, TypeOK, Handle
<1>10. HandleGone(c) => Aside(c)
  BY DEF Inv, TypeOK, HandleGone
<1>11. Mark(c) => Aside(c)
  BY DEF Inv, TypeOK, Mark
<1>12. RecordFails(c) => Aside(c)
  BY <1>0 DEF Inv, TypeOK, RecordFails
<1>13. Kill(c) => Aside(c)
  BY <1>0 DEF Inv, TypeOK, Kill
<1> QED BY <1>1, <1>2, <1>3, <1>4, <1>5, <1>6, <1>7, <1>8, <1>9, <1>10, <1>11, <1>12, <1>13 DEF Failure

-----------------------------------------------------------------------------
(* A new staging directory is a directory. *)
LEMMA EmptyType == /\ Empty \in Directory /\ Empty # Missing
                   /\ Empty.batch = NoBatch /\ Empty.batch.status = "absent"
                   /\ Empty.workflow = NoId /\ ~Empty.dataset /\ Empty.terminal = 0
<1>1. NoBatch \in Batch /\ NoBatch.status = "absent"
  BY NoIdType, ScanAssumption DEF NoBatch, Batch
<1>2. Empty \in Directory
  BY <1>1, NoIdType DEF Empty, Directory
<1> QED BY <1>1, <1>2, MissingAssumption DEF Empty

(* A call begins with a request and an id. *)
LEMMA CallKeeps == ASSUME Inv, NEW c \in Callers, NEW r \in Requests, Call(c, r) PROVE Inv'
<1>1. TypeOK'
  <2>1. calls' \in 0..MaxCalls
    BY ScanAssumption DEF Inv, TypeOK, Call
  <2>2. PICK id \in Drawn : own' = [own EXCEPT ![c] = id]
    BY DEF Call
  <2>3. id \in Ids
    BY NoIdType DEF Drawn, Ids
  <2> QED BY <2>1, <2>2, <2>3 DEF Inv, TypeOK, Call, Goto, Phases, directories, records
<1>2. \A d \in Callers : d # c =>
         /\ pc'[d] = pc[d] /\ wants'[d] = wants[d] /\ own'[d] = own[d]
         /\ d \in resumed' <=> d \in resumed
  BY DEF Inv, TypeOK, Call, Drawn, Goto, directories, records, bounds
<1>3. /\ pc[c] = "idle" /\ pc'[c] = "target" /\ wants'[c] \in Requests
      /\ staging' = staging /\ batchLock' = batchLock
      /\ target' = target /\ answers' = answers
  BY DEF Inv, TypeOK, Call, Drawn, Goto, directories, records, bounds
<1>4. CallInv' /\ BatchInv'
  BY <1>2, <1>3 DEF Inv, CallInv, BatchInv
<1>5. UnpublishedInv'
  BY <1>2, <1>3 DEF Inv, UnpublishedInv, BatchInv, CallInv, Author, Finished
<1>6. PublishedInv' /\ AnswersTrue'
  BY <1>2, <1>3 DEF Inv, PublishedInv, AnswersTrue, Finished
<1> QED BY <1>1, <1>4, <1>5, <1>6 DEF Inv

(* The staging directory is made if it is not there. *)
LEMMA FindStagingKeeps == ASSUME Inv, NEW c \in Callers, FindStaging(c) PROVE Inv'
<1>0. /\ staging' \in Directory /\ staging' # Missing
      /\ staging' = IF staging = Missing THEN Empty ELSE staging
  BY NoIdType, EmptyType, MissingAssumption, ScanAssumption DEF Inv, TypeOK, CallInv, FindStaging, Step, Goto, records, bounds
<1>1. TypeOK'
  BY <1>0, NoIdType, ScanAssumption DEF Inv, TypeOK, CallInv, Phases, FindStaging, Step, Goto, records, bounds
<1>2. \A d \in Callers : d # c =>
         /\ pc'[d] = pc[d] /\ wants'[d] = wants[d] /\ own'[d] = own[d]
         /\ d \in resumed' <=> d \in resumed
  BY DEF Inv, TypeOK, FindStaging, Step, Goto, records, bounds
<1>3. /\ pc[c] = "staging" /\ pc'[c] \in {"claim", "run"} /\ (pc'[c] = "claim" => c \in resumed')
      /\ batchLock' = batchLock
      /\ target' = target /\ answers' = answers /\ wants'[c] = wants[c]
  BY DEF Inv, TypeOK, FindStaging, Step, Goto, records, bounds
<1>4. CallInv' /\ BatchInv'
  BY <1>0, <1>2, <1>3, EmptyType DEF Inv, CallInv, BatchInv
<1>5. UnpublishedInv'
  BY <1>0, <1>2, <1>3, EmptyType DEF Inv, UnpublishedInv, BatchInv, CallInv, Author, Finished
<1>6. PublishedInv' /\ AnswersTrue'
  BY <1>2, <1>3 DEF Inv, PublishedInv, AnswersTrue, Finished
<1> QED BY <1>1, <1>4, <1>5, <1>6 DEF Inv

(* A finished staging directory loses its recovery record. *)
LEMMA ClaimKeeps == ASSUME Inv, NEW c \in Callers, Claim(c) PROVE Inv'
<1>0. /\ staging' \in Directory \cup {Missing} /\ (staging' = Missing <=> staging = Missing)
      /\ staging # Missing => /\ staging'.batch = staging.batch /\ staging'.dataset = staging.dataset
                              /\ staging'.workflow = staging.workflow
                              /\ staging'.terminal = staging.terminal /\ staging'.listed = staging.listed
  <2>1. CASE staging = Missing
    BY <2>1 DEF Claim, Cleared, Step, Goto, directories
  <2>2. CASE staging # Missing
    <3>1. staging \in Directory
      BY <2>2 DEF Inv, TypeOK
    <3>2. staging' \in Directory
      BY <2>2, <3>1 DEF Claim, Cleared, Step, Goto, directories, Directory
    <3> QED BY <2>2, <3>1, <3>2, MissingAssumption DEF Claim, Cleared, Step, Goto, directories, Directory
  <2> QED BY <2>1, <2>2
<1>1. TypeOK'
  BY <1>0, NoIdType, ScanAssumption DEF Inv, TypeOK, CallInv, Phases, Claim, Step, Goto, bounds
<1>2. \A d \in Callers : d # c =>
         /\ pc'[d] = pc[d] /\ wants'[d] = wants[d] /\ own'[d] = own[d]
         /\ d \in resumed' <=> d \in resumed
  BY DEF Inv, TypeOK, Claim, Step, Goto, bounds
<1>3. /\ pc[c] = "claim" /\ pc'[c] = "check" /\ resumed' = resumed /\ batchLock' = batchLock
      /\ target' = target /\ answers' = answers /\ wants'[c] = wants[c]
  BY DEF Inv, TypeOK, Claim, Step, Goto, bounds
<1>4. CallInv' /\ BatchInv'
  BY <1>0, <1>2, <1>3 DEF Inv, CallInv, BatchInv
<1>5. UnpublishedInv'
  BY <1>0, <1>2, <1>3 DEF Inv, UnpublishedInv, BatchInv, CallInv, Author, Finished
<1>6. PublishedInv' /\ AnswersTrue'
  BY <1>2, <1>3 DEF Inv, PublishedInv, AnswersTrue, Finished
<1> QED BY <1>1, <1>4, <1>5, <1>6 DEF Inv

(* The output of the batch is made if it is not there. *)
LEMMA EnsureOutputKeeps == ASSUME Inv, NEW c \in Callers, EnsureOutput(c) PROVE Inv'
<1>0. /\ staging' \in Directory /\ staging' # Missing
      /\ staging' = IF staging = Missing THEN Empty ELSE staging
  BY NoIdType, EmptyType, MissingAssumption, ScanAssumption DEF Inv, TypeOK, CallInv, EnsureOutput, Step, Goto, records, bounds
<1>1. TypeOK'
  BY <1>0, NoIdType, ScanAssumption DEF Inv, TypeOK, CallInv, Phases, EnsureOutput, Step, Goto, records, bounds
<1>2. \A d \in Callers : d # c =>
         /\ pc'[d] = pc[d] /\ wants'[d] = wants[d] /\ own'[d] = own[d]
         /\ d \in resumed' <=> d \in resumed
  BY DEF Inv, TypeOK, EnsureOutput, Step, Goto, records, bounds
<1>3. /\ pc[c] = "batch" /\ pc'[c] = "lock" /\ batchLock' = batchLock
      /\ target' = target /\ answers' = answers /\ wants'[c] = wants[c]
  BY DEF Inv, TypeOK, EnsureOutput, Step, Goto, records, bounds
<1>4. CallInv' /\ BatchInv'
  BY <1>0, <1>2, <1>3, EmptyType DEF Inv, CallInv, BatchInv
<1>5. UnpublishedInv'
  BY <1>0, <1>2, <1>3, EmptyType DEF Inv, UnpublishedInv, BatchInv, CallInv, Author, Finished
<1>6. PublishedInv' /\ AnswersTrue'
  BY <1>2, <1>3 DEF Inv, PublishedInv, AnswersTrue, Finished
<1> QED BY <1>1, <1>4, <1>5, <1>6 DEF Inv

(* The batch is bound, or taken up. *)
LEMMA EnterBatchKeeps == ASSUME Inv, NEW c \in Callers, EnterBatch(c) PROVE Inv'
<1>0. /\ staging' \in Directory /\ staging' # Missing
      /\ staging # Missing /\ staging.batch.status \in {"absent", "open"}
      /\ staging'.batch.status = "open" /\ staging'.batch.request = wants[c]
      /\ staging'.dataset = staging.dataset /\ staging'.workflow = staging.workflow
      /\ staging'.terminal = staging.terminal
  BY NoIdType, EmptyType, MissingAssumption, ScanAssumption DEF Inv, TypeOK, CallInv, EnterBatch, Enterable, Step, Goto, records, bounds, Bound, Directory, Batch
<1>1. TypeOK'
  BY <1>0, NoIdType, ScanAssumption DEF Inv, TypeOK, CallInv, Phases, EnterBatch, Enterable, Step, Goto, records, bounds
<1>2. \A d \in Callers : d # c =>
         /\ pc'[d] = pc[d] /\ wants'[d] = wants[d] /\ own'[d] = own[d]
         /\ d \in resumed' <=> d \in resumed
  BY DEF Inv, TypeOK, EnterBatch, Enterable, Step, Goto, records, bounds
<1>3. /\ pc[c] = "lock" /\ pc'[c] = "points" /\ batchLock = Nobody /\ batchLock' = c
      /\ target' = target /\ answers' = answers /\ wants'[c] = wants[c]
  BY DEF Inv, TypeOK, EnterBatch, Enterable, Step, Goto, records, bounds
<1>4. CallInv' /\ BatchInv'
  BY <1>0, <1>2, <1>3, ScanAssumption DEF Inv, CallInv, BatchInv
<1>5. UnpublishedInv'
  BY <1>0, <1>2, <1>3, ScanAssumption DEF Inv, UnpublishedInv, BatchInv, CallInv, Author, Finished
<1>6. PublishedInv' /\ AnswersTrue'
  BY <1>2, <1>3 DEF Inv, PublishedInv, AnswersTrue, Finished
<1> QED BY <1>1, <1>4, <1>5, <1>6 DEF Inv

(* The batch is found cancelled. *)
LEMMA EnterCancelledKeeps == ASSUME Inv, NEW c \in Callers, EnterCancelled(c) PROVE Inv'
<1>0. /\ staging' \in Directory /\ staging' # Missing
      /\ staging # Missing /\ staging.batch.status \in {"absent", "open"}
      /\ staging'.batch.status = "cancelled"
      /\ staging'.dataset = staging.dataset /\ staging'.workflow = staging.workflow
      /\ staging'.terminal = staging.terminal
  BY NoIdType, EmptyType, MissingAssumption, ScanAssumption DEF Inv, TypeOK, CallInv, EnterCancelled, Enterable, Raise, Leave, Step, Goto, records, bounds, Bound, Directory, Batch
<1>1. TypeOK'
  BY <1>0, NoIdType, ScanAssumption DEF Inv, TypeOK, CallInv, Phases, EnterCancelled, Enterable, Raise, Leave, Step, Goto, records, bounds
<1>2. \A d \in Callers : d # c =>
         /\ pc'[d] = pc[d] /\ wants'[d] = wants[d] /\ own'[d] = own[d]
         /\ d \in resumed' <=> d \in resumed
  BY DEF Inv, TypeOK, EnterCancelled, Enterable, Raise, Leave, Step, Goto, records, bounds
<1>3. /\ pc[c] = "lock" /\ pc'[c] \in {"idle", "failed"} /\ batchLock = Nobody /\ batchLock' = batchLock
      /\ target' = target /\ answers' = answers /\ (pc'[c] = "failed" => wants'[c] = wants[c])
  BY DEF Inv, TypeOK, EnterCancelled, Enterable, Raise, Leave, Step, Goto, records, bounds
<1>4. CallInv' /\ BatchInv'
  BY <1>0, <1>2, <1>3, ScanAssumption DEF Inv, CallInv, BatchInv
<1>5. UnpublishedInv'
  BY <1>0, <1>2, <1>3, ScanAssumption DEF Inv, UnpublishedInv, BatchInv, CallInv, Author, Finished
<1>6. PublishedInv' /\ AnswersTrue'
  BY <1>2, <1>3 DEF Inv, PublishedInv, AnswersTrue, Finished
<1> QED BY <1>1, <1>4, <1>5, <1>6 DEF Inv

(* A completed batch hands over its results. *)
LEMMA ReplayBatchKeeps == ASSUME Inv, NEW c \in Callers, ReplayBatch(c) PROVE Inv'
<1>0. staging \in Directory /\ staging.batch.metadata \in Ids
  BY NoIdType, EmptyType, MissingAssumption, ScanAssumption DEF Inv, TypeOK, CallInv, ReplayBatch, Collected, Goto, directories, records, bounds, Directory, Batch
<1>1. TypeOK'
  BY <1>0, NoIdType, ScanAssumption DEF Inv, TypeOK, CallInv, Phases, ReplayBatch, Collected, Goto, directories, records, bounds
<1>2. \A d \in Callers : d # c =>
         /\ pc'[d] = pc[d] /\ wants'[d] = wants[d] /\ own'[d] = own[d]
         /\ d \in resumed' <=> d \in resumed
  BY DEF Inv, TypeOK, ReplayBatch, Collected, Goto, directories, records, bounds
<1>3. /\ pc[c] = "lock" /\ pc'[c] = "collected" /\ own'[c] = staging.batch.metadata
      /\ staging' = staging /\ batchLock' = batchLock
      /\ staging # Missing /\ staging.batch.status = "completed" /\ staging.batch.request = wants[c]
      /\ target' = target /\ answers' = answers /\ wants'[c] = wants[c]
  BY DEF Inv, TypeOK, ReplayBatch, Collected, Goto, directories, records, bounds
<1>4. CallInv' /\ BatchInv'
  BY <1>0, <1>2, <1>3 DEF Inv, CallInv, BatchInv
<1>5. UnpublishedInv'
  BY <1>0, <1>2, <1>3 DEF Inv, UnpublishedInv, BatchInv, CallInv, Author, Finished
<1>6. PublishedInv' /\ AnswersTrue'
  BY <1>2, <1>3 DEF Inv, PublishedInv, AnswersTrue, Finished
<1> QED BY <1>1, <1>4, <1>5, <1>6 DEF Inv

(* A point is completed. *)
LEMMA RunPointKeeps == ASSUME Inv, NEW c \in Callers, RunPoint(c) PROVE Inv'
<1>0. /\ staging' \in Directory /\ staging' # Missing /\ staging # Missing /\ staging.batch.status = "open"
      /\ staging'.batch.status = "open" /\ staging'.batch.request = staging.batch.request
      /\ staging'.dataset = staging.dataset /\ staging'.workflow = staging.workflow
      /\ staging'.terminal = staging.terminal
  BY NoIdType, EmptyType, MissingAssumption, ScanAssumption DEF Inv, TypeOK, CallInv, RunPoint, Step, Goto, records, bounds, Directory, Batch
<1>1. TypeOK'
  BY <1>0, NoIdType, ScanAssumption DEF Inv, TypeOK, CallInv, Phases, RunPoint, Step, Goto, records, bounds
<1>2. \A d \in Callers : d # c =>
         /\ pc'[d] = pc[d] /\ wants'[d] = wants[d] /\ own'[d] = own[d]
         /\ d \in resumed' <=> d \in resumed
  BY DEF Inv, TypeOK, RunPoint, Step, Goto, records, bounds
<1>3. /\ pc[c] = "points" /\ pc'[c] = "points" /\ batchLock' = batchLock
      /\ target' = target /\ answers' = answers /\ wants'[c] = wants[c]
  BY DEF Inv, TypeOK, RunPoint, Step, Goto, records, bounds
<1>4. CallInv' /\ BatchInv'
  BY <1>0, <1>2, <1>3 DEF Inv, CallInv, BatchInv
<1>5. UnpublishedInv'
  BY <1>0, <1>2, <1>3 DEF Inv, UnpublishedInv, BatchInv, CallInv, Author, Finished
<1>6. PublishedInv' /\ AnswersTrue'
  BY <1>2, <1>3 DEF Inv, PublishedInv, AnswersTrue, Finished
<1> QED BY <1>1, <1>4, <1>5, <1>6 DEF Inv

(* The batch is cancelled between two points. *)
LEMMA CancelBatchKeeps == ASSUME Inv, NEW c \in Callers, CancelBatch(c) PROVE Inv'
<1>0. /\ staging' \in Directory /\ staging' # Missing /\ staging # Missing /\ staging.batch.status = "open"
      /\ staging'.batch.status = "cancelled" /\ batchLock = c
      /\ staging'.dataset = staging.dataset /\ staging'.workflow = staging.workflow
      /\ staging'.terminal = staging.terminal
  BY NoIdType, EmptyType, MissingAssumption, ScanAssumption DEF Inv, TypeOK, CallInv, CancelBatch, Release, Raise, Leave, Step, Goto, records, bounds, Directory, Batch
<1>1. TypeOK'
  BY <1>0, NoIdType, ScanAssumption DEF Inv, TypeOK, CallInv, Phases, CancelBatch, Release, Raise, Leave, Step, Goto, records, bounds
<1>2. \A d \in Callers : d # c =>
         /\ pc'[d] = pc[d] /\ wants'[d] = wants[d] /\ own'[d] = own[d]
         /\ d \in resumed' <=> d \in resumed
  BY DEF Inv, TypeOK, CancelBatch, Release, Raise, Leave, Step, Goto, records, bounds
<1>3. /\ pc[c] = "points" /\ pc'[c] \in {"idle", "failed"}
      /\ target' = target /\ answers' = answers /\ (pc'[c] = "failed" => wants'[c] = wants[c])
  BY DEF Inv, TypeOK, CancelBatch, Release, Raise, Leave, Step, Goto, records, bounds
<1>4. CallInv' /\ BatchInv'
  BY <1>0, <1>2, <1>3 DEF Inv, CallInv, BatchInv
<1>5. UnpublishedInv'
  BY <1>0, <1>2, <1>3 DEF Inv, UnpublishedInv, BatchInv, CallInv, Author, Finished
<1>6. PublishedInv' /\ AnswersTrue'
  BY <1>2, <1>3 DEF Inv, PublishedInv, AnswersTrue, Finished
<1> QED BY <1>1, <1>4, <1>5, <1>6 DEF Inv

(* The batch completes. *)
LEMMA CompleteBatchKeeps == ASSUME Inv, NEW c \in Callers, CompleteBatch(c) PROVE Inv'
<1>0. /\ staging' \in Directory /\ staging' # Missing /\ staging # Missing /\ staging.batch.status = "open"
      /\ staging'.batch.status = "completed" /\ staging'.batch.points = Points
      /\ staging'.batch.request = wants[c] /\ batchLock = c
      /\ staging'.batch.metadata = staging.batch.metadata /\ staging.batch.metadata \in Ids
      /\ staging'.dataset = staging.dataset /\ staging'.workflow = staging.workflow
      /\ staging'.terminal = staging.terminal
  BY NoIdType, EmptyType, MissingAssumption, ScanAssumption DEF Inv, TypeOK, CallInv, CompleteBatch, Release, Collected, Goto, records, bounds, Directory, Batch
<1>1. TypeOK'
  BY <1>0, NoIdType, ScanAssumption DEF Inv, TypeOK, CallInv, Phases, CompleteBatch, Release, Collected, Goto, records, bounds
<1>2. \A d \in Callers : d # c =>
         /\ pc'[d] = pc[d] /\ wants'[d] = wants[d] /\ own'[d] = own[d]
         /\ d \in resumed' <=> d \in resumed
  BY DEF Inv, TypeOK, CompleteBatch, Release, Collected, Goto, records, bounds
<1>3. /\ pc[c] = "points" /\ pc'[c] = "collected" /\ own'[c] = staging.batch.metadata
      /\ target' = target /\ answers' = answers /\ wants'[c] = wants[c]
  BY DEF Inv, TypeOK, CompleteBatch, Release, Collected, Goto, records, bounds
<1>4. CallInv' /\ BatchInv'
  BY <1>0, <1>2, <1>3 DEF Inv, CallInv, BatchInv
<1>5. UnpublishedInv'
  BY <1>0, <1>2, <1>3 DEF Inv, UnpublishedInv, BatchInv, CallInv, Author, Finished
<1>6. PublishedInv' /\ AnswersTrue'
  BY <1>2, <1>3 DEF Inv, PublishedInv, AnswersTrue, Finished
<1> QED BY <1>1, <1>4, <1>5, <1>6 DEF Inv

(* The dataset is created by one call. *)
LEMMA WriteDatasetKeeps == ASSUME Inv, NEW c \in Callers, WriteDataset(c) PROVE Inv'
<1>0. /\ staging # Missing => staging' # Missing
      /\ \/ staging' = staging /\ pc'[c] # "dataset"
         \/ /\ staging' \in Directory /\ staging' # Missing /\ staging # Missing /\ ~staging.dataset
            /\ pc'[c] = "dataset" /\ staging'.batch = staging.batch /\ staging'.dataset
            /\ staging'.workflow = staging.workflow /\ staging'.terminal = staging.terminal
  <2>1. CASE staging = Missing \/ staging.dataset
    BY <2>1 DEF Inv, TypeOK, WriteDataset, Raise, Leave, Step, Goto
  <2>2. CASE staging # Missing /\ ~staging.dataset
    <3>1. staging \in Directory
      BY <2>2 DEF Inv, TypeOK
    <3>2. staging' = [staging EXCEPT !.dataset = TRUE] /\ pc'[c] = "dataset"
      BY <2>2 DEF Inv, TypeOK, WriteDataset, Step, Goto
    <3>3. staging' \in Directory
      BY <3>1, <3>2 DEF Directory
    <3> QED BY <2>2, <3>1, <3>2, <3>3, MissingAssumption DEF Directory
  <2> QED BY <2>1, <2>2
<1>1. TypeOK'
  BY <1>0, NoIdType, ScanAssumption DEF Inv, TypeOK, CallInv, Phases, WriteDataset, Raise, Leave, Step, Goto, records, bounds
<1>2. \A d \in Callers : d # c =>
         /\ pc'[d] = pc[d] /\ wants'[d] = wants[d] /\ own'[d] = own[d]
         /\ d \in resumed' <=> d \in resumed
  BY DEF Inv, TypeOK, WriteDataset, Raise, Leave, Step, Goto, records, bounds
<1>3. /\ pc[c] = "collected" /\ pc'[c] \in {"idle", "failed", "dataset"} /\ batchLock' = batchLock
      /\ pc'[c] = "dataset" => resumed' = resumed /\ own'[c] = own[c]
      /\ target' = target /\ answers' = answers /\ (pc'[c] # "idle" => wants'[c] = wants[c])
  BY DEF Inv, TypeOK, WriteDataset, Raise, Leave, Step, Goto, records, bounds
<1>4. CallInv' /\ BatchInv'
  BY <1>0, <1>2, <1>3 DEF Inv, CallInv, BatchInv
<1>5. UnpublishedInv'
  BY <1>0, <1>2, <1>3 DEF Inv, UnpublishedInv, BatchInv, CallInv, Author, Finished
<1>6. PublishedInv' /\ AnswersTrue'
  BY <1>2, <1>3 DEF Inv, PublishedInv, AnswersTrue, Finished
<1> QED BY <1>1, <1>4, <1>5, <1>6 DEF Inv

(* The author of the dataset writes the workflow. *)
LEMMA WriteWorkflowKeeps == ASSUME Inv, NEW c \in Callers, WriteWorkflow(c) PROVE Inv'
<1>0. /\ staging' \in Directory /\ staging' # Missing /\ staging # Missing
      /\ staging'.batch = staging.batch /\ staging'.dataset = staging.dataset
      /\ staging'.workflow = own[c] /\ staging'.terminal = staging.terminal
  <2>1. staging \in Directory /\ staging # Missing /\ own[c] \in Ids
    BY DEF Inv, TypeOK, CallInv, WriteWorkflow
  <2>2. \E b \in BOOLEAN : staging' = [staging EXCEPT !.recovery = b, !.workflow = own[c]]
    BY <2>1 DEF WriteWorkflow, Cleared, Directory
  <2>3. staging' \in Directory
    BY <2>1, <2>2 DEF Directory
  <2> QED BY <2>1, <2>2, <2>3, MissingAssumption DEF Directory
<1>1. TypeOK'
  BY <1>0, NoIdType, ScanAssumption DEF Inv, TypeOK, CallInv, Phases, WriteWorkflow, Step, Goto, bounds
<1>2. \A d \in Callers : d # c =>
         /\ pc'[d] = pc[d] /\ wants'[d] = wants[d] /\ own'[d] = own[d]
         /\ d \in resumed' <=> d \in resumed
  BY DEF Inv, TypeOK, WriteWorkflow, Step, Goto, bounds
<1>3. /\ pc[c] = "dataset" /\ pc'[c] = "workflow" /\ batchLock' = batchLock /\ own'[c] = own[c]
      /\ resumed' = resumed
      /\ target' = target /\ answers' = answers /\ wants'[c] = wants[c]
  BY DEF Inv, TypeOK, WriteWorkflow, Step, Goto, bounds
<1>4. CallInv' /\ BatchInv'
  BY <1>0, <1>2, <1>3 DEF Inv, CallInv, BatchInv
<1>5. UnpublishedInv'
  BY <1>0, <1>2, <1>3 DEF Inv, UnpublishedInv, BatchInv, CallInv, Author, Finished
<1>6. PublishedInv' /\ AnswersTrue'
  BY <1>2, <1>3 DEF Inv, PublishedInv, AnswersTrue, Finished
<1> QED BY <1>1, <1>4, <1>5, <1>6 DEF Inv

(* It writes the terminal documents. *)
LEMMA WriteTerminalKeeps == ASSUME Inv, NEW c \in Callers, WriteTerminal(c) PROVE Inv'
<1>0. /\ staging' \in Directory /\ staging' # Missing /\ staging # Missing
      /\ staging'.batch = staging.batch /\ staging'.dataset = staging.dataset
      /\ staging'.workflow = staging.workflow
      /\ pc'[c] = "workflow" => staging'.terminal < 3
  <2>1. staging \in Directory /\ staging # Missing /\ staging.terminal \in 0..2
    BY DEF Inv, TypeOK, CallInv, WriteTerminal, Directory
  <2>2. \E b \in BOOLEAN : staging' = [staging EXCEPT !.terminal = staging.terminal + 1, !.listed = b]
    BY <2>1 DEF WriteTerminal, Directory
  <2>3. PICK b \in BOOLEAN : staging' = [staging EXCEPT !.terminal = staging.terminal + 1, !.listed = b]
    BY <2>2
  <2>4. staging.terminal + 1 \in 0..3
    BY <2>1
  <2>5. staging' \in Directory /\ staging'.terminal = staging.terminal + 1
    BY <2>1, <2>3, <2>4 DEF Directory
  <2>6. /\ staging'.batch = staging.batch /\ staging'.dataset = staging.dataset
        /\ staging'.workflow = staging.workflow
    BY <2>1, <2>3 DEF Directory
  <2>7. pc'[c] = IF staging.terminal = 2 THEN "check" ELSE "workflow"
    BY DEF Inv, TypeOK, WriteTerminal, Step, Goto
  <2> QED BY <2>1, <2>5, <2>6, <2>7, MissingAssumption
<1>1. TypeOK'
  BY <1>0, NoIdType, ScanAssumption DEF Inv, TypeOK, CallInv, Phases, WriteTerminal, Step, Goto, records, bounds
<1>2. \A d \in Callers : d # c =>
         /\ pc'[d] = pc[d] /\ wants'[d] = wants[d] /\ own'[d] = own[d]
         /\ d \in resumed' <=> d \in resumed
  BY DEF Inv, TypeOK, WriteTerminal, Step, Goto, records, bounds
<1>3. /\ pc[c] = "workflow" /\ pc'[c] \in {"workflow", "check"} /\ batchLock' = batchLock
      /\ own'[c] = own[c] /\ resumed' = resumed
      /\ target' = target /\ answers' = answers /\ wants'[c] = wants[c]
  BY DEF Inv, TypeOK, WriteTerminal, Step, Goto, records, bounds
<1>4. CallInv' /\ BatchInv'
  BY <1>0, <1>2, <1>3 DEF Inv, CallInv, BatchInv
<1>5. UnpublishedInv'
  BY <1>0, <1>2, <1>3 DEF Inv, UnpublishedInv, BatchInv, CallInv, Author, Finished
<1>6. PublishedInv' /\ AnswersTrue'
  BY <1>2, <1>3 DEF Inv, PublishedInv, AnswersTrue, Finished
<1> QED BY <1>1, <1>4, <1>5, <1>6 DEF Inv

(* Only a finished staging directory passes the verification. *)
LEMMA VerifyKeeps == ASSUME Inv, NEW c \in Callers, Verify(c) PROVE Inv'
<1>1. TypeOK'
  BY NoIdType, ScanAssumption DEF Inv, TypeOK, CallInv, Phases, Verify, Whole, Raise, Leave, Step, Goto, directories, records, bounds
<1>2. \A d \in Callers : d # c =>
         /\ pc'[d] = pc[d] /\ wants'[d] = wants[d] /\ own'[d] = own[d]
         /\ d \in resumed' <=> d \in resumed
  BY DEF Inv, TypeOK, Verify, Whole, Raise, Leave, Step, Goto, directories, records, bounds
<1>3. /\ pc[c] = "check" /\ pc'[c] \in {"idle", "failed", "publish"} /\ batchLock' = batchLock
      /\ staging' = staging
      /\ pc'[c] = "publish" => own'[c] = own[c] /\ resumed' = resumed /\ Whole(staging)
      /\ target' = target /\ answers' = answers /\ (pc'[c] # "idle" => wants'[c] = wants[c])
  BY DEF Inv, TypeOK, Verify, Whole, Raise, Leave, Step, Goto, directories, records, bounds
<1>4. CallInv' /\ BatchInv'
  BY <1>2, <1>3 DEF Inv, CallInv, BatchInv
<1>5. UnpublishedInv'
  BY <1>2, <1>3 DEF Inv, UnpublishedInv, BatchInv, CallInv, Author, Finished, Whole
<1>6. PublishedInv' /\ AnswersTrue'
  BY <1>2, <1>3 DEF Inv, PublishedInv, AnswersTrue, Finished
<1> QED BY <1>1, <1>4, <1>5, <1>6 DEF Inv

(* The staging directory becomes the target, or the rename is refused. *)
LEMMA PublishKeeps == ASSUME Inv, NEW c \in Callers, Publish(c) PROVE Inv'
<1>1. CASE staging = Missing \/ target # Missing
  <2>1. Aside(c)
    BY <1>1 DEF Inv, TypeOK, Publish, Aside, Elsewhere, Raise, Leave, Step, Goto, directories, records, bounds
  <2> QED BY <2>1, AsideInv
<1>2. CASE staging # Missing /\ target = Missing
  <2>1. /\ target' = staging /\ staging' = Missing /\ pc[c] = "publish" /\ pc' = [pc EXCEPT ![c] = "flush"]
        /\ UNCHANGED <<wants, own, resumed, answers, batchLock>>
    BY <1>2 DEF Publish, Step, Goto
  <2>2. Finished(staging)
    BY <1>2, <2>1 DEF Inv, UnpublishedInv
  <2>3. TypeOK'
    BY <1>2, <2>1 DEF Inv, TypeOK, Publish, Step, Goto, Phases, records, bounds
  <2>4. \A d \in Callers : d # c => pc'[d] = pc[d]
    BY <2>1 DEF Inv, TypeOK
  <2>5. pc'[c] = "flush"
    BY <2>1 DEF Inv, TypeOK
  <2>6. \A d \in Callers : pc[d] \notin {"points", "dataset", "workflow"}
    BY <1>2, <2>2 DEF Inv, UnpublishedInv, CallInv, Author, Finished
  <2>7. CallInv' /\ BatchInv'
    BY <2>1, <2>4, <2>5, <2>6 DEF Inv, CallInv, BatchInv
  <2>8. c \notin resumed => staging.batch.request = wants[c] /\ staging.workflow = own[c]
    BY <1>2, <2>1 DEF Inv, UnpublishedInv, Author
  <2>9. target' # Missing /\ Finished(target)'
    BY <1>2, <2>1, <2>2 DEF Finished
  <2>10. UnpublishedInv'
    BY <2>9 DEF UnpublishedInv
  <2>11. answers = {}
    BY <1>2 DEF Inv, AnswersTrue
  <2>12. \A d \in Callers : pc[d] = "flush" => d \in resumed
    BY <1>2 DEF Inv, PublishedInv
  <2>13. PublishedInv' /\ AnswersTrue'
    BY <2>1, <2>4, <2>5, <2>8, <2>9, <2>11, <2>12 DEF PublishedInv, AnswersTrue
  <2> QED BY <2>3, <2>7, <2>10, <2>13 DEF Inv
<1> QED BY <1>1, <1>2

(* What leaves an answer: everything else is as in a step aside. *)
LEMMA ReturnKeeps ==
    ASSUME Inv, NEW c \in Callers, pc[c] # "idle", NEW id,
           target # Missing, target.batch.request = wants[c], target.workflow = id,
           answers' = answers \cup {[asked |-> wants[c], got |-> wants[c], id |-> id]},
           Leave(c), UNCHANGED <<workflow, directories, records, cancellation, batchLock, bounds>>
    PROVE  Inv'
<1> USE DEF Leave, Goto, directories, records, bounds
<1>1. target \in Directory /\ id \in Ids
  BY DEF Inv, TypeOK, Directory
<1>2. TypeOK'
  BY <1>1, NoIdType DEF Inv, TypeOK, CallInv, Phases
<1>3. \A d \in Callers : d # c =>
         /\ pc'[d] = pc[d] /\ wants'[d] = wants[d] /\ own'[d] = own[d]
         /\ d \in resumed' <=> d \in resumed
  BY DEF Inv, TypeOK
<1>4. pc'[c] = "idle"
  BY DEF Inv, TypeOK
<1>5. CallInv' /\ BatchInv'
  BY <1>3, <1>4 DEF Inv, CallInv, BatchInv
<1>6. UnpublishedInv'
  BY DEF UnpublishedInv
<1>7. PublishedInv'
  BY <1>3, <1>4 DEF Inv, PublishedInv, Finished
<1>8. AnswersTrue'
  BY DEF Inv, AnswersTrue
<1> QED BY <1>2, <1>5, <1>6, <1>7, <1>8 DEF Inv

(* The call returns what it published, or looks at what it found finished. *)
LEMMA PublishedKeeps == ASSUME Inv, NEW c \in Callers, Published(c) PROVE Inv'
<1>1. CASE c \in resumed
  <2>1. Aside(c)
    BY <1>1 DEF Inv, TypeOK, Published, Aside, Elsewhere, Step, Goto, directories, records, bounds
  <2> QED BY <2>1, AsideInv
<1>2. CASE c \notin resumed
  <2>1. pc[c] = "flush" /\ Return(c, wants[c], own[c])
        /\ UNCHANGED <<workflow, directories, records, cancellation, batchLock, bounds>>
    BY <1>2 DEF Published
  <2>2. target # Missing /\ target.batch.request = wants[c] /\ target.workflow = own[c]
    BY <1>2, <2>1 DEF Inv, PublishedInv
  <2> QED BY <2>1, <2>2, ReturnKeeps DEF Return
<1> QED BY <1>1, <1>2

(* The call returns what is published, if it is what it asked for. *)
LEMMA ReopenKeeps == ASSUME Inv, NEW c \in Callers, Reopen(c) PROVE Inv'
<1>1. CASE Whole(target) /\ target.batch.request = wants[c]
  BY <1>1, ReturnKeeps DEF Reopen, Return, Whole
<1>2. CASE ~(Whole(target) /\ target.batch.request = wants[c])
  <2>1. Aside(c)
    BY <1>2 DEF Inv, TypeOK, Reopen, Aside, Elsewhere, Leave, Goto, directories, records, bounds
  <2> QED BY <2>1, AsideInv
<1> QED BY <1>1, <1>2

(* The recovery record is written, which nothing here depends on. *)
LEMMA RecordKeeps == ASSUME Inv, NEW c \in Callers, Record(c) PROVE Inv'
<1>1. CASE staging = Missing
  <2>1. Aside(c)
    BY <1>1 DEF Inv, TypeOK, Record, Aside, Elsewhere, Step, Goto, directories, records, bounds
  <2> QED BY <2>1, AsideInv
<1>2. CASE staging # Missing
  <2> USE DEF Record, Leave, Goto, records, bounds
  <2>1. staging \in Directory /\ staging' = [staging EXCEPT !.recovery = TRUE]
    BY <1>2 DEF Inv, TypeOK
  <2>2. /\ staging' \in Directory /\ staging' # Missing
        /\ staging'.batch = staging.batch /\ staging'.dataset = staging.dataset
        /\ staging'.workflow = staging.workflow
        /\ staging'.terminal = staging.terminal /\ staging'.listed = staging.listed
    BY <2>1, MissingAssumption DEF Directory
  <2>3. TypeOK'
    BY <1>2, <2>2, NoIdType DEF Inv, TypeOK, Phases
  <2>4. \A d \in Callers : d # c =>
           /\ pc'[d] = pc[d] /\ wants'[d] = wants[d] /\ own'[d] = own[d]
           /\ d \in resumed' <=> d \in resumed
    BY <1>2 DEF Inv, TypeOK
  <2>5. /\ pc[c] = "record" /\ pc'[c] = "idle" /\ batchLock' = batchLock
        /\ target' = target /\ answers' = answers
    BY <1>2 DEF Inv, TypeOK
  <2>6. CallInv' /\ BatchInv'
    BY <1>2, <2>2, <2>4, <2>5 DEF Inv, CallInv, BatchInv
  <2>7. UnpublishedInv'
    BY <1>2, <2>2, <2>4, <2>5 DEF Inv, UnpublishedInv, Author, Finished
  <2>8. PublishedInv' /\ AnswersTrue'
    BY <2>4, <2>5 DEF Inv, PublishedInv, AnswersTrue, Finished
  <2> QED BY <2>3, <2>6, <2>7, <2>8 DEF Inv
<1> QED BY <1>1, <1>2

(* A cancellation request concerns only the batch that is still to run. *)
LEMMA RequestCancellationKeeps == ASSUME Inv, RequestCancellation PROVE Inv'
<1> USE DEF RequestCancellation, directories, records, caller
<1>1. TypeOK'
  BY ScanAssumption DEF Inv, TypeOK
<1>2. CallInv' /\ BatchInv' /\ PublishedInv' /\ AnswersTrue'
  BY DEF Inv, CallInv, BatchInv, PublishedInv, AnswersTrue, Finished
<1>3. UnpublishedInv'
  BY DEF Inv, UnpublishedInv, Author, Finished
<1> QED BY <1>1, <1>2, <1>3 DEF Inv

-----------------------------------------------------------------------------
(* Every step keeps the invariant. *)
LEMMA NextInv == Inv /\ [Next]_vars => Inv'
<1> SUFFICES ASSUME Inv, [Next]_vars PROVE Inv'
  OBVIOUS
<1>1. CASE RequestCancellation
  BY <1>1, RequestCancellationKeeps
<1>2. ASSUME NEW c \in Callers, NEW r \in Requests, Call(c, r) PROVE Inv'
  BY <1>2, CallKeeps
<1>3. ASSUME NEW c \in Callers, Failure(c) PROVE Inv'
  BY <1>3, AsideSteps, AsideInv
<1>4. ASSUME NEW c \in Callers, Work(c) PROVE Inv'
  <2>1. CASE FindTarget(c) \/ MakeExecution(c) \/ Busy(c) \/ RefuseBatch(c) \/ ReopenBusy(c)
               \/ Handle(c) \/ HandleGone(c) \/ Mark(c)
    BY <1>4, <2>1, AsideSteps, AsideInv
  <2>2. CASE FindStaging(c) \/ Claim(c) \/ EnsureOutput(c)
    BY <1>4, <2>2, FindStagingKeeps, ClaimKeeps, EnsureOutputKeeps
  <2>3. CASE \/ EnterBatch(c) \/ EnterCancelled(c) \/ ReplayBatch(c)
             \/ RunPoint(c) \/ CancelBatch(c) \/ CompleteBatch(c)
    BY <1>4, <2>3, EnterBatchKeeps, EnterCancelledKeeps, ReplayBatchKeeps, RunPointKeeps,
       CancelBatchKeeps, CompleteBatchKeeps
  <2>4. CASE WriteDataset(c) \/ WriteWorkflow(c) \/ WriteTerminal(c)
    BY <1>4, <2>4, WriteDatasetKeeps, WriteWorkflowKeeps, WriteTerminalKeeps
  <2>5. CASE Verify(c) \/ Publish(c) \/ Published(c) \/ Reopen(c) \/ Record(c)
    BY <1>4, <2>5, VerifyKeeps, PublishKeeps, PublishedKeeps, ReopenKeeps, RecordKeeps
  <2> QED BY <1>4, <2>1, <2>2, <2>3, <2>4, <2>5 DEF Work
<1>5. CASE UNCHANGED vars
  <2> USE <1>5 DEF vars, directories, records, caller, bounds
  <2>1. TypeOK'
    BY DEF Inv, TypeOK
  <2>2. CallInv' /\ BatchInv' /\ PublishedInv' /\ AnswersTrue'
    BY DEF Inv, CallInv, BatchInv, PublishedInv, AnswersTrue, Finished
  <2>3. UnpublishedInv'
    BY DEF Inv, UnpublishedInv, Author, Finished
  <2> QED BY <2>1, <2>2, <2>3 DEF Inv
<1> QED BY <1>1, <1>2, <1>3, <1>4, <1>5 DEF Next

(* Whatever calls, failures and kills: what is published is the complete scan of the        *)
(* attempt that bound its batch. The lock of the batch is not needed for it: the dataset    *)
(* can be created once.                                                                     *)
THEOREM ScanSound == Spec => [](TypeOK /\ PublishedSound)
<1>1. Inv => TypeOK /\ PublishedSound
  <2> SUFFICES ASSUME Inv, target # Missing PROVE PublishedSound
    BY DEF Inv, PublishedSound
  <2>1. target \in Directory /\ Finished(target)
    BY DEF Inv, TypeOK, PublishedInv
  <2>2. [target EXCEPT !.recovery = FALSE] \in Directory
    BY <2>1 DEF Directory
  <2> QED BY <2>1, <2>2, MissingAssumption DEF PublishedSound, Whole, Finished, Directory
<1> QED BY InitInv, NextInv, <1>1, PTL DEF Spec

(* Every answer run_*_scan gives, the first or one reopened after a lost answer, is that    *)
(* scan, for the request that was asked.                                                    *)
THEOREM AnswersSound == Spec => []AnswersTrue
<1>1. Inv => AnswersTrue
  BY DEF Inv
<1> QED BY InitInv, NextInv, <1>1, PTL DEF Spec

-----------------------------------------------------------------------------
(* What a step may do to the staging directory. *)
Kept ==
    staging # Missing =>
        IF staging' = Missing THEN target' = staging
        ELSE /\ staging'.batch.points >= staging.batch.points
             /\ staging.batch.request # NoRequest => staging'.batch.request = staging.batch.request

LEMMA NextKeeps == Inv /\ [Next]_vars => Kept
<1> SUFFICES ASSUME Inv, [Next]_vars, staging # Missing PROVE Kept
  BY DEF Kept
<1>1. /\ staging \in Directory /\ staging.batch \in Batch /\ staging.batch.points \in Nat
      /\ staging.batch.points >= staging.batch.points
  BY ScanAssumption DEF Inv, TypeOK, Directory, Batch
<1>2. staging' = staging \/ (staging' # Missing /\ staging'.batch = staging.batch) => Kept
  BY <1>1 DEF Kept
<1>3. ASSUME NEW c \in Callers, Work(c) PROVE Kept
  <2>1. CASE \/ FindTarget(c) \/ MakeExecution(c) \/ Busy(c) \/ RefuseBatch(c) \/ ReopenBusy(c)
             \/ Handle(c) \/ HandleGone(c) \/ Mark(c)
    BY <2>1, <1>2, AsideSteps DEF Aside, directories
  <2>2. CASE FindStaging(c) \/ EnsureOutput(c)
    BY <2>2, <1>2 DEF FindStaging, EnsureOutput
  <2>3. CASE Claim(c) \/ WriteWorkflow(c) \/ WriteDataset(c) \/ WriteTerminal(c) \/ Record(c)
    <3>1. ASSUME NEW e, e \in Directory, staging' = e, e.batch = staging.batch PROVE Kept
      BY <1>2, <3>1, MissingAssumption
    <3>2. CASE Claim(c)
      BY <1>1, <1>2, <3>1, <3>2 DEF Claim, Cleared, Directory
    <3>3. CASE WriteWorkflow(c)
      <4>1. own[c] \in Ids
        BY DEF Inv, TypeOK
      <4>2. PICK b \in BOOLEAN : staging' = [staging EXCEPT !.recovery = b, !.workflow = own[c]]
        BY <1>1, <3>3 DEF WriteWorkflow, Cleared, Directory
      <4>3. staging' \in Directory /\ staging'.batch = staging.batch
        BY <1>1, <4>1, <4>2 DEF Directory
      <4> QED BY <3>1, <4>3
    <3>4. CASE WriteDataset(c)
      BY <1>1, <1>2, <3>1, <3>4 DEF WriteDataset, Directory
    <3>5. CASE WriteTerminal(c)
      <4>1. staging.terminal + 1 \in 0..3
        BY <1>1, <3>5 DEF WriteTerminal, Directory
      <4>2. PICK b \in BOOLEAN : staging' = [staging EXCEPT !.terminal = staging.terminal + 1, !.listed = b]
        BY <1>1, <3>5 DEF WriteTerminal, Directory
      <4>3. staging' \in Directory /\ staging'.batch = staging.batch
        BY <1>1, <4>1, <4>2 DEF Directory
      <4> QED BY <3>1, <4>3
    <3>6. CASE Record(c)
      BY <1>1, <3>1, <3>6 DEF Record, Directory
    <3> QED BY <2>3, <3>2, <3>3, <3>4, <3>5, <3>6
  <2>4. CASE EnterBatch(c) \/ EnterCancelled(c)
    <3>1. /\ staging'.batch.points = Bound(c).points /\ staging'.batch.request = Bound(c).request
          /\ staging' # Missing
      <4>1. Bound(c) \in Batch /\ [Bound(c) EXCEPT !.status = "cancelled"] \in Batch
        BY <1>1, NoIdType, ScanAssumption DEF Bound, Batch, Inv, TypeOK
      <4>2. CASE EnterBatch(c)
        BY <1>1, <4>1, <4>2, MissingAssumption DEF EnterBatch, Directory
      <4>3. CASE EnterCancelled(c)
        BY <1>1, <4>1, <4>3, MissingAssumption DEF EnterCancelled, Directory, Batch
      <4> QED BY <2>4, <4>2, <4>3
    <3>2. CASE staging.batch.status = "absent"
      BY <1>1, <3>1, <3>2 DEF Kept, Inv, BatchInv, NoBatch, Bound
    <3>3. CASE staging.batch.status # "absent"
      BY <1>1, <3>1, <3>3 DEF Kept, Bound
    <3> QED BY <3>2, <3>3
  <2>5. CASE ReplayBatch(c) \/ Verify(c) \/ Published(c) \/ Reopen(c)
    BY <2>5, <1>2 DEF ReplayBatch, Verify, Published, Reopen, directories
  <2>6. CASE RunPoint(c) \/ CancelBatch(c) \/ CompleteBatch(c)
    <3>1. ASSUME NEW e, e \in Batch, e.points >= staging.batch.points,
                 e.request = staging.batch.request, staging' = [staging EXCEPT !.batch = e]
          PROVE  Kept
      <4>1. staging' \in Directory /\ staging'.batch = e
        BY <1>1, <3>1 DEF Directory
      <4> QED BY <3>1, <4>1, MissingAssumption DEF Kept
    <3>2. CASE RunPoint(c)
      <4> DEFINE e == [staging.batch EXCEPT !.points = staging.batch.points + 1]
      <4>1. staging.batch.points + 1 \in 0..Points
        BY <1>1, <3>2, ScanAssumption DEF RunPoint, Batch
      <4>2. e \in Batch /\ e.points >= staging.batch.points /\ e.request = staging.batch.request
        BY <1>1, <4>1 DEF Batch
      <4>3. staging' = [staging EXCEPT !.batch = e]
        BY <1>1, <3>2 DEF RunPoint, Directory
      <4> QED BY <3>1, <4>2, <4>3
    <3>3. CASE CancelBatch(c) \/ CompleteBatch(c)
      <4>1. PICK s \in {"completed", "cancelled"} : staging' = [staging EXCEPT !.batch.status = s]
        BY <3>3 DEF CancelBatch, CompleteBatch
      <4> DEFINE e == [staging.batch EXCEPT !.status = s]
      <4>2. e \in Batch /\ e.points >= staging.batch.points /\ e.request = staging.batch.request
        BY <1>1 DEF Batch
      <4>3. staging' = [staging EXCEPT !.batch = e]
        BY <1>1, <4>1 DEF Directory
      <4> QED BY <3>1, <4>2, <4>3
    <3> QED BY <2>6, <3>2, <3>3
  <2>7. CASE Publish(c)
    BY <2>7, <1>2 DEF Publish, Kept, directories
  <2> QED BY <1>3, <2>1, <2>2, <2>3, <2>4, <2>5, <2>6, <2>7 DEF Work
<1>4. ASSUME NEW c \in Callers, Failure(c) PROVE Kept
  BY <1>2, <1>4, AsideSteps DEF Aside, directories
<1>5. ASSUME NEW c \in Callers, NEW r \in Requests, Call(c, r) PROVE Kept
  BY <1>2, <1>5 DEF Call, directories
<1>6. CASE RequestCancellation \/ UNCHANGED vars
  BY <1>2, <1>6 DEF RequestCancellation, vars, directories
<1> QED BY <1>3, <1>4, <1>5, <1>6 DEF Next

(* No failure, cancellation or kill takes a completed point away from the staging           *)
(* directory, or binds its batch to another request.                                        *)
THEOREM PointsKept == Spec => ProgressKept
<1>1. ProgressKept <=> [][Kept]_vars
  BY DEF ProgressKept, Kept
<1> QED BY <1>1, InitInv, NextInv, NextKeeps, PTL DEF Spec

-----------------------------------------------------------------------------

(* The axes make every valid peak an integer. *)
LEMMA PeaksAreIntegers ==
    ASSUME NEW low \in Int, NEW high \in Int
    PROVE  Peaks(low, high) \subseteq Int
BY DEF Peaks

LEMMA AroundAreIntegers ==
    ASSUME NEW D, NEW centres \in [D -> Int], NEW half \in Nat, NEW peaks \in Around(centres, half)
    PROVE  peaks \in [D -> Int]
<1>1. /\ peaks \in [D -> UNION {Peaks(centres[t] - half, centres[t] + half) : t \in D}]
      /\ \A t \in D : peaks[t] \in Peaks(centres[t] - half, centres[t] + half)
    BY DEF Around
<1>2. ASSUME NEW t \in D PROVE peaks[t] \in Int
    BY <1>1, PeaksAreIntegers, centres[t] - half \in Int, centres[t] + half \in Int
<1> QED BY <1>1, <1>2

(* Two shifts within their limits add up to one within the sum of both. *)
LEMMA NearTwice ==
    ASSUME NEW f \in Int, NEW g \in Int, NEW h \in Int, NEW a \in Nat, NEW b \in Nat,
           Near(f, g, a), Near(g, h, b)
    PROVE  Near(h, f, a + b)
BY DEF Near
-----------------------------------------------------------------------------
(* What a run knows of itself when it begins. *)
Begun(w) ==
    /\ {"step", "output", "parent", "current"} \subseteq DOMAIN w
    /\ w.output \in RunOutputs /\ w.parent \in Calibrations
    /\ DOMAIN w.current \subseteq Targets /\ w.current \in [DOMAIN w.current -> Int]

Has(w, what, values) == what \in DOMAIN w /\ w[what] \in [DOMAIN w.current -> values]

(* A judged run: eligible only with every proposed peak near the coarse one. *)
Judged(w) ==
    /\ w.parent \in Calibrations
    /\ DOMAIN w.current \subseteq Targets /\ w.current \in [DOMAIN w.current -> Int]
    /\ w.eligible \in BOOLEAN
    /\ w.eligible =>
         \A t \in DOMAIN w.current :
             /\ w.coarse[t] \in Int /\ w.confirmed[t] \in Int
             /\ Near(w.confirmed[t], w.coarse[t], MaxRefinedShift + MaxParallelShift)

(* A decision rests on a published run and on a context it changes for its targets only. *)
Decided(w) ==
    /\ w.run \in RunOutputs /\ runs[w.run] # Nothing
    /\ w.parent \in Calibrations
    /\ w.targets \subseteq DOMAIN runs[w.run].current
    /\ w.targets # {} => runs[w.run].eligible
    /\ w.values \in [Targets -> Authorities]
    /\ \E k \in Calibrations :
         /\ Matches(w.parent, k)
         /\ \A t \in DOMAIN runs[w.run].current : runs[w.run].current[t] = Context(k)[t].frequency
         /\ w.values = Values(w.run, k, w.targets)

Steps == {"idle", "coarse", "refined", "confirm", "judge", "publish", "decided"}

WorkGood(w) ==
    /\ "step" \in DOMAIN w /\ w.step \in Steps
    /\ w.step \in Steps \ {"idle", "decided"} => Begun(w)
    /\ w.step \in {"refined", "confirm", "judge"} => Has(w, "coarse", Int)
    /\ w.step \in {"confirm", "judge"} => Has(w, "refined", Int)
    /\ w.step = "judge" => Has(w, "confirmed", Int \cup {NoPeak})
    /\ w.step = "publish" => {"coarse", "confirmed", "eligible"} \subseteq DOMAIN w /\ Judged(w)
    /\ w.step = "decided" =>
         /\ {"step", "output", "run", "parent", "targets", "values"} \subseteq DOMAIN w
         /\ w.output \in DecisionOutputs
         /\ Decided(w)

Directories == DOMAIN runs = RunOutputs /\ DOMAIN decisions = DecisionOutputs

RunsGood == \A o \in RunOutputs : runs[o] # Nothing => Judged(runs[o])
DecisionsGood == \A d \in DecisionOutputs : decisions[d] # Nothing => Decided(decisions[d])
AllWorkGood == DOMAIN work = Sessions /\ \A c \in Sessions : WorkGood(work[c])

DecisionInv == Directories /\ RunsGood /\ DecisionsGood /\ AllWorkGood /\ Traceable

(* What Traceable says of one authority: it is of the bootstrap, or some accepted decision  *)
(* made it from an eligible run.                                                            *)
Original(a, t) ==
    IF a.run = Nothing THEN a = Bootstrap[t]
    ELSE /\ runs[a.run] # Nothing /\ runs[a.run].eligible
         /\ Near(a.frequency, runs[a.run].coarse[t], MaxRefinedShift + MaxParallelShift)
         /\ \E e \in Accepted :
              /\ decisions[e].run = a.run /\ t \in decisions[e].targets
              /\ decisions[e].values[t] = a

(* Nothing that is published is replaced. *)
DirectoriesKept ==
    /\ \A o \in RunOutputs : runs[o] # Nothing => runs'[o] = runs[o]
    /\ \A d \in DecisionOutputs : decisions[d] # Nothing => decisions'[d] = decisions[d]

(* What was a calibration stays one, with the same context. *)
LEMMA CalibrationsStay ==
    ASSUME Directories, Directories', DirectoriesKept
    PROVE  /\ Calibrations \subseteq Calibrations'
           /\ \A k \in Calibrations : Context(k)' = Context(k)
           /\ \A p \in Calibrations, k \in Calibrations : Matches(p, k) => Matches(p, k)'
BY DecisionAssumption
   DEF Directories, DirectoriesKept, Calibrations, Accepted, PublishedIn, Context, Matches, Bootstrap

(* A decision that could be made can still be, whatever others publish. *)
LEMMA DecidedStays ==
    ASSUME Directories, Directories', DirectoriesKept
    PROVE  \A w : Decided(w) => Decided(w)'
<1> SUFFICES ASSUME NEW w, Decided(w) PROVE Decided(w)'
    OBVIOUS
<1>1. runs'[w.run] = runs[w.run]
    BY DEF Decided, DirectoriesKept
<1>2. PICK k \in Calibrations :
         /\ Matches(w.parent, k)
         /\ \A t \in DOMAIN runs[w.run].current : runs[w.run].current[t] = Context(k)[t].frequency
         /\ w.values = Values(w.run, k, w.targets)
    BY DEF Decided
<1>3. Values(w.run, k, w.targets)' = Values(w.run, k, w.targets)
    BY <1>1, CalibrationsStay DEF Values
<1> QED BY <1>1, <1>2, <1>3, CalibrationsStay DEF Decided

LEMMA JudgedStays ==
    ASSUME Directories, Directories', DirectoriesKept
    PROVE  \A w : Judged(w) => Judged(w)'
BY CalibrationsStay DEF Judged
LEMMA WorkStays ==
    ASSUME Directories, Directories', DirectoriesKept
    PROVE  \A w : WorkGood(w) => WorkGood(w)'
BY CalibrationsStay, DecidedStays, JudgedStays DEF WorkGood, Begun, Has

(* What a calibration holds is traceable through its context. *)
LEMMA ContextTraceable ==
    ASSUME Directories, Traceable, NEW k \in Calibrations, NEW t \in Targets,
           Context(k)[t].run # Nothing
    PROVE  /\ k \in Accepted /\ Context(k)[t] = decisions[k].values[t]
BY DEF Calibrations, Context, Bootstrap, Authority

(* A step that neither publishes nor replaces anything keeps what is published good. *)
LEMMA QuietStep ==
    ASSUME DecisionInv, UNCHANGED <<runs, decisions>>, NEW c \in Sessions, NEW w,
           WorkGood(w), Goes(c, w)
    PROVE  DecisionInv'
<1>1. Directories' /\ DirectoriesKept
    BY DEF DecisionInv, Directories, DirectoriesKept
<1>2. RunsGood' /\ DecisionsGood'
    BY <1>1, JudgedStays, DecidedStays DEF DecisionInv, RunsGood, DecisionsGood
<1>3. AllWorkGood'
    BY <1>1, WorkStays DEF DecisionInv, AllWorkGood, Goes
<1>4. Traceable'
    BY DEF DecisionInv, Traceable, Accepted, PublishedIn
<1> QED BY <1>1, <1>2, <1>3, <1>4 DEF DecisionInv

LEMMA IdleGood == WorkGood(Idle)
BY DEF WorkGood, Idle, Steps

(* The contexts of all calibrations are well typed. *)
LEMMA ContextTyped ==
    ASSUME DecisionInv, NEW k \in Calibrations
    PROVE  Context(k) \in [Targets -> Authorities]
BY DecisionAssumption
   DEF DecisionInv, Directories, DecisionsGood, Decided, Calibrations, Accepted, PublishedIn, Context,
       Bootstrap, Authority, Authorities

LEMMA BeginGood ==
    ASSUME DecisionInv, NEW c \in Sessions, NEW output \in RunOutputs, NEW parent \in Calibrations,
           NEW k \in Calibrations, NEW targets \in SUBSET Targets,
           BeginRun(c, output, parent, k, targets)
    PROVE  DecisionInv'
<1> DEFINE w == [step |-> "coarse", output |-> output, parent |-> parent,
                 current |-> [t \in targets |-> Context(k)[t].frequency]]
<1>1. \A t \in targets : Context(k)[t].frequency \in Int
    BY ContextTyped DEF Authorities
<1>2. WorkGood(w)
    BY <1>1 DEF WorkGood, Begun, Has, Steps
<1> QED BY <1>2, QuietStep DEF BeginRun

(* A step of a run that measures keeps what the run is. *)
LEMMA MeasureKeeps ==
    ASSUME NEW c \in Sessions, WorkGood(work[c]), Begun(work[c]), NEW step, NEW what, NEW peaks,
           what \in {"coarse", "refined", "confirmed", "eligible"}
    PROVE  /\ Begun(With(c, step, what, peaks))
           /\ With(c, step, what, peaks).step = step
           /\ With(c, step, what, peaks)[what] = peaks /\ what \in DOMAIN With(c, step, what, peaks)
           /\ With(c, step, what, peaks).current = work[c].current
           /\ \A f \in {"coarse", "refined", "confirmed"} \ {what} :
                  \A values : Has(work[c], f, values) => Has(With(c, step, what, peaks), f, values)
<1> DEFINE w == With(c, step, what, peaks)
<1>1. /\ DOMAIN w = DOMAIN work[c] \cup {what} /\ w[what] = peaks /\ w.step = step
      /\ \A f \in DOMAIN work[c] \ {what, "step"} : w[f] = work[c][f]
    <2>1. what # "step" /\ "step" \in DOMAIN work[c]
        BY DEF WorkGood
    <2> QED BY <2>1 DEF With
<1> HIDE DEF w
<1>2. w.output = work[c].output /\ w.parent = work[c].parent /\ w.current = work[c].current
    BY <1>1 DEF Begun
<1>3. Begun(w)
    BY <1>1, <1>2 DEF Begun
<1>4. ASSUME NEW f \in {"coarse", "refined", "confirmed"} \ {what}, NEW values,
             Has(work[c], f, values)
      PROVE  Has(w, f, values)
    <2>1. f \in DOMAIN w /\ w[f] = work[c][f]
        BY <1>1, <1>4 DEF Has
    <2> QED BY <1>2, <1>4, <2>1 DEF Has
<1> QED BY <1>1, <1>2, <1>3, <1>4 DEF w

LEMMA CoarseGood ==
    ASSUME DecisionInv, NEW c \in Sessions, ScanCoarse(c)
    PROVE  DecisionInv'
<1>1. WorkGood(work[c]) /\ Begun(work[c])
    BY DEF DecisionInv, AllWorkGood, WorkGood, ScanCoarse, At, Steps
<1>2. PICK peaks \in [DOMAIN work[c].current -> Peaks(CoarseLow, CoarseHigh)] :
        Goes(c, With(c, "refined", "coarse", peaks))
    BY DEF ScanCoarse
<1>3. peaks \in [DOMAIN work[c].current -> Int]
    BY <1>2, PeaksAreIntegers, DecisionAssumption
<1>4. WorkGood(With(c, "refined", "coarse", peaks))
    BY <1>1, <1>3, MeasureKeeps DEF WorkGood, Steps, Begun, Has
<1> QED BY <1>2, <1>4, QuietStep DEF ScanCoarse

LEMMA RefinedGood ==
    ASSUME DecisionInv, NEW c \in Sessions, ScanRefined(c)
    PROVE  DecisionInv'
<1>1. WorkGood(work[c]) /\ Begun(work[c]) /\ Has(work[c], "coarse", Int)
    BY DEF DecisionInv, AllWorkGood, WorkGood, ScanRefined, At, Steps
<1>2. PICK peaks \in Around(work[c].coarse, FineHalf) :
        Goes(c, With(c, "confirm", "refined", peaks))
    BY DEF ScanRefined
<1>3. peaks \in [DOMAIN work[c].current -> Int]
    BY <1>1, AroundAreIntegers, DecisionAssumption DEF Has
<1> DEFINE w == With(c, "confirm", "refined", peaks)
<1>4. Begun(w) /\ w.step = "confirm" /\ Has(w, "coarse", Int)
    BY <1>1, MeasureKeeps
<1>5. Has(w, "refined", Int)
    BY <1>1, <1>3, MeasureKeeps DEF Has
<1>6. WorkGood(w)
    BY <1>4, <1>5 DEF WorkGood, Steps, Begun
<1> QED BY <1>2, <1>6, QuietStep DEF ScanRefined
LEMMA ConfirmGood ==
    ASSUME DecisionInv, NEW c \in Sessions, Confirm(c)
    PROVE  DecisionInv'
<1>1. /\ WorkGood(work[c]) /\ Begun(work[c])
      /\ Has(work[c], "coarse", Int) /\ Has(work[c], "refined", Int)
    BY DEF DecisionInv, AllWorkGood, WorkGood, Confirm, At, Steps
<1>2. PICK peaks \in Around(work[c].refined, ConfirmHalf), lost \in SUBSET DOMAIN work[c].current :
        Goes(c, With(c, "judge", "confirmed",
                     [t \in DOMAIN peaks |-> IF t \in lost THEN NoPeak ELSE peaks[t]]))
    BY DEF Confirm
<1> DEFINE found == [t \in DOMAIN peaks |-> IF t \in lost THEN NoPeak ELSE peaks[t]]
           w == With(c, "judge", "confirmed", found)
<1>3. found \in [DOMAIN work[c].current -> Int \cup {NoPeak}]
    BY <1>1, AroundAreIntegers, DecisionAssumption DEF Has
<1> HIDE DEF found
<1>4. Begun(w) /\ w.step = "judge" /\ Has(w, "coarse", Int) /\ Has(w, "refined", Int)
    BY <1>1, MeasureKeeps
<1>5. Has(w, "confirmed", Int \cup {NoPeak})
    BY <1>1, <1>3, MeasureKeeps DEF Has
<1>6. WorkGood(w)
    BY <1>4, <1>5 DEF WorkGood, Steps, Begun
<1> QED BY <1>2, <1>6, QuietStep DEF Confirm, found

(* The gates that pass bound what the candidates propose. *)
LEMMA GatesBound ==
    ASSUME NEW w, NEW clean, Gates(w, clean),
           Has(w, "coarse", Int), Has(w, "refined", Int), Has(w, "confirmed", Int \cup {NoPeak})
    PROVE  \A t \in DOMAIN w.current :
             /\ w.coarse[t] \in Int /\ w.confirmed[t] \in Int
             /\ Near(w.confirmed[t], w.coarse[t], MaxRefinedShift + MaxParallelShift)
<1> SUFFICES ASSUME NEW t \in DOMAIN w.current
             PROVE  /\ w.coarse[t] \in Int /\ w.confirmed[t] \in Int
                    /\ Near(w.confirmed[t], w.coarse[t], MaxRefinedShift + MaxParallelShift)
    OBVIOUS
<1>1. w.coarse[t] \in Int /\ w.refined[t] \in Int /\ w.confirmed[t] \in Int
    BY DEF Gates, Has
<1>2. Near(w.coarse[t], w.refined[t], MaxRefinedShift) /\ Near(w.refined[t], w.confirmed[t], MaxParallelShift)
    BY DEF Gates
<1> QED BY <1>1, <1>2, NearTwice, DecisionAssumption

LEMMA JudgeGood ==
    ASSUME DecisionInv, NEW c \in Sessions, Judge(c)
    PROVE  DecisionInv'
<1>1. /\ WorkGood(work[c]) /\ Begun(work[c]) /\ Has(work[c], "coarse", Int)
      /\ Has(work[c], "refined", Int) /\ Has(work[c], "confirmed", Int \cup {NoPeak})
    BY DEF DecisionInv, AllWorkGood, WorkGood, Judge, At, Steps
<1>2. PICK clean \in BOOLEAN : Goes(c, With(c, "publish", "eligible", Gates(work[c], clean)))
    BY DEF Judge
<1> DEFINE w == With(c, "publish", "eligible", Gates(work[c], clean))
<1>3. /\ Begun(w) /\ w.step = "publish" /\ w.current = work[c].current
      /\ Has(w, "coarse", Int) /\ Has(w, "confirmed", Int \cup {NoPeak})
      /\ "eligible" \in DOMAIN w /\ w.eligible = Gates(work[c], clean)
    BY <1>1, MeasureKeeps
<1>4. w.coarse = work[c].coarse /\ w.confirmed = work[c].confirmed
    <2>1. "step" \in DOMAIN work[c] /\ {"coarse", "confirmed"} \subseteq DOMAIN work[c]
        BY <1>1 DEF Has, WorkGood
    <2>2. \A f \in DOMAIN work[c] \ {"eligible", "step"} : w[f] = work[c][f]
        BY <2>1 DEF With
    <2> QED BY <2>1, <2>2
<1> HIDE DEF w
<1>5. Gates(work[c], clean) \in BOOLEAN
    BY DEF Gates
<1>6. Judged(w)
    BY <1>1, <1>2, <1>3, <1>4, <1>5, GatesBound DEF Judged, Begun
<1>7. {"step", "coarse", "confirmed", "eligible"} \subseteq DOMAIN w
    BY <1>3 DEF Begun, Has
<1>8. WorkGood(w)
    BY <1>3, <1>6, <1>7 DEF WorkGood, Steps
<1> QED BY <1>2, <1>8, QuietStep DEF Judge, w

LEMMA AbandonGood ==
    ASSUME DecisionInv, NEW c \in Sessions, Abandon(c)
    PROVE  DecisionInv'
BY IdleGood, QuietStep DEF Abandon
(* Decisions are made from what is published. *)
LEMMA DecideGood ==
    ASSUME DecisionInv, NEW c \in Sessions, NEW output \in DecisionOutputs, NEW o \in RunOutputs,
           NEW parent \in Calibrations, NEW k \in Calibrations, NEW targets \in SUBSET Targets,
           Decide(c, output, o, parent, k, targets)
    PROVE  DecisionInv'
<1> DEFINE w == [step |-> "decided", output |-> output, run |-> o, parent |-> parent,
                 targets |-> targets, values |-> Values(o, k, targets)]
<1>1. /\ runs[o] # Nothing /\ Matches(parent, k) /\ targets \subseteq DOMAIN runs[o].current
      /\ targets # {} => runs[o].eligible
      /\ \A t \in DOMAIN runs[o].current : runs[o].current[t] = Context(k)[t].frequency
    BY DEF Decide, Acceptable
<1>2. ASSUME NEW t \in targets PROVE Proposed(runs[o], t) \in Int
    BY <1>1 DEF DecisionInv, RunsGood, Judged, Proposed
<1>3. Values(o, k, targets) \in [Targets -> Authorities]
    BY <1>2, ContextTyped DEF Values, Authority, Authorities
<1>4. Decided(w)
    BY <1>1, <1>3 DEF Decided
<1>5. WorkGood(w)
    BY <1>4 DEF WorkGood, Steps
<1> QED BY <1>5, QuietStep DEF Decide

LEMMA PublishRunGood ==
    ASSUME DecisionInv, NEW c \in Sessions, PublishRun(c)
    PROVE  DecisionInv'
<1> DEFINE w == work[c]
           r == [f \in DOMAIN w \ {"step", "output"} |-> w[f]]
<1>1. Begun(w) /\ Judged(w) /\ {"coarse", "confirmed", "eligible"} \subseteq DOMAIN w
    BY DEF DecisionInv, AllWorkGood, WorkGood, PublishRun, At, Steps
<1>2. Judged(r)
    BY <1>1 DEF Judged, Begun
<1>3. runs[w.output] = Nothing /\ runs' = [runs EXCEPT ![w.output] = r] /\ decisions' = decisions
    BY DEF PublishRun
<1> HIDE DEF r
<1>4. Directories' /\ DirectoriesKept
    BY <1>3 DEF DecisionInv, Directories, DirectoriesKept
<1>5. RunsGood' /\ DecisionsGood'
    BY <1>1, <1>2, <1>3, <1>4, JudgedStays, DecidedStays
       DEF DecisionInv, RunsGood, DecisionsGood, Directories, Begun
<1>6. AllWorkGood'
    BY <1>4, WorkStays, IdleGood DEF DecisionInv, AllWorkGood, PublishRun, Goes
<1>7. Traceable'
    <2>1. ASSUME NEW d \in Accepted, NEW t \in Targets, decisions[d].values[t].run # Nothing
          PROVE  runs'[decisions[d].values[t].run] = runs[decisions[d].values[t].run]
        <3>1. decisions[d].values[t] \in Authorities
            BY DEF DecisionInv, Directories, DecisionsGood, Decided, Accepted, PublishedIn
        <3> QED BY <2>1, <3>1, <1>4 DEF DecisionInv, Traceable, Authorities, DirectoriesKept
    <2> QED BY <1>3, <2>1 DEF DecisionInv, Traceable, Accepted, PublishedIn
<1> QED BY <1>4, <1>5, <1>6, <1>7 DEF DecisionInv

LEMMA PublishDecisionGood ==
    ASSUME DecisionInv, NEW c \in Sessions, PublishDecision(c)
    PROVE  DecisionInv'
<1> DEFINE w == work[c]
           r == [f \in DOMAIN w \ {"step", "output"} |-> w[f]]
<1>1. /\ {"step", "output", "run", "parent", "targets", "values"} \subseteq DOMAIN w
      /\ w.output \in DecisionOutputs /\ Decided(w)
    BY DEF DecisionInv, AllWorkGood, WorkGood, PublishDecision, At, Steps
<1>2. r.run = w.run /\ r.parent = w.parent /\ r.targets = w.targets /\ r.values = w.values
    BY <1>1
<1>3. /\ decisions[w.output] = Nothing /\ runs' = runs
      /\ decisions' = [decisions EXCEPT ![w.output] = r]
    BY DEF PublishDecision
<1> HIDE DEF r
<1>4. Decided(r)
    BY <1>1, <1>2 DEF Decided
<1>5. Directories' /\ DirectoriesKept
    BY <1>3 DEF DecisionInv, Directories, DirectoriesKept
<1>6. RunsGood' /\ DecisionsGood'
    BY <1>1, <1>3, <1>4, <1>5, JudgedStays, DecidedStays
       DEF DecisionInv, RunsGood, DecisionsGood, Directories
<1>7. AllWorkGood'
    BY <1>5, WorkStays, IdleGood DEF DecisionInv, AllWorkGood, PublishDecision, Goes
<1>8. Accepted \subseteq Accepted' /\ \A d \in Accepted : decisions'[d] = decisions[d]
    BY <1>5 DEF DecisionInv, Directories, DirectoriesKept, Accepted, PublishedIn
<1>9. ASSUME NEW a, NEW t \in Targets, Original(a, t) PROVE Original(a, t)'
    <2>1. CASE a.run = Nothing
        BY <1>9, <2>1 DEF Original
    <2>2. CASE a.run # Nothing
        <3>1. PICK e \in Accepted :
                 decisions[e].run = a.run /\ t \in decisions[e].targets /\ decisions[e].values[t] = a
            BY <1>9, <2>2 DEF Original
        <3>2. /\ runs[a.run] # Nothing /\ runs[a.run].eligible
              /\ Near(a.frequency, runs[a.run].coarse[t], MaxRefinedShift + MaxParallelShift)
            BY <1>9, <2>2 DEF Original
        <3>3. /\ e \in Accepted'
              /\ decisions'[e].run = a.run /\ t \in decisions'[e].targets
              /\ decisions'[e].values[t] = a
            BY <1>8, <3>1
        <3>4. \E x \in Accepted' :
                 decisions'[x].run = a.run /\ t \in decisions'[x].targets /\ decisions'[x].values[t] = a
            BY <3>3
        <3>5. runs' = runs
            BY <1>3
        <3> QED BY <2>2, <3>2, <3>4, <3>5 DEF Original, Near
    <2> QED BY <2>1, <2>2
<1>10. ASSUME NEW d \in Accepted, NEW t \in Targets
       PROVE  Original(decisions[d].values[t], t)
    BY DEF DecisionInv, Traceable, Original
<1>11. decisions'[w.output] = r
    BY <1>1, <1>3 DEF DecisionInv, Directories
<1>12. ASSUME w.output \in Accepted', NEW t \in Targets, NEW a, a = r.values[t]
       PROVE  Original(a, t)'
    <2>1. PICK k \in Calibrations : r.values = Values(r.run, k, r.targets)
        BY <1>4 DEF Decided
    <2>2. CASE t \in r.targets
        <3>1. a = Authority(runs[r.run].confirmed[t], r.run, Context(k)[t].revision + 1)
            BY <1>12, <2>1, <2>2 DEF Values, Proposed
        <3>2. a.run = r.run /\ a.frequency = runs[r.run].confirmed[t]
            BY <3>1 DEF Authority
        <3>3. /\ r.run \in RunOutputs /\ r.run # Nothing /\ runs[r.run] # Nothing /\ runs[r.run].eligible
              /\ t \in DOMAIN runs[r.run].current
            BY <1>4, <2>2, DecisionAssumption DEF Decided
        <3>4. Near(runs[r.run].confirmed[t], runs[r.run].coarse[t], MaxRefinedShift + MaxParallelShift)
            BY <3>3 DEF DecisionInv, RunsGood, Judged
        <3>5. \E e \in Accepted' :
                 decisions'[e].run = a.run /\ t \in decisions'[e].targets /\ decisions'[e].values[t] = a
            BY <1>11, <1>12, <2>2, <3>2
        <3>6. runs' = runs
            BY <1>3
        <3> QED BY <3>2, <3>3, <3>4, <3>5, <3>6 DEF Original, Near
    <2>3. CASE t \notin r.targets
        <3>1. a = Context(k)[t]
            BY <1>12, <2>1, <2>3 DEF Values
        <3>2. CASE k = Uncalibrated
            BY <3>1, <3>2 DEF Original, Context, Bootstrap, Authority
        <3>3. CASE k \in Accepted
            <4>1. a = decisions[k].values[t]
                BY <3>1, <3>3, DecisionAssumption DEF Context, DecisionInv, Directories, Accepted, PublishedIn
            <4> QED BY <1>9, <1>10, <3>3, <4>1
        <3> QED BY <3>2, <3>3 DEF Calibrations
    <2> QED BY <2>2, <2>3
<1>13. \A d \in Accepted' : d # w.output => d \in Accepted
    BY <1>3 DEF DecisionInv, Directories, Accepted, PublishedIn
<1>14. Traceable'
    <2>1. ASSUME NEW d \in Accepted', NEW t \in Targets, NEW a, a = decisions'[d].values[t]
          PROVE  Original(a, t)'
        <3>1. CASE d = w.output
            BY <1>11, <1>12, <2>1, <3>1
        <3>2. CASE d # w.output
            <4>1. d \in Accepted /\ a = decisions[d].values[t]
                BY <1>8, <1>13, <2>1, <3>2
            <4> QED BY <1>9, <1>10, <4>1
        <3> QED BY <3>1, <3>2
    <2> QED BY <2>1 DEF Traceable, Original, Bootstrap, Authority
<1> QED BY <1>5, <1>6, <1>7, <1>14 DEF DecisionInv

LEMMA InitGood == DecisionInit => DecisionInv
<1> SUFFICES ASSUME DecisionInit PROVE DecisionInv
    OBVIOUS
<1>1. Directories /\ RunsGood /\ DecisionsGood /\ Traceable
    BY DEF DecisionInit, Directories, RunsGood, DecisionsGood, Traceable, Accepted, PublishedIn
<1> QED BY <1>1, IdleGood DEF DecisionInv, DecisionInit, AllWorkGood

LEMMA StutterGood == DecisionInv /\ UNCHANGED decisionVars => DecisionInv'
<1> SUFFICES ASSUME DecisionInv, UNCHANGED decisionVars PROVE DecisionInv'
    OBVIOUS
<1>1. Directories' /\ DirectoriesKept
    BY DEF DecisionInv, Directories, DirectoriesKept, decisionVars
<1>2. RunsGood' /\ DecisionsGood' /\ AllWorkGood'
    BY <1>1, JudgedStays, DecidedStays, WorkStays
       DEF DecisionInv, RunsGood, DecisionsGood, AllWorkGood, decisionVars
<1>3. Traceable'
    BY DEF DecisionInv, Traceable, Accepted, PublishedIn, decisionVars
<1> QED BY <1>1, <1>2, <1>3 DEF DecisionInv

LEMMA NextGood == DecisionInv /\ [DecisionNext]_decisionVars => DecisionInv'
<1> SUFFICES ASSUME DecisionInv, DecisionNext PROVE DecisionInv'
    BY StutterGood
<1>1. PICK c \in Sessions :
        \/ \E output \in RunOutputs, parent \in Calibrations, k \in Calibrations,
              targets \in SUBSET Targets \ {{}} :
              BeginRun(c, output, parent, k, targets)
        \/ ScanCoarse(c) \/ ScanRefined(c) \/ Confirm(c) \/ Judge(c) \/ PublishRun(c)
        \/ \E output \in DecisionOutputs, o \in RunOutputs, parent \in Calibrations,
              k \in Calibrations, targets \in SUBSET Targets :
              Decide(c, output, o, parent, k, targets)
        \/ PublishDecision(c)
        \/ Abandon(c)
    BY DEF DecisionNext
<1> QED BY <1>1, BeginGood, CoarseGood, RefinedGood, ConfirmGood, JudgeGood, PublishRunGood,
           DecideGood, PublishDecisionGood, AbandonGood

LEMMA InvImpliesTypeOK == DecisionInv => DecisionTypes
<1> SUFFICES ASSUME DecisionInv PROVE DecisionTypes
    OBVIOUS
<1>1. Calibrations \subseteq {Uncalibrated} \cup DecisionOutputs
    BY DEF DecisionInv, Directories, Calibrations, Accepted, PublishedIn
<1>2. \A o \in PublishedIn(runs) : Judged(runs[o])
    BY DEF DecisionInv, Directories, RunsGood, PublishedIn
<1>3. \A d \in PublishedIn(decisions) : Decided(decisions[d])
    BY DEF DecisionInv, Directories, DecisionsGood, PublishedIn
<1>4. \A d \in PublishedIn(decisions) : decisions[d].targets \subseteq Targets
    BY <1>3 DEF Decided, DecisionInv, RunsGood, Judged
<1> QED BY <1>1, <1>2, <1>3, <1>4 DEF DecisionTypes, DecisionInv, Directories, Judged, Decided, AllWorkGood, WorkGood, Steps

(* The lineage needs no history: it follows from the context a decision was made in. *)
LEMMA InvImpliesLineage == DecisionInv => Lineage
<1> SUFFICES ASSUME DecisionInv, NEW d \in Accepted, decisions[d].parent # Uncalibrated
             PROVE  /\ decisions[d].parent \in Accepted
                    /\ \A t \in Targets \ decisions[d].targets :
                         decisions[d].values[t] = decisions[decisions[d].parent].values[t]
                    /\ \A t \in decisions[d].targets :
                         /\ decisions[d].values[t].revision
                              = decisions[decisions[d].parent].values[t].revision + 1
                         /\ runs[decisions[d].run].current[t]
                              = decisions[decisions[d].parent].values[t].frequency
    BY DEF Lineage
<1> DEFINE w == decisions[d]
<1>1. Decided(w)
    BY DEF DecisionInv, Directories, DecisionsGood, Accepted, PublishedIn
<1> HIDE DEF w
<1>2. w.parent \in Accepted
    BY <1>1 DEF Decided, Calibrations, w
<1>3. PICK k \in Calibrations :
         /\ Matches(w.parent, k)
         /\ \A t \in DOMAIN runs[w.run].current : runs[w.run].current[t] = Context(k)[t].frequency
         /\ w.values = Values(w.run, k, w.targets)
    BY <1>1 DEF Decided
<1>4. decisions[w.parent].values = Context(k)
    BY <1>3 DEF Matches, w
<1>5. \A t \in Targets \ w.targets : w.values[t] = Context(k)[t]
    BY <1>3 DEF Values
<1>6. w.targets \subseteq DOMAIN runs[w.run].current /\ w.targets \subseteq Targets
    BY <1>1 DEF Decided, DecisionInv, RunsGood, Judged
<1>7. \A t \in w.targets : w.values[t].revision = Context(k)[t].revision + 1
    BY <1>3, <1>6 DEF Values, Authority
<1> QED BY <1>2, <1>3, <1>4, <1>5, <1>6, <1>7 DEF w

(* The invariant in the form the two theorems below take it in. *)
LEMMA AlwaysInv == DecisionSpec => [](DecisionInv /\ Lineage)
<1>1. DecisionInv => Lineage
    BY InvImpliesLineage
<1> QED BY <1>1, InitGood, NextGood, PTL DEF DecisionSpec

(* Whatever callers measure, decide, abandon and publish, in any order, each frequency a     *)
(* calibration holds comes from an eligible run that a decision accepted for its qubit, close *)
(* to the coarse peak (decide_qubit_spectroscopy_calibration, _build_calibration_snapshot).   *)
THEOREM CalibrationsSound == DecisionSpec => [](DecisionTypes /\ Traceable)
<1>1. DecisionInv => DecisionTypes /\ Traceable
    BY InvImpliesTypeOK DEF DecisionInv
<1> QED BY <1>1, AlwaysInv, PTL

(* Each calibration continues the calibrated parent it names: beyond the targets that were   *)
(* accepted nothing differs, and these were measured while the parent was in use             *)
(* (_build_calibration_snapshot).                                                            *)
THEOREM LineageKept == DecisionSpec => []Lineage
BY AlwaysInv, PTL

=============================================================================
