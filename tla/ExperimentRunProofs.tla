------------------------ MODULE ExperimentRunProofs ------------------------
(***************************************************************************)
(* Proofs about ExperimentRun: who may use the resource, what a recovery   *)
(* record says, when a lock goes, what stays in the catalog, and that what *)
(* is published is what happened, for any number of runs, operators,       *)
(* points and failures.                                                    *)
(***************************************************************************)
EXTENDS ExperimentRun, FiniteSetTheorems, TLAPS

(* The types, by the variables that steps change together. *)
EvidenceTypes ==
    /\ at \in [Runs -> SUBSET Places]
    /\ tree \in [Runs -> [Places -> Tree]]
    /\ stream \in [Runs -> {"staging", "quarantine"}]
LockTypes == runLocks \subseteq Runs /\ recoveryLocks \subseteq Runs /\ resource \in Runs \cup {NoRun}
OwnerTypes ==
    /\ cancellation \in [Runs -> {"none", "torn", "whole"}]
    /\ pc \in [Runs -> Phases] /\ done \in [Runs -> 0..Points] /\ ending \in [Runs -> Statuses]
    /\ answer \in [Runs -> {"none", "indexed", "unindexed"}]
    /\ \A r \in Runs : pc[r] = "started" => done[r] < Points
RecoveryTypes ==
    /\ record \in [Runs -> [made: BOOLEAN, of: Tree]]
    /\ malformed \subseteq Runs /\ released \subseteq Runs /\ hasty \subseteq Runs
    /\ opc \in [Operators -> OperatorPhases] /\ job \in [Operators -> Runs \cup {NoRun}]
    /\ \A o \in Operators : job[o] = NoRun <=> opc[o] \in {"idle", "replacing"}
IndexTypes ==
    /\ catalog \subseteq Entry /\ catalogLock \in Runs \cup Operators \cup {NoRun}
    /\ scanned \in [Operators -> SUBSET Entry]
CountTypes == version \in Versions /\ faults \in 0..MaxFaults
TypeInv == EvidenceTypes /\ LockTypes /\ OwnerTypes /\ RecoveryTypes /\ IndexTypes /\ CountTypes

LEMMA TypesHold == TypeInv => TypeOK
  BY DEF TypeInv, TypeOK, EvidenceTypes, LockTypes, OwnerTypes, RecoveryTypes, IndexTypes, CountTypes

LEMMA EventNames ==
    /\ \A s \in Statuses : TerminalEvent[s] \in EventTypes
    /\ {"run_reserved", "run_prepared", "run_started", "cancel_requested", "point_started",
        "point_completed", "point_failed", "run_finalizing", "run_completed"} \subseteq EventTypes
<1>1. DOMAIN InPhase = {"run_prepared", "run_started", "cancel_requested", "point_started",
                        "point_completed", "point_failed", "run_finalizing"}
  BY DEF InPhase
<1>2. \A s \in Statuses : TerminalEvent[s] \in Terminals
  BY DEF Terminals
<1>3. TerminalEvent["completed"] = "run_completed" /\ "completed" \in Statuses
  BY DEF TerminalEvent, Statuses
<1> QED BY <1>1, <1>2, <1>3 DEF EventTypes

LEMMA FreshTree == Fresh \in Tree /\ Fresh.events = <<>> /\ Fresh.inputs = FALSE
  BY DEF Fresh, Tree

(* What a step writes into a directory leaves it a directory. *)
LEMMA TreeChanges ==
    ASSUME NEW t \in Tree
    PROVE  /\ [t EXCEPT !.inputs = TRUE] \in Tree
           /\ [t EXCEPT !.torn = TRUE] \in Tree
           /\ \A d \in {"none", "torn", "binary", "whole"} : [t EXCEPT !.data = d] \in Tree
           /\ \A e \in EventTypes : [t EXCEPT !.events = Append(@, e)] \in Tree
<1>1. [t EXCEPT !.inputs = TRUE] \in Tree
  BY DEF Tree
<1>2. [t EXCEPT !.torn = TRUE] \in Tree
  BY DEF Tree
<1>3. \A d \in {"none", "torn", "binary", "whole"} : [t EXCEPT !.data = d] \in Tree
  BY DEF Tree
<1>4. \A e \in EventTypes : [t EXCEPT !.events = Append(@, e)] \in Tree
  <2>1. \A e \in EventTypes : Append(t.events, e) \in Seq(EventTypes)
    BY DEF Tree
  <2> QED BY <2>1 DEF Tree
<1> QED BY <1>1, <1>2, <1>3, <1>4

LEMMA BoundType ==
    ASSUME NEW t \in Tree, NEW r, ending[r] \in Statuses, NEW n \in {1, 3} PROVE Bound(t, r, n) \in Tree
<1>1. Len(t.events) \in Nat
  BY DEF Tree
<1>2. n \in 0..3 /\ ending[r] \in Statuses \cup {"none"}
  OBVIOUS
<1> QED BY <1>1, <1>2 DEF Tree, Bound

(* A line is added to the journal that is open. *)
LEMMA AppendType ==
    ASSUME EvidenceTypes, NEW r \in Runs, NEW e \in EventTypes, Append_(r, e)
    PROVE  EvidenceTypes'
<1>1. stream[r] \in Places /\ tree[r][stream[r]] \in Tree
  BY DEF EvidenceTypes, Places
<1>2. [tree[r][stream[r]] EXCEPT !.events = Append(@, e)] \in Tree
  BY <1>1, TreeChanges
<1> QED BY <1>1, <1>2 DEF EvidenceTypes, Append_

LEMMA HalfWrittenType ==
    ASSUME EvidenceTypes, NEW r \in Runs, ending[r] \in Statuses, tree' = tree \/ HalfWritten(r),
           UNCHANGED <<at, stream>>
    PROVE  EvidenceTypes'
<1>1. stream[r] \in Places /\ "staging" \in Places
  BY DEF EvidenceTypes, Places
<1>2. \A p \in Places : tree[r][p] \in Tree
  BY DEF EvidenceTypes
<1>3. \A p \in Places : [tree[r][p] EXCEPT !.torn = TRUE] \in Tree
  BY <1>2, TreeChanges
<1>4. \A d \in {"torn", "binary"} : [tree[r]["staging"] EXCEPT !.data = d] \in Tree
  BY <1>1, <1>2, TreeChanges
<1>5. Bound(tree[r]["staging"], r, 1) \in Tree
  BY <1>1, <1>2, BoundType
<1>6. CASE HalfWritten(r)
  <2>1. CASE tree' = [tree EXCEPT ![r][stream[r]].torn = TRUE]
    BY <1>1, <1>3, <2>1 DEF EvidenceTypes
  <2>2. CASE \E d \in {"torn", "binary"} : tree' = [tree EXCEPT ![r]["staging"].data = d]
    <3>1. PICK d \in {"torn", "binary"} : tree' = [tree EXCEPT ![r]["staging"].data = d]
      BY <2>2
    <3>2. [tree[r]["staging"] EXCEPT !.data = d] \in Tree
      BY <1>4
    <3> QED BY <1>1, <3>1, <3>2 DEF EvidenceTypes
  <2>3. CASE tree' = [tree EXCEPT ![r]["staging"] = Bound(@, r, 1)]
    BY <1>1, <1>5, <2>3 DEF EvidenceTypes
  <2> QED BY <1>6, <2>1, <2>2, <2>3 DEF HalfWritten
<1> QED BY <1>6 DEF EvidenceTypes

LEMMA OwnerEvidence ==
    ASSUME TypeInv, NEW r \in Runs, Run(r) PROVE EvidenceTypes'
<1>a. EvidenceTypes /\ ending[r] \in Statuses
  BY DEF TypeInv, OwnerTypes
<1>b. tree[r] \in [Places -> Tree] /\ stream[r] \in Places /\ Places = {"staging", "quarantine", "runs"}
  BY <1>a DEF EvidenceTypes, Places
<1>1. CASE UNCHANGED evidence
  BY <1>a, <1>1 DEF EvidenceTypes, evidence
<1>2. CASE \E e \in EventTypes : Append_(r, e)
  BY <1>a, <1>2, AppendType
<1>3. CASE (tree' = tree \/ HalfWritten(r)) /\ UNCHANGED <<at, stream>>
  BY <1>a, <1>3, HalfWrittenType
<1>4. CASE MakeStaging(r)
  BY <1>a, <1>b, <1>1, <1>4 DEF MakeStaging, EvidenceTypes
<1>5. CASE WriteInputs(r)
  <2>1. [Fresh EXCEPT !.inputs = TRUE] \in Tree
    BY FreshTree, TreeChanges
  <2> QED BY <1>a, <1>b, <1>5, <2>1 DEF WriteInputs, EvidenceTypes
<1>6. CASE WriteData(r)
  <2>1. [tree[r]["staging"] EXCEPT !.data = "whole"] \in Tree
    BY <1>b, TreeChanges
  <2> QED BY <1>a, <1>b, <1>6, <2>1 DEF WriteData, EvidenceTypes
<1>7. CASE StopRun(r)
  <2> DEFINE d == IF "staging" \in at[r] THEN "none" ELSE tree[r]["staging"].data
             u == [tree[r] EXCEPT !["staging"].data = d]
  <2>1. u \in [Places -> Tree]
    <3>1. d \in {"none", "torn", "binary", "whole"}
      BY <1>b DEF Tree
    <3>2. [tree[r]["staging"] EXCEPT !.data = d] \in Tree
      BY <1>b, <3>1, TreeChanges
    <3> HIDE DEF d
    <3> QED BY <1>b, <3>2
  <2>2. [u[stream[r]] EXCEPT !.events = Append(@, TerminalEvent[ending[r]])] \in Tree
    <3> HIDE DEF u
    <3> QED BY <1>a, <1>b, <2>1, TreeChanges, EventNames
  <2>3. tree' = [tree EXCEPT ![r] = [u EXCEPT ![stream[r]].events = Append(@, TerminalEvent[ending[r]])]]
    <3> DEFINE first == [tree EXCEPT ![r]["staging"].data = d]
    <3>1. tree' = [first EXCEPT ![r][stream[r]].events = Append(@, TerminalEvent[ending[r]])]
      BY <1>7, ZenonT(30) DEF StopRun
    <3>2. first = [tree EXCEPT ![r] = u] /\ tree \in [Runs -> [Places -> Tree]]
      BY <1>a DEF EvidenceTypes
    <3> HIDE DEF first, u
    <3>3. first[r] = u /\ first = [tree EXCEPT ![r] = u]
      BY <3>2
    <3> QED BY <3>1, <3>2, <3>3
  <2>4. UNCHANGED <<at, stream>>
    BY <1>7 DEF StopRun
  <2> HIDE DEF u
  <2> QED BY <1>a, <1>b, <2>1, <2>2, <2>3, <2>4 DEF EvidenceTypes
<1>8. CASE WriteDocuments(r)
  <2>1. Bound(tree[r]["staging"], r, 3) \in Tree
    BY <1>a, <1>b, BoundType
  <2> QED BY <1>a, <1>b, <1>8, <2>1 DEF WriteDocuments, EvidenceTypes
<1>9. CASE Publish(r)
  BY <1>a, <1>b, <1>9, FreshTree DEF Publish, EvidenceTypes
<1> HIDE DEF HalfWritten
<1>10. CASE Begin(r) \/ ObserveCancellation(r) \/ StartPoint(r) \/ RunPoint(r) \/ PointFails(r) \/ Finalize(r) \/ Complete(r)
  BY <1>1, <1>2, <1>10, EventNames
  DEF Begin, ObserveCancellation, StartPoint, RunPoint, PointFails, Finalize, Complete
<1>11. CASE Fails(r) \/ Raises(r) \/ Crash(r)
  BY <1>3, <1>11 DEF Fails, Raises, Crash
<1>12. CASE Reserve(r) \/ TakeResource(r) \/ InputsFail(r) \/ RunBudgetExceeded(r) \/ NextPoint(r) \/ Close(r)
            \/ PublishRefused(r) \/ Release(r) \/ IndexRun(r) \/ RequestCancellation(r)
  BY <1>1, <1>12 DEF Reserve, TakeResource, InputsFail, RunBudgetExceeded, NextPoint, Close,
    PublishRefused, Release, IndexRun, RequestCancellation
<1> QED BY <1>4, <1>5, <1>6, <1>7, <1>8, <1>9, <1>10, <1>11, <1>12 DEF Run

(* An owner leaves what operators keep alone. *)
LEMMA OwnerLeaves ==
    ASSUME NEW r \in Runs, Run(r)
    PROVE  UNCHANGED <<version, recoveryLocks, record, malformed, released, opc, job, hasty, scanned>>
<1>1. CASE Reserve(r) \/ TakeResource(r) \/ MakeStaging(r) \/ WriteInputs(r) \/ InputsFail(r)
  BY <1>1 DEF Reserve, TakeResource, MakeStaging, WriteInputs, InputsFail, locks, recovery, index
<1>2. CASE Begin(r) \/ ObserveCancellation(r) \/ StartPoint(r) \/ RunBudgetExceeded(r) \/ RunPoint(r)
  BY <1>2 DEF Begin, ObserveCancellation, StartPoint, RunBudgetExceeded, RunPoint, locks, recovery, index
<1>3. CASE PointFails(r) \/ NextPoint(r) \/ Finalize(r) \/ WriteData(r) \/ Complete(r) \/ Fails(r)
  BY <1>3 DEF PointFails, NextPoint, Finalize, WriteData, Complete, Fails, locks, recovery, index
<1>4. CASE StopRun(r) \/ Close(r) \/ WriteDocuments(r) \/ Publish(r) \/ PublishRefused(r) \/ Release(r)
  BY <1>4 DEF StopRun, Close, WriteDocuments, Publish, PublishRefused, Release, locks, recovery, index
<1>5. CASE IndexRun(r) \/ Raises(r) \/ Crash(r) \/ RequestCancellation(r)
  BY <1>5 DEF IndexRun, Raises, Crash, RequestCancellation, locks, recovery, index
<1> QED BY <1>1, <1>2, <1>3, <1>4, <1>5 DEF Run

LEMMA OwnerKeepsTypes ==
    ASSUME TypeInv, NEW r \in Runs, Run(r) PROVE OwnerTypes'
<1>a. OwnerTypes
  BY DEF TypeInv
<1> DEFINE Moves_ == \E p \in Phases : pc' = [pc EXCEPT ![r] = p] /\ (p = "started" => done[r] < Points)
           Rest == UNCHANGED <<cancellation, done, answer>>
           Ends == ending' = ending \/ \E s \in Statuses : ending' = [ending EXCEPT ![r] = s]
<1>1. CASE Moves_ /\ Rest /\ Ends
  BY <1>a, <1>1 DEF OwnerTypes
<1>2. CASE RunPoint(r)
  <2>1. done[r] < Points /\ done[r] \in Nat /\ "observed" \in Phases
    BY <1>a, <1>2, RunAssumption DEF RunPoint, OwnerTypes, Phases, Trying
  <2>2. done[r] + 1 \in 0..Points
    BY <2>1, RunAssumption
  <2> QED BY <1>a, <1>2, <2>1, <2>2 DEF RunPoint, Goto, OwnerTypes
<1>3. CASE IndexRun(r)
  <2>1. {"indexing", "done"} \subseteq Phases
    BY DEF Phases
  <2> QED BY <1>a, <1>3, <2>1 DEF IndexRun, Goto, OwnerTypes
<1>4. CASE RequestCancellation(r)
  BY <1>a, <1>4 DEF RequestCancellation, owner, OwnerTypes
<1>5. CASE WriteDocuments(r)
  BY <1>a, <1>5 DEF WriteDocuments, owner, OwnerTypes
<1>p. {"reserving", "locked", "staged", "stopping", "ended", "closed", "published", "released",
       "refused", "raised", "dead", "opened", "reserved", "prepared", "boundary", "started", "observed",
       "finalizing", "dataset", "completed"} \subseteq Phases /\ {"completed", "failed", "cancelled"} \subseteq Statuses
  BY DEF Phases, Trying, Statuses
<1>6. CASE Reserve(r) \/ TakeResource(r) \/ MakeStaging(r) \/ WriteInputs(r) \/ InputsFail(r)
  BY <1>1, <1>6, <1>p DEF Reserve, TakeResource, MakeStaging, WriteInputs, InputsFail, Goto
<1>7. CASE Begin(r) \/ ObserveCancellation(r) \/ StartPoint(r) \/ RunBudgetExceeded(r) \/ PointFails(r)
  BY <1>1, <1>7, <1>p DEF Begin, ObserveCancellation, StartPoint, RunBudgetExceeded, PointFails, Goto, Stop
<1>8. CASE NextPoint(r) \/ Finalize(r) \/ WriteData(r) \/ Complete(r) \/ Fails(r) \/ StopRun(r)
  BY <1>1, <1>8, <1>p DEF NextPoint, Finalize, WriteData, Complete, Fails, StopRun, Goto, Stop
<1>9. CASE Close(r) \/ Publish(r) \/ PublishRefused(r) \/ Release(r) \/ Raises(r) \/ Crash(r)
  BY <1>1, <1>9, <1>p DEF Close, Publish, PublishRefused, Release, Raises, Crash, Goto
<1> QED BY <1>2, <1>3, <1>4, <1>5, <1>6, <1>7, <1>8, <1>9 DEF Run

(* How an owner changes the resource lock and the catalog. *)
LEMMA OwnerShares ==
    ASSUME NEW r \in Runs, Run(r)
    PROVE  /\ runLocks' \subseteq runLocks \cup {r}
           /\ \/ resource' = resource
              \/ resource = NoRun /\ resource' = r
              \/ pc[r] \in {"locked", "staged", "published"} /\ resource' = NoRun
           /\ \/ UNCHANGED <<catalog, catalogLock>>
              \/ pc[r] = "released" /\ catalogLock = NoRun /\ catalogLock' = r /\ catalog' = catalog
              \/ pc[r] = "indexing" /\ catalogLock' = NoRun /\ catalog' = catalog \cup {<<r, "run">>}
           /\ faults' = faults \/ (faults < MaxFaults /\ faults' = faults + 1)
<1>1. CASE Reserve(r) \/ TakeResource(r) \/ MakeStaging(r) \/ WriteInputs(r) \/ InputsFail(r)
  BY <1>1 DEF Reserve, TakeResource, MakeStaging, WriteInputs, InputsFail, locks, index, Fault
<1>2. CASE Begin(r) \/ ObserveCancellation(r) \/ StartPoint(r) \/ RunBudgetExceeded(r) \/ RunPoint(r)
  BY <1>2 DEF Begin, ObserveCancellation, StartPoint, RunBudgetExceeded, RunPoint, locks, index, Fault
<1>3. CASE PointFails(r) \/ NextPoint(r) \/ Finalize(r) \/ WriteData(r) \/ Complete(r) \/ Fails(r)
  BY <1>3 DEF PointFails, NextPoint, Finalize, WriteData, Complete, Fails, locks, index, Fault
<1>4. CASE StopRun(r) \/ Close(r) \/ WriteDocuments(r) \/ Publish(r) \/ PublishRefused(r) \/ Release(r)
  BY <1>4 DEF StopRun, Close, WriteDocuments, Publish, PublishRefused, Release, locks, index
<1>5. CASE IndexRun(r) \/ Raises(r) \/ Crash(r) \/ RequestCancellation(r)
  BY <1>5 DEF IndexRun, Raises, Crash, RequestCancellation, locks, index, Fault
<1> QED BY <1>1, <1>2, <1>3, <1>4, <1>5 DEF Run

LEMMA RunTypeInv ==
    ASSUME TypeInv, NEW r \in Runs, Run(r) PROVE TypeInv'
<1>1. EvidenceTypes' /\ OwnerTypes'
  BY OwnerEvidence, OwnerKeepsTypes
<1>2. LockTypes'
  BY OwnerLeaves, OwnerShares DEF TypeInv, LockTypes
<1>3. RecoveryTypes'
  BY OwnerLeaves DEF TypeInv, RecoveryTypes
<1>4. IndexTypes'
  <2>1. <<r, "run">> \in Entry
    BY DEF Entry
  <2> QED BY <2>1, OwnerLeaves, OwnerShares DEF TypeInv, IndexTypes
<1>5. CountTypes'
  BY OwnerLeaves, OwnerShares, RunAssumption DEF TypeInv, CountTypes
<1> QED BY <1>1, <1>2, <1>3, <1>4, <1>5 DEF TypeInv

-----------------------------------------------------------------------------
(* Before its journal is open a run has written nothing. *)
Early == {"idle", "reserving", "locked", "staged"}

(* Where the owner of a published run may be. *)
Late == {"published", "released", "indexing", "done", "raised", "dead"}

(* Where a run's directories are, by what its owner has done and by who moved them.  A run  *)
(* whose journal was moved away can never be published: the staging directory that is left  *)
(* has no events.                                                                           *)
OwnerOK(r) ==
    /\ pc[r] \in Early => "runs" \notin at[r] /\ \A p \in Places : tree[r][p] = Fresh
    /\ pc[r] \in {"published", "released", "indexing"} \/ answer[r] # "none" => "runs" \in at[r]
    /\ "runs" \in at[r] => Verified(tree[r]["runs"]) /\ "staging" \notin at[r] /\ pc[r] \in Late
    /\ stream[r] = "quarantine" =>
           "quarantine" \in at[r] /\ "runs" \notin at[r] /\ tree[r]["staging"].events = <<>>
    /\ "quarantine" \in at[r] /\ r \notin malformed => stream[r] = "quarantine" /\ pc[r] \notin Early

OwnerInv == \A r \in Runs : OwnerOK(r)

(* A verified directory has events; so has a prefix that a recovery takes, and its inputs. *)
LEMMA VerifiedReads ==
    ASSUME NEW t PROVE /\ Verified(t) => t.events # <<>>
                       /\ PrefixHolds(t) => t.inputs
  BY DEF Verified, Verified01, Verified02, PrefixHolds, Prefix01, PrefixOf02, JournalReads

(* A step of an owner is one of its own run only. *)
LEMMA OwnerFrame ==
    ASSUME TypeInv, NEW r \in Runs, Run(r), NEW q \in Runs, q # r
    PROVE  /\ at'[q] = at[q] /\ tree'[q] = tree[q] /\ stream'[q] = stream[q]
           /\ pc'[q] = pc[q] /\ answer'[q] = answer[q]
<1>a. /\ EvidenceTypes /\ pc \in [Runs -> Phases]
      /\ answer \in [Runs -> {"none", "indexed", "unindexed"}]
  BY DEF TypeInv, OwnerTypes
<1>h. HalfWritten(r) => tree'[q] = tree[q]
  BY <1>a DEF HalfWritten, EvidenceTypes
<1> USE DEF Goto, Stop, EvidenceTypes
<1>1. CASE Reserve(r) \/ TakeResource(r) \/ MakeStaging(r) \/ WriteInputs(r) \/ InputsFail(r)
  BY <1>1, <1>a DEF Reserve, TakeResource, MakeStaging, WriteInputs, InputsFail, evidence
<1>2. CASE Begin(r) \/ ObserveCancellation(r) \/ StartPoint(r) \/ RunBudgetExceeded(r) \/ RunPoint(r)
  BY <1>2, <1>a DEF Begin, ObserveCancellation, StartPoint, RunBudgetExceeded, RunPoint, evidence, Append_
<1>3. CASE PointFails(r) \/ NextPoint(r) \/ Finalize(r) \/ WriteData(r) \/ Complete(r) \/ Fails(r)
  BY <1>3, <1>a, <1>h DEF PointFails, NextPoint, Finalize, WriteData, Complete, Fails, evidence, Append_
<1>4. CASE StopRun(r) \/ Close(r) \/ WriteDocuments(r) \/ Publish(r) \/ PublishRefused(r) \/ Release(r)
  BY <1>4, <1>a DEF StopRun, Close, WriteDocuments, Publish, PublishRefused, Release, evidence, owner
<1>5. CASE IndexRun(r) \/ Raises(r) \/ Crash(r) \/ RequestCancellation(r)
  BY <1>5, <1>a, <1>h DEF IndexRun, Raises, Crash, RequestCancellation, evidence, owner
<1> QED BY <1>1, <1>2, <1>3, <1>4, <1>5 DEF Run


LEMMA InsideIs ==
    ASSUME TypeInv, NEW r \in Runs
    PROVE  Inside(r) <=> pc[r] \notin {"idle", "reserving", "released", "indexing", "done", "refused",
                                       "raised", "dead"}
  BY DEF TypeInv, OwnerTypes, Inside, Gone

(* What a step does to its own run. *)
LEMMA OwnerEvolves ==
    ASSUME TypeInv, NEW r \in Runs, Run(r)
    PROVE  /\ Gone(r) => UNCHANGED <<at, tree, stream, pc, answer, resource, catalog, catalogLock>>
           /\ pc'[r] \in Early => pc[r] \in Early
           /\ pc[r] \notin Early => stream'[r] = stream[r]
           /\ "runs" \in at[r] => "runs" \in at'[r]
           /\ answer'[r] = "indexed" =>
                  answer[r] = "indexed" \/ (pc[r] = "indexing" /\ catalog' = catalog \cup {<<r, "run">>})
           /\ pc'[r] = "indexing" => pc[r] = "indexing" \/ catalogLock' = r
           /\ pc[r] = "indexing" /\ pc'[r] = "indexing" => catalogLock' = catalogLock
<1>a. pc \in [Runs -> Phases] /\ stream \in [Runs -> {"staging", "quarantine"}] /\ at \in [Runs -> SUBSET Places]
      /\ answer \in [Runs -> {"none", "indexed", "unindexed"}]
  BY DEF TypeInv, OwnerTypes, EvidenceTypes
<1> USE DEF Goto, Stop, Early, Gone
<1>1. CASE Reserve(r) \/ TakeResource(r) \/ MakeStaging(r) \/ WriteInputs(r) \/ InputsFail(r)
  BY <1>1, <1>a DEF Reserve, TakeResource, MakeStaging, WriteInputs, InputsFail, evidence, index
<1>2. CASE Begin(r) \/ ObserveCancellation(r) \/ StartPoint(r) \/ RunBudgetExceeded(r) \/ RunPoint(r)
  BY <1>2, <1>a DEF Begin, ObserveCancellation, Observing, StartPoint, RunBudgetExceeded, RunPoint,
                    Append_, evidence, index
<1>3. CASE PointFails(r) \/ NextPoint(r) \/ Finalize(r) \/ WriteData(r) \/ Complete(r) \/ Fails(r)
  BY <1>3, <1>a DEF PointFails, NextPoint, Finalize, WriteData, Complete, Fails, Append_, Trying,
                    evidence, index
<1>4. CASE StopRun(r) \/ Close(r) \/ WriteDocuments(r) \/ Publish(r) \/ PublishRefused(r) \/ Release(r)
  BY <1>4, <1>a DEF StopRun, Close, WriteDocuments, Publish, PublishRefused, Release, evidence, owner, index
<1>5. CASE IndexRun(r) \/ Raises(r) \/ Crash(r) \/ RequestCancellation(r)
  BY <1>5, <1>a DEF IndexRun, Raises, Crash, RequestCancellation, evidence, owner, locks, index
<1> QED BY <1>1, <1>2, <1>3, <1>4, <1>5 DEF Run

(* The resource is taken when it is free, and given back by an owner on its way out. *)
LEMMA OwnerAndResource ==
    ASSUME TypeInv, NEW r \in Runs, Run(r)
    PROVE  /\ Inside(r)' /\ ~Inside(r) => resource = NoRun /\ resource' = r
           /\ resource' # resource => \/ resource = NoRun /\ resource' = r
                                      \/ Inside(r) /\ ~Inside(r)' /\ resource' = NoRun
<1>a. pc \in [Runs -> Phases]
  BY DEF TypeInv, OwnerTypes
<1>b. /\ Inside(r) <=> pc[r] \notin {"idle", "reserving", "released", "indexing", "done", "refused",
                                     "raised", "dead"}
      /\ Inside(r)' <=> pc'[r] \notin {"idle", "reserving", "released", "indexing", "done", "refused",
                                       "raised", "dead"}
  <2>1. TypeInv'
    BY RunTypeInv
  <2> QED BY <2>1, InsideIs DEF TypeInv, OwnerTypes, Inside, Gone
<1> USE DEF Goto, Stop
<1>1. CASE Reserve(r) \/ TakeResource(r) \/ MakeStaging(r) \/ WriteInputs(r) \/ InputsFail(r)
  BY <1>1, <1>a, <1>b DEF Reserve, TakeResource, MakeStaging, WriteInputs, InputsFail, locks
<1>2. CASE Begin(r) \/ ObserveCancellation(r) \/ StartPoint(r) \/ RunBudgetExceeded(r) \/ RunPoint(r)
  BY <1>2, <1>a, <1>b DEF Begin, ObserveCancellation, Observing, StartPoint, RunBudgetExceeded, RunPoint,
                          locks
<1>3. CASE PointFails(r) \/ NextPoint(r) \/ Finalize(r) \/ WriteData(r) \/ Complete(r) \/ Fails(r)
  BY <1>3, <1>a, <1>b DEF PointFails, NextPoint, Finalize, WriteData, Complete, Fails, Trying, locks
<1>4. CASE StopRun(r) \/ Close(r) \/ WriteDocuments(r) \/ Publish(r) \/ PublishRefused(r) \/ Release(r)
  BY <1>4, <1>a, <1>b DEF StopRun, Close, WriteDocuments, Publish, PublishRefused, Release, owner, locks
<1>5. CASE IndexRun(r) \/ Raises(r) \/ Crash(r) \/ RequestCancellation(r)
  BY <1>5, <1>a, <1>b DEF IndexRun, Raises, Crash, RequestCancellation, owner, locks
<1> QED BY <1>1, <1>2, <1>3, <1>4, <1>5 DEF Run

(* A half-written file leaves the events of every directory and touches none that is published. *)
LEMMA HalfWrittenEvents ==
    ASSUME TypeInv, NEW r \in Runs, HalfWritten(r)
    PROVE  /\ pc[r] \in Trying \cup {"stopping", "closed"}
           /\ \A p \in Places : tree'[r][p].events = tree[r][p].events
<1>a. EvidenceTypes
  BY DEF TypeInv
<1>1. \A p \in Places : tree[r][p] \in Tree
  BY <1>a DEF EvidenceTypes
<1>2. pc[r] \in Trying \cup {"stopping", "closed"}
  BY DEF HalfWritten, Trying
<1>3. \A p \in Places : /\ [tree[r][p] EXCEPT !.torn = TRUE].events = tree[r][p].events
                        /\ Bound(tree[r][p], r, 1).events = tree[r][p].events
                        /\ \A d : [tree[r][p] EXCEPT !.data = d].events = tree[r][p].events
  BY <1>1 DEF Tree, Bound
<1>4. CASE tree' = [tree EXCEPT ![r][stream[r]].torn = TRUE]
  BY <1>a, <1>2, <1>3, <1>4 DEF EvidenceTypes
<1>5. CASE \E d \in {"torn", "binary"} : tree' = [tree EXCEPT ![r]["staging"].data = d]
  BY <1>a, <1>2, <1>3, <1>5 DEF EvidenceTypes
<1>6. CASE tree' = [tree EXCEPT ![r]["staging"] = Bound(@, r, 1)]
  BY <1>a, <1>2, <1>3, <1>6 DEF EvidenceTypes
<1> QED BY <1>4, <1>5, <1>6 DEF HalfWritten

(* The facts that every step of an owner has to restore are restored for its own run. *)
LEMMA OwnerOwn ==
    ASSUME TypeInv, NEW r \in Runs, OwnerOK(r), Run(r)
    PROVE  OwnerOK(r)'
<1>a. /\ EvidenceTypes /\ pc \in [Runs -> Phases]
      /\ answer \in [Runs -> {"none", "indexed", "unindexed"}]
  BY DEF TypeInv, OwnerTypes
<1>b. version' = version /\ malformed' = malformed
  BY OwnerLeaves
<1>c. stream[r] \in {"staging", "quarantine"} /\ "staging" \in Places
      /\ Places = {"staging", "quarantine", "runs"}
  BY <1>a DEF EvidenceTypes, Places
<1>v. \A t : Verified(t)' <=> Verified(t)
  BY <1>b DEF Verified
<1> DEFINE Busy(p) == p \notin Early \cup Late
(* Inside the runner: nothing is published, and events are written where the journal is. *)
<1>1. ASSUME UNCHANGED <<at, stream, answer>>, Busy(pc[r]), pc'[r] \notin Early,
             pc'[r] \notin {"published", "released", "indexing"},
             stream[r] = "quarantine" => tree'[r]["staging"].events = tree[r]["staging"].events
      PROVE  OwnerOK(r)'
  BY <1>1, <1>b DEF OwnerOK, Early, Late
<1>2. ASSUME UNCHANGED <<at, tree, stream>>, pc[r] \in Early => pc'[r] \in Early \cup {"refused", "raised", "dead"},
             pc[r] \notin Early => pc'[r] \notin Early, answer'[r] # "none" => "runs" \in at[r],
             pc'[r] \in {"published", "released", "indexing"} => "runs" \in at[r],
             pc[r] \in Late => pc'[r] \in Late
      PROVE  OwnerOK(r)'
  BY <1>2, <1>b DEF OwnerOK, Verified
<1>3. \A e : Append_(r, e) =>
          /\ UNCHANGED <<at, stream>>
          /\ stream[r] = "quarantine" => tree'[r]["staging"].events = tree[r]["staging"].events
  BY <1>a, <1>c DEF Append_, EvidenceTypes
<1>4. tree' = tree \/ HalfWritten(r) => \A p \in Places : tree'[r][p].events = tree[r][p].events
  BY HalfWrittenEvents
<1> HIDE DEF Busy
<1>t. /\ \A p \in Trying \cup {"stopping", "ended", "closed"} : Busy(p)
      /\ "stopping" \notin Early /\ "ended" \notin Early /\ Trying \cap Early = {}
      /\ Trying \cap {"published", "released", "indexing"} = {}
  BY DEF Busy, Trying, Early, Late
<1>5. CASE Begin(r) \/ StartPoint(r) \/ RunPoint(r) \/ Finalize(r) \/ Complete(r)
  <2>1. /\ \E e : Append_(r, e)
        /\ pc[r] \in Trying /\ pc'[r] \in Trying /\ answer' = answer
    BY <1>5, <1>a DEF Begin, StartPoint, RunPoint, Finalize, Complete, Goto, Trying
  <2> QED BY <1>1, <1>3, <1>t, <2>1
<1>6. CASE ObserveCancellation(r) \/ PointFails(r)
  <2>1. /\ UNCHANGED evidence \/ \E e : Append_(r, e)
        /\ pc[r] \in Trying /\ pc'[r] = "stopping" /\ answer' = answer
    BY <1>6, <1>a DEF ObserveCancellation, Observing, PointFails, Stop, Goto, Trying
  <2>2. CASE UNCHANGED evidence
    BY <1>1, <1>t, <2>1, <2>2 DEF evidence
  <2> QED BY <1>1, <1>3, <1>t, <2>1, <2>2
<1>7. CASE Fails(r) \/ Raises(r) \/ Crash(r)
  <2>1. /\ UNCHANGED <<at, stream, answer>> /\ (UNCHANGED tree \/ HalfWritten(r))
        /\ pc'[r] \in {"stopping", "raised", "dead"}
        /\ pc'[r] = "stopping" => pc[r] \in Trying
    BY <1>7, <1>a DEF Fails, Raises, Crash, Stop, Goto
  <2>2. CASE HalfWritten(r)
    <3>1. pc[r] \in Trying \cup {"stopping", "closed"}
      BY <2>2, HalfWrittenEvents
    <3>2. tree'[r]["staging"].events = tree[r]["staging"].events
      BY <1>4, <1>c, <2>2
    <3> QED BY <1>1, <1>t, <2>1, <3>1, <3>2 DEF Early
  <2>3. CASE UNCHANGED tree /\ pc'[r] = "stopping"
    BY <1>1, <1>t, <2>1, <2>3
  <2>4. CASE UNCHANGED tree /\ pc'[r] # "stopping"
    BY <1>2, <2>1, <2>4 DEF Early, Late, OwnerOK
  <2> QED BY <2>1, <2>2, <2>3, <2>4
<1>8. CASE WriteData(r)
  <2>1. /\ UNCHANGED <<at, stream, answer>> /\ pc[r] \in Trying
        /\ pc'[r] \in {"dataset", "stopping"}
    BY <1>8, <1>a DEF WriteData, Stop, Goto, Trying
  <2>2. tree'[r]["staging"].events = tree[r]["staging"].events
    <3>1. tree[r]["staging"] \in Tree
      BY <1>a, <1>c DEF EvidenceTypes
    <3>2. [tree[r]["staging"] EXCEPT !.data = "whole"].events = tree[r]["staging"].events
      BY <3>1 DEF Tree
    <3>3. CASE tree' = [tree EXCEPT ![r]["staging"].data = "whole"]
      BY <1>a, <1>c, <3>2, <3>3 DEF EvidenceTypes
    <3> QED BY <1>8, <3>3 DEF WriteData
  <2> QED BY <1>1, <1>t, <2>1, <2>2 DEF Early
<1>9. CASE StopRun(r)
  <2>1. /\ UNCHANGED <<at, stream, answer>> /\ pc[r] = "stopping" /\ pc'[r] = "ended"
    BY <1>9, <1>a DEF StopRun, Goto
  <2>2. stream[r] = "quarantine" => tree'[r]["staging"].events = tree[r]["staging"].events
    BY <1>9, <1>a, <1>c DEF StopRun, EvidenceTypes, Tree
  <2> QED BY <1>1, <1>t, <2>1, <2>2
<1>10. CASE WriteDocuments(r)
  <2>1. /\ UNCHANGED <<stream, answer, pc>> /\ pc[r] = "closed" /\ at'[r] = at[r] \cup {"staging"}
    BY <1>10, <1>a DEF WriteDocuments, owner, EvidenceTypes
  <2>2. tree'[r]["staging"].events = tree[r]["staging"].events
    BY <1>10, <1>a, <1>c DEF WriteDocuments, Bound, EvidenceTypes, Tree
  <2> QED BY <1>b, <2>1, <2>2 DEF OwnerOK, Early, Late
<1>11. CASE Publish(r)
  <2>1. /\ UNCHANGED <<stream, answer>> /\ pc[r] = "closed" /\ pc'[r] = "published"
        /\ at'[r] = (at[r] \ {"staging"}) \cup {"runs"}
        /\ tree'[r]["runs"] = tree[r]["staging"] /\ Verified(tree[r]["staging"])
    BY <1>11, <1>a, <1>c DEF Publish, Goto, EvidenceTypes
  <2>2. stream[r] = "staging"
    BY <1>c, <2>1, VerifiedReads DEF OwnerOK
  <2> QED BY <1>b, <2>1, <2>2, <1>v DEF OwnerOK, Early, Late, Verified
<1>12. CASE MakeStaging(r)
  <2>1. /\ UNCHANGED <<tree, stream, answer>> /\ pc[r] = "locked"
        /\ \/ pc'[r] = "staged" /\ at'[r] = at[r] \cup {"staging"}
           \/ pc'[r] = "refused" /\ at' = at
    BY <1>12, <1>a DEF MakeStaging, Goto, evidence, EvidenceTypes
  <2> QED BY <1>b, <2>1 DEF OwnerOK, Early, Late
<1>13. CASE WriteInputs(r)
  <2>1. /\ answer' = answer /\ pc[r] = "staged" /\ pc'[r] = "opened" /\ stream'[r] = "staging"
        /\ at'[r] = at[r] \cup {"staging"}
    BY <1>13, <1>a DEF WriteInputs, Goto, EvidenceTypes
  <2> QED BY <1>b, <2>1 DEF OwnerOK, Early, Late
<1>14. CASE Reserve(r) \/ TakeResource(r) \/ InputsFail(r)
  BY <1>2, <1>a, <1>14 DEF Reserve, TakeResource, InputsFail, Goto, evidence, OwnerOK, Early, Late
<1>15. CASE RunBudgetExceeded(r) \/ NextPoint(r) \/ Close(r) \/ PublishRefused(r)
  BY <1>2, <1>a, <1>15 DEF RunBudgetExceeded, NextPoint, Close, PublishRefused, Goto, Stop, evidence, OwnerOK,
                           Early, Late
<1>16. CASE Release(r) \/ IndexRun(r) \/ RequestCancellation(r)
  BY <1>2, <1>a, <1>16 DEF Release, IndexRun, RequestCancellation, Goto, evidence, owner, OwnerOK, Early, Late
<1> QED BY <1>5, <1>6, <1>7, <1>8, <1>9, <1>10, <1>11, <1>12, <1>13, <1>14, <1>15, <1>16 DEF Run

-----------------------------------------------------------------------------
(* An operator leaves owners alone, and what other operators hold. *)
LEMMA OperatorFrame ==
    ASSUME TypeInv, NEW o \in Operators, Operate(o)
    PROVE  /\ UNCHANGED <<version, runLocks, cancellation, pc, done, ending, answer>>
           /\ hasty \subseteq hasty'
           /\ \A p \in Operators \ {o} : opc'[p] = opc[p] /\ job'[p] = job[p] /\ scanned'[p] = scanned[p]
           /\ recoveryLocks \ {job[o]} \subseteq recoveryLocks'
<1>a. opc \in [Operators -> OperatorPhases] /\ job \in [Operators -> Runs \cup {NoRun}]
      /\ scanned \in [Operators -> SUBSET Entry]
  BY DEF TypeInv, RecoveryTypes, IndexTypes
<1> USE <1>a DEF OGoto, Leave, Unlock, owner, index, locks
<1>1. CASE \E r \in Runs, phase \in OperatorPhases : CallRecovery(o, r, phase)
  BY <1>1 DEF CallRecovery
<1>2. CASE FinishRecovery(o)
  BY <1>2 DEF FinishRecovery
<1>3. CASE CheckPrefix(o) \/ PublishRecord(o)
  BY <1>3 DEF CheckPrefix, PublishRecord
<1>4. CASE Quarantine(o)
  BY <1>4 DEF Quarantine
<1>5. CASE RefusePrefix(o)
  BY <1>5 DEF RefusePrefix
<1>6. CASE ReleaseRecovered(o) \/ EndRecovery(o)
  BY <1>6 DEF ReleaseRecovered, EndRecovery
<1>7. CASE Authorise(o) \/ ReleaseTerminal(o)
  BY <1>7 DEF Authorise, ReleaseTerminal
<1>8. CASE RecoveryFails(o) \/ OperatorCrash(o) \/ Rebuild(o)
  BY <1>8 DEF RecoveryFails, OperatorCrash, Rebuild
<1> QED BY <1>1, <1>2, <1>3, <1>4, <1>5, <1>6, <1>7, <1>8 DEF Operate

(* What an operator does to the directories: nothing, or the move of one to quarantine. *)
Moved(o, r) ==
    /\ "staging" \in at[r] /\ "quarantine" \notin at[r] /\ MoveToQuarantine(r)
    /\ \/ opc[o] = "valid" /\ malformed' = malformed /\ opc'[o] = "moved"
       \/ opc[o] = "interrupted" /\ malformed' = malformed \cup {r} /\ opc'[o] = "idle"
          /\ ~record[r].made
    /\ record' = record

LEMMA OperatorEvidence ==
    ASSUME TypeInv, NEW o \in Operators, Operate(o)
    PROVE  \/ UNCHANGED <<at, tree, stream, malformed>>
           \/ job[o] \in Runs /\ Moved(o, job[o])
<1>a. opc \in [Operators -> OperatorPhases] /\ job \in [Operators -> Runs \cup {NoRun}]
      /\ (job[o] = NoRun <=> opc[o] \in {"idle", "replacing"})
  BY DEF TypeInv, RecoveryTypes
<1> USE <1>a DEF evidence
<1>1. CASE \E r \in Runs, phase \in OperatorPhases : CallRecovery(o, r, phase)
  BY <1>1 DEF CallRecovery
<1>2. CASE FinishRecovery(o) \/ CheckPrefix(o) \/ PublishRecord(o)
  BY <1>2 DEF FinishRecovery, CheckPrefix, PublishRecord
<1>4. CASE Quarantine(o)
  BY <1>4 DEF Quarantine, Moved, OGoto, Leave
<1>5. CASE RefusePrefix(o)
  BY <1>5 DEF RefusePrefix, Moved, Leave
<1>6. CASE ReleaseRecovered(o) \/ EndRecovery(o) \/ Authorise(o) \/ ReleaseTerminal(o)
  BY <1>6 DEF ReleaseRecovered, EndRecovery, Authorise, ReleaseTerminal
<1>8. CASE RecoveryFails(o) \/ OperatorCrash(o) \/ Rebuild(o)
  BY <1>8 DEF RecoveryFails, OperatorCrash, Rebuild
<1> QED BY <1>1, <1>2, <1>4, <1>5, <1>6, <1>8 DEF Operate

(* What an operator publishes, releases and lists. *)
LEMMA OperatorShares ==
    ASSUME TypeInv, NEW o \in Operators, Operate(o)
    PROVE  /\ \/ record' = record
              \/ /\ opc[o] = "moved" /\ opc'[o] = "recorded" /\ job[o] \in Runs
                 /\ record' = [record EXCEPT ![job[o]] = [made |-> TRUE, of |-> tree[job[o]]["quarantine"]]]
           /\ \/ resource' = resource
              \/ /\ resource' = NoRun /\ job[o] \in Runs
                 /\ \/ opc[o] \in {"recorded", "authorised"}
                    \/ opc[o] = "interrupted" /\ record[job[o]].made /\ resource = job[o]
           /\ \/ UNCHANGED <<catalog, catalogLock>>
              \/ job[o] \in Runs /\ record[job[o]].made /\ catalogLock' = catalogLock
                 /\ catalogLock = NoRun /\ catalog' = catalog \cup {<<job[o], "recovery">>}
              \/ opc[o] = "idle" /\ catalogLock = NoRun /\ catalogLock' = o /\ catalog' = catalog
                 /\ opc'[o] = "replacing" /\ scanned'[o] = Listed
              \/ opc[o] = "replacing" /\ catalogLock' = NoRun /\ catalog' = scanned[o] /\ opc'[o] = "idle"
           /\ faults' = faults \/ (faults < MaxFaults /\ faults' = faults + 1)
<1>a. opc \in [Operators -> OperatorPhases] /\ job \in [Operators -> Runs \cup {NoRun}]
      /\ (job[o] = NoRun <=> opc[o] \in {"idle", "replacing"}) /\ scanned \in [Operators -> SUBSET Entry]
  BY DEF TypeInv, RecoveryTypes, IndexTypes
<1> USE <1>a DEF OGoto, locks, index, Fault, Leave
<1>1. CASE \E r \in Runs, phase \in OperatorPhases : CallRecovery(o, r, phase)
  BY <1>1 DEF CallRecovery
<1>2. CASE FinishRecovery(o)
  BY <1>2 DEF FinishRecovery
<1>3. CASE CheckPrefix(o) \/ PublishRecord(o)
  BY <1>3 DEF CheckPrefix, PublishRecord
<1>4. CASE Quarantine(o) \/ RefusePrefix(o)
  BY <1>4 DEF Quarantine, RefusePrefix
<1>6. CASE ReleaseRecovered(o) \/ EndRecovery(o)
  BY <1>6 DEF ReleaseRecovered, EndRecovery
<1>7. CASE Authorise(o) \/ ReleaseTerminal(o)
  BY <1>7 DEF Authorise, ReleaseTerminal
<1>8. CASE RecoveryFails(o) \/ OperatorCrash(o) \/ Rebuild(o)
  BY <1>8 DEF RecoveryFails, OperatorCrash, Rebuild
<1> QED BY <1>1, <1>2, <1>3, <1>4, <1>6, <1>7, <1>8 DEF Operate

(* The calls of an operator, one phase after the other. *)
LEMMA OperatorMoves ==
    ASSUME TypeInv, NEW o \in Operators, Operate(o)
    PROVE  \/ /\ opc[o] = "idle" /\ opc'[o] \in {"interrupted", "terminal"}
              /\ job'[o] \in Runs \ recoveryLocks /\ recoveryLocks' = recoveryLocks \cup {job'[o]}
              /\ hasty' = {} => Gone(job'[o])
              /\ UNCHANGED <<released, record, resource, malformed, at>> /\ hasty' \subseteq Runs
           \/ /\ job'[o] = NoRun /\ opc'[o] \in {"idle", "replacing"} /\ released' = released /\ hasty' = hasty
              /\ recoveryLocks' \in {recoveryLocks, recoveryLocks \ {job[o]}}
              /\ opc'[o] = "replacing" => opc[o] = "idle" /\ catalogLock' = o /\ scanned'[o] = Listed
           \/ /\ job[o] \in Runs /\ job'[o] = job[o] /\ recoveryLocks' = recoveryLocks /\ hasty' = hasty
              /\ opc'[o] \in {"valid", "moved", "recorded", "authorised", "unlock"}
              /\ released' \in {released, released \cup {job[o]}}
              /\ opc'[o] = "valid" => opc[o] = "interrupted" /\ ~record[job[o]].made /\ Recoverable(job[o])
              /\ opc'[o] = "moved" => /\ opc[o] = "valid"
                                      /\ \/ Moved(o, job[o])
                                         \/ "quarantine" \in at[job[o]]
              /\ opc'[o] = "recorded" =>
                     /\ opc[o] = "moved"
                     /\ record' = [record EXCEPT ![job[o]] = [made |-> TRUE, of |-> tree[job[o]]["quarantine"]]]
              /\ opc'[o] = "authorised" => opc[o] = "terminal" /\ TerminalRecoverable(job[o])
              /\ opc'[o] # "unlock" => UNCHANGED resource
              /\ opc'[o] # "moved" => UNCHANGED <<at, tree, stream, malformed>>
              /\ opc'[o] # "recorded" => record' = record
<1>a. opc \in [Operators -> OperatorPhases] /\ job \in [Operators -> Runs \cup {NoRun}]
      /\ (job[o] = NoRun <=> opc[o] \in {"idle", "replacing"}) /\ scanned \in [Operators -> SUBSET Entry]
      /\ hasty \subseteq Runs
  BY DEF TypeInv, RecoveryTypes, IndexTypes
<1> USE <1>a DEF OGoto, locks, index, Leave, Unlock, evidence
<1>1. CASE \E r \in Runs, phase \in OperatorPhases : CallRecovery(o, r, phase)
  BY <1>1 DEF CallRecovery, Fault
<1>2. CASE FinishRecovery(o)
  BY <1>2 DEF FinishRecovery
<1>3. CASE CheckPrefix(o) \/ PublishRecord(o)
  BY <1>3 DEF CheckPrefix, PublishRecord
<1>4. CASE Quarantine(o)
  BY <1>4 DEF Quarantine, Moved
<1>5. CASE RefusePrefix(o)
  BY <1>5 DEF RefusePrefix
<1>6. CASE ReleaseRecovered(o) \/ EndRecovery(o)
  BY <1>6 DEF ReleaseRecovered, EndRecovery
<1>7. CASE Authorise(o) \/ ReleaseTerminal(o)
  BY <1>7 DEF Authorise, ReleaseTerminal
<1>8. CASE RecoveryFails(o) \/ OperatorCrash(o) \/ Rebuild(o)
  BY <1>8 DEF RecoveryFails, OperatorCrash, Rebuild
<1> QED BY <1>1, <1>2, <1>3, <1>4, <1>5, <1>6, <1>7, <1>8 DEF Operate

LEMMA OperatorKeepsTypes ==
    ASSUME TypeInv, NEW o \in Operators, Operate(o)
    PROVE  /\ opc' \in [Operators -> OperatorPhases] /\ job' \in [Operators -> Runs \cup {NoRun}]
           /\ scanned' \in [Operators -> SUBSET Entry]
<1>a. opc \in [Operators -> OperatorPhases] /\ job \in [Operators -> Runs \cup {NoRun}]
      /\ scanned \in [Operators -> SUBSET Entry]
  BY DEF TypeInv, RecoveryTypes, IndexTypes
<1>b. OperatorPhases = {"idle", "interrupted", "valid", "moved", "recorded", "terminal", "authorised",
                        "unlock", "replacing"}
  BY DEF OperatorPhases
<1>c. Listed \subseteq Entry
  BY DEF Listed, Entry
<1> USE <1>a DEF OGoto, Leave, index
<1>1. CASE \E r \in Runs, phase \in OperatorPhases : CallRecovery(o, r, phase)
  BY <1>1 DEF CallRecovery
<1>2. CASE FinishRecovery(o) \/ CheckPrefix(o) \/ PublishRecord(o)
  BY <1>2, <1>b DEF FinishRecovery, CheckPrefix, PublishRecord
<1>4. CASE Quarantine(o) \/ RefusePrefix(o)
  BY <1>4, <1>b DEF Quarantine, RefusePrefix
<1>6. CASE ReleaseRecovered(o) \/ EndRecovery(o)
  BY <1>6, <1>b DEF ReleaseRecovered, EndRecovery
<1>7. CASE Authorise(o) \/ ReleaseTerminal(o)
  BY <1>7, <1>b DEF Authorise, ReleaseTerminal
<1>8. CASE RecoveryFails(o) \/ OperatorCrash(o) \/ Rebuild(o)
  BY <1>8, <1>b, <1>c DEF RecoveryFails, OperatorCrash, Rebuild
<1> QED BY <1>1, <1>2, <1>4, <1>6, <1>7, <1>8 DEF Operate

LEMMA MoveType ==
    ASSUME EvidenceTypes, NEW r \in Runs, MoveToQuarantine(r)
    PROVE  EvidenceTypes'
<1>1. tree[r]["staging"] \in Tree /\ Places = {"staging", "quarantine", "runs"}
  BY DEF EvidenceTypes, Places
<1> QED BY <1>1, FreshTree DEF EvidenceTypes, MoveToQuarantine

LEMMA OperateTypeInv ==
    ASSUME TypeInv, NEW o \in Operators, Operate(o) PROVE TypeInv'
<1>a. EvidenceTypes /\ LockTypes /\ OwnerTypes /\ RecoveryTypes /\ IndexTypes /\ CountTypes
  BY DEF TypeInv
<1>1. EvidenceTypes'
  <2>1. CASE UNCHANGED <<at, tree, stream>>
    BY <1>a, <2>1 DEF EvidenceTypes
  <2> QED BY <1>a, <2>1, OperatorEvidence, MoveType DEF Moved
<1>2. LockTypes'
  BY <1>a, OperatorFrame, OperatorMoves, OperatorShares DEF LockTypes
<1>3. OwnerTypes'
  BY <1>a, OperatorFrame DEF OwnerTypes
<1>4. RecoveryTypes'
  <2>1. record' \in [Runs -> [made: BOOLEAN, of: Tree]]
    <3>1. job[o] \in Runs => tree[job[o]]["quarantine"] \in Tree
      BY <1>a DEF EvidenceTypes, Places
    <3>2. job[o] \in Runs =>
              [made |-> TRUE, of |-> tree[job[o]]["quarantine"]] \in [made: BOOLEAN, of: Tree]
      BY <3>1
    <3>3. record' = record \/ (job[o] \in Runs /\
              record' = [record EXCEPT ![job[o]] = [made |-> TRUE, of |-> tree[job[o]]["quarantine"]]])
      BY OperatorShares
    <3> QED BY <1>a, <3>2, <3>3 DEF RecoveryTypes
  <2>2. malformed' \subseteq Runs /\ released' \subseteq Runs /\ hasty' \subseteq Runs
    <3>1. malformed' \subseteq Runs
      BY <1>a, OperatorEvidence DEF RecoveryTypes, Moved
    <3> QED BY <1>a, <3>1, OperatorMoves DEF RecoveryTypes
  <2>3. \A p \in Operators : job'[p] = NoRun <=> opc'[p] \in {"idle", "replacing"}
    <3>1. job'[o] = NoRun <=> opc'[o] \in {"idle", "replacing"}
      BY OperatorMoves, RunAssumption
    <3> QED BY <1>a, <3>1, OperatorFrame DEF RecoveryTypes
  <2> QED BY <2>1, <2>2, <2>3, OperatorKeepsTypes DEF RecoveryTypes
<1>5. IndexTypes'
  <2>1. scanned[o] \subseteq Entry /\ (job[o] \in Runs => <<job[o], "recovery">> \in Entry)
    BY <1>a DEF IndexTypes, Entry
  <2>2. catalog' \subseteq Entry
    <3>1. \/ catalog' = catalog \/ catalog' = scanned[o]
          \/ job[o] \in Runs /\ catalog' = catalog \cup {<<job[o], "recovery">>}
      BY OperatorShares
    <3> QED BY <1>a, <2>1, <3>1 DEF IndexTypes
  <2>3. catalogLock' \in Runs \cup Operators \cup {NoRun}
    BY <1>a, OperatorShares DEF IndexTypes
  <2> QED BY <2>2, <2>3, OperatorKeepsTypes DEF IndexTypes
<1>6. CountTypes'
  <2>1. version' = version /\ (faults' = faults \/ (faults < MaxFaults /\ faults' = faults + 1))
    BY OperatorFrame, OperatorShares
  <2> QED BY <1>a, <2>1, RunAssumption DEF CountTypes
<1> QED BY <1>1, <1>2, <1>3, <1>4, <1>5, <1>6 DEF TypeInv

LEMMA InitTypeInv == Init => TypeInv
<1> SUFFICES ASSUME Init PROVE TypeInv
  OBVIOUS
<1>1. EvidenceTypes
  BY FreshTree DEF Init, EvidenceTypes
<1>2. LockTypes /\ IndexTypes /\ CountTypes
  BY RunAssumption DEF Init, LockTypes, IndexTypes, CountTypes
<1>3. OwnerTypes
  BY RunAssumption DEF Init, OwnerTypes, Phases, Statuses
<1>4. RecoveryTypes
  BY FreshTree DEF Init, RecoveryTypes, NoRecord, OperatorPhases
<1> QED BY <1>1, <1>2, <1>3, <1>4 DEF TypeInv

LEMMA NextTypeInv == TypeInv /\ [Next]_vars => TypeInv'
<1> SUFFICES ASSUME TypeInv, [Next]_vars PROVE TypeInv'
  OBVIOUS
<1>1. CASE UNCHANGED vars
  BY <1>1 DEF TypeInv, EvidenceTypes, LockTypes, OwnerTypes, RecoveryTypes, IndexTypes, CountTypes,
              vars, evidence, locks, owner, recovery, index
<1> QED BY <1>1, RunTypeInv, OperateTypeInv DEF Next

-----------------------------------------------------------------------------
(* What an operator has found of the run it works on, and what nobody can change under it; a *)
(* rebuild has everything that was told while it holds the catalog lock.                     *)
OperatorOK(o) ==
    LET r == job[o] IN
    /\ r # NoRun => r \in recoveryLocks /\ (hasty = {} => Gone(r))
    /\ opc[o] \in {"valid", "moved", "recorded"} => pc[r] \notin Early /\ (hasty = {} => resource = r)
    /\ opc[o] = "valid" => r \notin malformed
    /\ opc[o] \in {"moved", "recorded"} => stream[r] = "quarantine"
    /\ opc[o] \in {"valid", "moved"} => ~record[r].made
    /\ opc[o] = "recorded" => record[r].made
    /\ opc[o] = "authorised" => "runs" \in at[r] /\ (hasty = {} => resource = r)

OperatorInv ==
    /\ \A o \in Operators : OperatorOK(o)
    /\ \A o, p \in Operators : job[o] = job[p] /\ job[o] # NoRun => o = p

(* A recovery record is of a run whose journal is in quarantine, and stays true. *)
RecordOK(r) == record[r].made =>
    /\ stream[r] = "quarantine" /\ pc[r] \notin Early
    /\ hasty = {} => Gone(r) /\ record[r].of = tree[r]["quarantine"]

RecordInv == \A r \in Runs : RecordOK(r)

(* What entries may say. *)
TrueEntry(e) == IF e[2] = "run" THEN "runs" \in at[e[1]] ELSE record[e[1]].made

CatalogInv ==
    /\ IndexedStays
    /\ \A r \in Runs : pc[r] = "indexing" => catalogLock = r
    /\ \A o \in Operators : opc[o] = "replacing" =>
          /\ catalogLock = o
          /\ \A r \in Runs : answer[r] = "indexed" => <<r, "run">> \in scanned[o]
          /\ \A e \in scanned[o] : TrueEntry(e)

IInv == TypeInv /\ OwnerInv /\ OperatorInv /\ RecordInv /\ ResourceExclusive /\ CatalogInv


(* Steps of an owner. *)
LEMMA RunOwnerInv ==
    ASSUME IInv, NEW r \in Runs, Run(r) PROVE OwnerInv'
<1>1. OwnerOK(r)'
  BY OwnerOwn DEF IInv, OwnerInv
<1>2. \A q \in Runs \ {r} : OwnerOK(q)'
  <2>1. TAKE q \in Runs \ {r}
  <2>2. /\ at'[q] = at[q] /\ tree'[q] = tree[q] /\ stream'[q] = stream[q]
        /\ pc'[q] = pc[q] /\ answer'[q] = answer[q] /\ version' = version /\ malformed' = malformed
    BY OwnerFrame, OwnerLeaves DEF IInv
  <2> QED BY <2>2 DEF IInv, OwnerInv, OwnerOK, Verified
<1> QED BY <1>1, <1>2 DEF OwnerInv

(* Who is inside keeps the resource; who is dead stays dead. *)
LEMMA RunKeeps ==
    ASSUME IInv, NEW r \in Runs, Run(r), NEW q \in Runs
    PROVE  /\ Gone(q) => Gone(q)' /\ tree'[q] = tree[q]
           /\ pc[q] \notin Early => pc'[q] \notin Early /\ stream'[q] = stream[q]
           /\ "runs" \in at[q] => "runs" \in at'[q]
           /\ hasty = {} /\ resource = q /\ (Gone(q) \/ q # r) => resource' = q
<1>1. TypeInv
  BY DEF IInv
<1>2. CASE q = r
  BY <1>1, <1>2, OwnerEvolves DEF Gone
<1>3. CASE q # r
  <2>1. pc'[q] = pc[q] /\ tree'[q] = tree[q] /\ stream'[q] = stream[q] /\ at'[q] = at[q]
    BY <1>1, <1>3, OwnerFrame
  <2>2. hasty = {} /\ resource = q => resource' = q
    BY <1>1, <1>3, OwnerAndResource, RunAssumption DEF IInv, ResourceExclusive
  <2> QED BY <2>1, <2>2 DEF Gone
<1> QED BY <1>2, <1>3

LEMMA RunOperatorInv ==
    ASSUME IInv, NEW r \in Runs, Run(r) PROVE OperatorInv'
<1>1. UNCHANGED <<recoveryLocks, record, malformed, opc, job, hasty>>
  BY OwnerLeaves
<1>2. \A o \in Operators : OperatorOK(o)'
  <2>1. TAKE o \in Operators
  <2>2. OperatorOK(o) /\ job[o] \in Runs \cup {NoRun} /\ (job[o] = NoRun <=> opc[o] \in {"idle", "replacing"})
    BY DEF IInv, OperatorInv, TypeInv, RecoveryTypes
  <2>3. CASE job[o] = NoRun
    BY <1>1, <2>2, <2>3 DEF OperatorOK
  <2>4. CASE job[o] \in Runs
    <3>1. /\ hasty = {} => Gone(job[o])
          /\ Gone(job[o]) => Gone(job[o])'
          /\ pc[job[o]] \notin Early => pc'[job[o]] \notin Early /\ stream'[job[o]] = stream[job[o]]
          /\ "runs" \in at[job[o]] => "runs" \in at'[job[o]]
          /\ hasty = {} /\ resource = job[o] => resource' = job[o]
      BY <1>1, <2>2, <2>4, RunKeeps, RunAssumption DEF OperatorOK
    <3> QED BY <1>1, <2>2, <2>4, <3>1 DEF OperatorOK
  <2> QED BY <2>2, <2>3, <2>4
<1> QED BY <1>1, <1>2 DEF IInv, OperatorInv

LEMMA RunRecordInv ==
    ASSUME IInv, NEW r \in Runs, Run(r) PROVE RecordInv'
<1>1. record' = record /\ hasty' = hasty
  BY OwnerLeaves
<1>2. ASSUME NEW q \in Runs, record[q].made PROVE RecordOK(q)'
  <2>1. stream[q] = "quarantine" /\ pc[q] \notin Early
        /\ (hasty = {} => Gone(q) /\ record[q].of = tree[q]["quarantine"])
    BY <1>2 DEF IInv, RecordInv, RecordOK
  <2> QED BY <1>1, <2>1, RunKeeps DEF RecordOK
<1> QED BY <1>1, <1>2 DEF RecordInv, RecordOK

LEMMA RunResourceExclusive ==
    ASSUME IInv, NEW r \in Runs, Run(r) PROVE ResourceExclusive'
<1> SUFFICES ASSUME hasty = {}, NEW q \in Runs, Inside(q)' PROVE resource' = q
  BY OwnerLeaves DEF ResourceExclusive
<1>1. /\ Inside(r)' /\ ~Inside(r) => resource = NoRun /\ resource' = r
      /\ resource' # resource => \/ resource = NoRun /\ resource' = r
                                 \/ Inside(r) /\ ~Inside(r)' /\ resource' = NoRun
  BY OwnerAndResource DEF IInv
<1>2. \A p \in Runs : Inside(p) => resource = p
  BY DEF IInv, ResourceExclusive
<1>3. q # r => Inside(q)
  BY OwnerFrame DEF IInv, Inside, Gone
<1> QED BY <1>1, <1>2, <1>3, RunAssumption

LEMMA RunCatalogInv ==
    ASSUME IInv, NEW r \in Runs, Run(r) PROVE CatalogInv'
<1>a. /\ \A q \in Runs : answer[q] = "indexed" => <<q, "run">> \in catalog
      /\ \A e \in catalog : TrueEntry(e)
      /\ \A q \in Runs : pc[q] = "indexing" => catalogLock = q
      /\ \A o \in Operators : opc[o] = "replacing" =>
            /\ catalogLock = o
            /\ \A q \in Runs : answer[q] = "indexed" => <<q, "run">> \in scanned[o]
            /\ \A e \in scanned[o] : TrueEntry(e)
      /\ pc[r] \in {"indexing", "published", "released"} => "runs" \in at[r]
  BY DEF IInv, CatalogInv, IndexedStays, TrueEntry, OwnerInv, OwnerOK
<1>b. UNCHANGED <<record, opc, job, scanned>>
  BY OwnerLeaves
<1>c. catalog \subseteq Entry /\ \A o \in Operators : scanned[o] \subseteq Entry
  BY DEF IInv, TypeInv, IndexTypes
<1>1. \A e \in Entry : TrueEntry(e) => TrueEntry(e)'
  BY <1>b, RunKeeps DEF TrueEntry, Entry
<1>2. \/ UNCHANGED <<catalog, catalogLock>>
      \/ pc[r] = "released" /\ catalogLock = NoRun /\ catalogLock' = r /\ catalog' = catalog
      \/ pc[r] = "indexing" /\ catalogLock' = NoRun /\ catalog' = catalog \cup {<<r, "run">>}
  BY OwnerShares
<1>3. /\ answer'[r] = "indexed" =>
                  answer[r] = "indexed" \/ (pc[r] = "indexing" /\ catalog' = catalog \cup {<<r, "run">>})
      /\ pc'[r] = "indexing" => pc[r] = "indexing" \/ catalogLock' = r
      /\ pc[r] = "indexing" /\ pc'[r] = "indexing" => catalogLock' = catalogLock
      /\ \A q \in Runs \ {r} : answer'[q] = answer[q] /\ pc'[q] = pc[q]
  BY OwnerEvolves, OwnerFrame DEF IInv
<1>4. <<r, "run">>[1] = r /\ <<r, "run">>[2] = "run"
  OBVIOUS
<1>5. \A q \in Runs : answer'[q] = "indexed" => <<q, "run">> \in catalog'
  BY <1>a, <1>2, <1>3
<1>6. \A e \in catalog' : TrueEntry(e)'
  BY <1>a, <1>c, <1>1, <1>2, <1>4, RunKeeps DEF TrueEntry
<1>7. \A q \in Runs : pc'[q] = "indexing" => catalogLock' = q
  BY <1>a, <1>2, <1>3, RunAssumption
<1>8. ASSUME NEW o \in Operators, opc'[o] = "replacing"
      PROVE  /\ catalogLock' = o
             /\ \A q \in Runs : answer'[q] = "indexed" => <<q, "run">> \in scanned'[o]
             /\ \A e \in scanned'[o] : TrueEntry(e)'
  BY <1>a, <1>b, <1>c, <1>1, <1>2, <1>3, <1>8, RunAssumption
<1> QED BY <1>5, <1>6, <1>7, <1>8 DEF CatalogInv, IndexedStays, TrueEntry

(* Steps of an operator. *)
LEMMA OperateOwnerInv ==
    ASSUME IInv, NEW o \in Operators, Operate(o)
    PROVE  /\ OwnerInv'
           /\ \A r \in Runs : /\ "runs" \in at'[r] <=> "runs" \in at[r]
                              /\ stream[r] = "quarantine" => stream'[r] = "quarantine"
                              /\ r # job[o] \/ "quarantine" \in at[r] =>
                                     tree'[r] = tree[r] /\ (r \in malformed' <=> r \in malformed)
<1>a. EvidenceTypes /\ Places = {"staging", "quarantine", "runs"} /\ malformed \subseteq Runs
  BY DEF IInv, TypeInv, RecoveryTypes, Places
<1>b. UNCHANGED <<version, pc, answer>>
  BY OperatorFrame DEF IInv
<1>1. CASE UNCHANGED <<at, tree, stream, malformed>>
  BY <1>1, <1>b DEF IInv, OwnerInv, OwnerOK, Verified
<1>2. ASSUME NEW r \in Runs, r = job[o], Moved(o, r)
      PROVE  /\ OwnerInv'
             /\ \A q \in Runs : /\ "runs" \in at'[q] <=> "runs" \in at[q]
                                /\ stream[q] = "quarantine" => stream'[q] = "quarantine"
                                /\ q # r \/ "quarantine" \in at[q] =>
                                       tree'[q] = tree[q] /\ (q \in malformed' <=> q \in malformed)
  <2>1. /\ at'[r] = (at[r] \ {"staging"}) \cup {"quarantine"} /\ "staging" \in at[r]
        /\ "quarantine" \notin at[r] /\ stream'[r] = "quarantine"
        /\ tree'[r]["quarantine"] = tree[r]["staging"] /\ tree'[r]["staging"] = Fresh
        /\ tree'[r]["runs"] = tree[r]["runs"]
    BY <1>a, <1>2 DEF Moved, MoveToQuarantine, EvidenceTypes
  <2>2. \A q \in Runs : q # r => at'[q] = at[q] /\ tree'[q] = tree[q] /\ stream'[q] = stream[q]
    BY <1>a, <1>2 DEF Moved, MoveToQuarantine, EvidenceTypes
  <2>3. \/ malformed' = malformed /\ pc[r] \notin Early
        \/ malformed' = malformed \cup {r}
    BY <1>2 DEF Moved, IInv, OperatorInv, OperatorOK
  <2>4. OwnerOK(r)'
    <3>1. OwnerOK(r)
      BY DEF IInv, OwnerInv
    <3>3. tree'[r]["staging"].events = <<>>
      BY <2>1, FreshTree
    <3>4. pc[r] \in Early => \A p \in Places : tree'[r][p] = Fresh
      BY <1>a, <2>1, <3>1 DEF OwnerOK
    <3> QED BY <1>a, <1>b, <2>1, <2>3, <3>1, <3>3, <3>4 DEF OwnerOK, Verified
  <2>5. \A q \in Runs \ {r} : OwnerOK(q)'
    BY <1>b, <2>2, <2>3 DEF IInv, OwnerInv, OwnerOK, Verified
  <2>6. OwnerInv'
    BY <2>4, <2>5 DEF OwnerInv
  <2>7. \A q \in Runs : ("runs" \in at'[q] <=> "runs" \in at[q])
                        /\ (stream[q] = "quarantine" => stream'[q] = "quarantine")
    BY <2>1, <2>2
  <2>8. \A q \in Runs : q # r \/ "quarantine" \in at[q] =>
                           tree'[q] = tree[q] /\ (q \in malformed' <=> q \in malformed)
    BY <2>1, <2>2, <2>3
  <2> QED BY <2>6, <2>7, <2>8
<1> QED BY <1>1, <1>2, OperatorEvidence DEF IInv

(* What an operator has is what no other one can take: jobs are apart. *)
LEMMA OthersKeep ==
    ASSUME IInv, NEW o \in Operators, Operate(o), NEW p \in Operators, p # o
    PROVE  OperatorOK(p)'
<1>1. opc'[p] = opc[p] /\ job'[p] = job[p] /\ pc' = pc /\ hasty \subseteq hasty'
      /\ recoveryLocks \ {job[o]} \subseteq recoveryLocks'
  BY OperatorFrame DEF IInv
<1>2. OperatorOK(p) /\ job[p] \in Runs \cup {NoRun} /\ (job[p] = NoRun <=> opc[p] \in {"idle", "replacing"})
  BY DEF IInv, OperatorInv, TypeInv, RecoveryTypes
<1>3. CASE job[p] = NoRun
  BY <1>1, <1>2, <1>3 DEF OperatorOK
<1>4. ASSUME NEW r \in Runs, r = job[p] PROVE OperatorOK(p)'
  <2>1. r # job[o] /\ r # NoRun
    BY <1>4, RunAssumption DEF IInv, OperatorInv
  <2>2. /\ "runs" \in at'[r] <=> "runs" \in at[r]
        /\ stream[r] = "quarantine" => stream'[r] = "quarantine"
        /\ r \in malformed' <=> r \in malformed
    BY <2>1, OperateOwnerInv
  <2>3. record'[r] = record[r]
    BY <2>1, OperatorShares DEF IInv, TypeInv, RecoveryTypes
  <2>4. hasty = {} /\ resource = r => resource' = r
    <3>1. OperatorOK(o)
      BY DEF IInv, OperatorInv
    <3> QED BY <2>1, <3>1, OperatorShares DEF IInv, OperatorOK
  <2>5. Gone(r)' <=> Gone(r)
    BY <1>1 DEF Gone
  <2>6. hasty' = {} => hasty = {}
    BY <1>1
  <2>7. OperatorOK(p)' <=>
          /\ r \in recoveryLocks' /\ (hasty' = {} => Gone(r)')
          /\ opc[p] \in {"valid", "moved", "recorded"} => pc[r] \notin Early /\ (hasty' = {} => resource' = r)
          /\ opc[p] = "valid" => r \notin malformed'
          /\ opc[p] \in {"moved", "recorded"} => stream'[r] = "quarantine"
          /\ opc[p] \in {"valid", "moved"} => ~record'[r].made
          /\ opc[p] = "recorded" => record'[r].made
          /\ opc[p] = "authorised" => "runs" \in at'[r] /\ (hasty' = {} => resource' = r)
    BY <1>1, <1>4, <2>1 DEF OperatorOK, Gone
  <2> QED BY <1>1, <1>2, <1>4, <2>1, <2>2, <2>3, <2>4, <2>5, <2>6, <2>7 DEF OperatorOK
<1> QED BY <1>2, <1>3, <1>4

LEMMA OperatorOwn ==
    ASSUME IInv, NEW o \in Operators, Operate(o)
    PROVE  OperatorOK(o)'
<1>a. /\ job[o] \in Runs \cup {NoRun} /\ NoRun \notin Runs /\ OperatorOK(o)
      /\ record \in [Runs -> [made: BOOLEAN, of: Tree]]
  BY RunAssumption DEF IInv, OperatorInv, TypeInv, RecoveryTypes
<1>b. pc' = pc /\ \A r \in Runs : Gone(r)' <=> Gone(r)
  BY OperatorFrame DEF IInv, Gone
<1>1. ASSUME NEW r \in Runs, job'[o] = r, opc'[o] \in {"interrupted", "terminal"},
             recoveryLocks' = recoveryLocks \cup {r}, hasty' = {} => Gone(r)
      PROVE  OperatorOK(o)'
  BY <1>a, <1>b, <1>1 DEF OperatorOK
<1>2. CASE job'[o] = NoRun /\ opc'[o] \in {"idle", "replacing"}
  BY <1>2 DEF OperatorOK
<1>3. ASSUME NEW r \in Runs, job[o] = r, job'[o] = r, recoveryLocks' = recoveryLocks, hasty' = hasty,
             opc'[o] \in {"valid", "moved", "recorded", "authorised", "unlock"},
             opc'[o] # "unlock" => UNCHANGED resource,
             opc'[o] # "moved" => UNCHANGED <<at, tree, stream, malformed>>,
             opc'[o] # "recorded" => record' = record
      PROVE  OperatorOK(o)'
  <2>1. r \in recoveryLocks' /\ (hasty' = {} => Gone(r)')
    BY <1>a, <1>b, <1>3 DEF OperatorOK
  <2>2. CASE opc'[o] = "valid"
    <3>1. ~record[r].made /\ Recoverable(r)
      BY <1>a, <1>3, <2>2, OperatorMoves DEF IInv
    <3>2. tree[r][Source(r)].inputs /\ Source(r) \in Places
      BY <3>1, VerifiedReads DEF Recoverable, Source, Places
    <3>3. pc[r] \notin Early
      BY <3>2, FreshTree DEF IInv, OwnerInv, OwnerOK
    <3> QED BY <1>b, <1>3, <2>1, <2>2, <3>1, <3>3 DEF OperatorOK, Recoverable
  <2>3. CASE opc'[o] = "moved"
    <3>1. opc[o] = "valid" /\ (Moved(o, r) \/ "quarantine" \in at[r])
      BY <1>a, <1>3, <2>3, OperatorMoves DEF IInv
    <3>2. pc[r] \notin Early /\ (hasty = {} => resource = r) /\ r \notin malformed /\ ~record[r].made
      BY <1>a, <1>3, <3>1 DEF OperatorOK
    <3>3. stream'[r] = "quarantine"
      <4>1. CASE Moved(o, r)
        BY <4>1 DEF Moved, MoveToQuarantine, IInv, TypeInv, EvidenceTypes
      <4>2. CASE "quarantine" \in at[r]
        BY <3>2, <4>2, OperateOwnerInv DEF IInv, OwnerInv, OwnerOK
      <4> QED BY <3>1, <4>1, <4>2
    <3> QED BY <1>b, <1>3, <2>1, <2>3, <3>2, <3>3 DEF OperatorOK
  <2>4. CASE opc'[o] = "recorded"
    <3>1. /\ opc[o] = "moved"
          /\ record' = [record EXCEPT ![r] = [made |-> TRUE, of |-> tree[r]["quarantine"]]]
      BY <1>a, <1>3, <2>4, OperatorMoves DEF IInv
    <3>r. record'[r].made
      BY <1>a, <3>1
    <3>2. pc[r] \notin Early /\ (hasty = {} => resource = r) /\ stream[r] = "quarantine"
      BY <1>a, <1>3, <3>1 DEF OperatorOK
    <3> QED BY <1>b, <1>3, <2>1, <2>4, <3>1, <3>r, <3>2 DEF OperatorOK
  <2>5. CASE opc'[o] = "authorised"
    <3>1. TerminalRecoverable(r)
      BY <1>a, <1>3, <2>5, OperatorMoves DEF IInv
    <3> QED BY <1>b, <1>3, <2>1, <2>5, <3>1 DEF OperatorOK, TerminalRecoverable
  <2>6. CASE opc'[o] = "unlock"
    BY <1>3, <2>1, <2>6 DEF OperatorOK
  <2> QED BY <1>3, <2>2, <2>3, <2>4, <2>5, <2>6
<1> QED BY <1>1, <1>2, <1>3, OperatorMoves DEF IInv

LEMMA OperateOperatorInv ==
    ASSUME IInv, NEW o \in Operators, Operate(o) PROVE OperatorInv'
<1>1. \A p \in Operators : OperatorOK(p)'
  BY OperatorOwn, OthersKeep
<1>2. \A p, q \in Operators : job'[p] = job'[q] /\ job'[p] # NoRun => p = q
  <2>1. \A p \in Operators : p # o => job'[p] = job[p]
    BY OperatorFrame DEF IInv
  <2>2. \A p \in Operators : job[p] # NoRun => job[p] \in recoveryLocks
    BY DEF IInv, OperatorInv, OperatorOK
  <2>3. job'[o] = NoRun \/ job'[o] = job[o] \/ job'[o] \notin recoveryLocks
    BY OperatorMoves DEF IInv
  <2> QED BY <2>1, <2>2, <2>3 DEF IInv, OperatorInv
<1> QED BY <1>1, <1>2 DEF OperatorInv

LEMMA OperateRecordInv ==
    ASSUME IInv, NEW o \in Operators, Operate(o) PROVE RecordInv'
<1> SUFFICES ASSUME NEW r \in Runs, record'[r].made PROVE RecordOK(r)'
  BY DEF RecordInv, RecordOK
<1>a. pc' = pc /\ (Gone(r)' <=> Gone(r)) /\ (hasty' = {} => hasty = {})
  BY OperatorFrame DEF IInv, Gone
<1>b. record \in [Runs -> [made: BOOLEAN, of: Tree]] /\ OperatorOK(o)
  BY DEF IInv, TypeInv, RecoveryTypes, OperatorInv
<1>1. CASE record[r].made
  <2>1. stream[r] = "quarantine" /\ pc[r] \notin Early /\ "quarantine" \in at[r]
        /\ (hasty = {} => Gone(r) /\ record[r].of = tree[r]["quarantine"])
    BY <1>1 DEF IInv, RecordInv, RecordOK, OwnerInv, OwnerOK
  <2>2. stream'[r] = "quarantine" /\ tree'[r] = tree[r]
    BY <2>1, OperateOwnerInv
  <2>3. record'[r] = record[r]
    BY <1>1, <1>b, OperatorShares DEF IInv, OperatorOK
  <2> QED BY <1>a, <2>1, <2>2, <2>3 DEF RecordOK
<1>2. CASE ~record[r].made
  <2>1. /\ opc[o] = "moved" /\ opc'[o] = "recorded" /\ r = job[o]
        /\ record' = [record EXCEPT ![r] = [made |-> TRUE, of |-> tree[r]["quarantine"]]]
    BY <1>2, <1>b, OperatorShares DEF IInv
  <2>2. UNCHANGED <<tree, stream>>
    BY <2>1, OperatorMoves DEF IInv
  <2>3. stream[r] = "quarantine" /\ pc[r] \notin Early /\ (hasty = {} => Gone(r))
    BY <2>1, <1>b, RunAssumption DEF OperatorOK
  <2> QED BY <1>a, <1>b, <2>1, <2>2, <2>3 DEF RecordOK
<1> QED BY <1>1, <1>2

LEMMA OperateResourceExclusive ==
    ASSUME IInv, NEW o \in Operators, Operate(o) PROVE ResourceExclusive'
<1> SUFFICES ASSUME hasty' = {}, NEW q \in Runs, Inside(q)' PROVE resource' = q
  BY DEF ResourceExclusive
<1>1. hasty = {} /\ Inside(q) /\ ~Gone(q)
  BY OperatorFrame DEF IInv, Inside, Gone
<1>2. resource = q
  BY <1>1 DEF IInv, ResourceExclusive
<1>3. OperatorOK(o)
  BY DEF IInv, OperatorInv
<1> QED BY <1>1, <1>2, <1>3, OperatorShares, RunAssumption DEF IInv, OperatorOK

LEMMA OperateCatalogInv ==
    ASSUME IInv, NEW o \in Operators, Operate(o) PROVE CatalogInv'
<1>a. /\ \A q \in Runs : answer[q] = "indexed" => <<q, "run">> \in catalog
      /\ \A e \in catalog : TrueEntry(e)
      /\ \A q \in Runs : pc[q] = "indexing" => catalogLock = q
      /\ \A p \in Operators : opc[p] = "replacing" =>
            /\ catalogLock = p
            /\ \A q \in Runs : answer[q] = "indexed" => <<q, "run">> \in scanned[p]
            /\ \A e \in scanned[p] : TrueEntry(e)
  BY DEF IInv, CatalogInv, IndexedStays, TrueEntry
<1>b. UNCHANGED <<pc, answer>>
      /\ \A p \in Operators \ {o} : opc'[p] = opc[p] /\ job'[p] = job[p] /\ scanned'[p] = scanned[p]
  BY OperatorFrame DEF IInv
<1>c. catalog \subseteq Entry /\ \A p \in Operators : scanned[p] \subseteq Entry
  BY DEF IInv, TypeInv, IndexTypes
<1>1. \A e \in Entry : TrueEntry(e) => TrueEntry(e)'
  <2>1. \A r \in Runs : ("runs" \in at[r] => "runs" \in at'[r]) /\ (record[r].made => record'[r].made)
    BY OperateOwnerInv, OperatorShares DEF IInv, TypeInv, RecoveryTypes
  <2> QED BY <2>1 DEF TrueEntry, Entry
<1>2. \A q \in Runs : answer[q] = "indexed" => <<q, "run">> \in Listed
  BY DEF IInv, OwnerInv, OwnerOK, Listed
<1>3. \A e \in Listed : TrueEntry(e)
  BY DEF Listed, TrueEntry
<1>4. \/ UNCHANGED <<catalog, catalogLock>>
      \/ job[o] \in Runs /\ record[job[o]].made /\ catalogLock' = catalogLock
         /\ catalogLock = NoRun /\ catalog' = catalog \cup {<<job[o], "recovery">>}
      \/ opc[o] = "idle" /\ catalogLock = NoRun /\ catalogLock' = o /\ catalog' = catalog
         /\ opc'[o] = "replacing" /\ scanned'[o] = Listed
      \/ opc[o] = "replacing" /\ catalogLock' = NoRun /\ catalog' = scanned[o] /\ opc'[o] = "idle"
  BY OperatorShares DEF IInv
<1>5. \A q \in Runs : answer'[q] = "indexed" => <<q, "run">> \in catalog'
  BY <1>a, <1>b, <1>4
<1>6. \A e \in catalog' : TrueEntry(e)'
  <2>1. job[o] \in Runs /\ record[job[o]].made =>
            <<job[o], "recovery">> \in Entry /\ TrueEntry(<<job[o], "recovery">>)
    BY DEF Entry, TrueEntry
  <2> QED BY <1>a, <1>c, <1>1, <1>4, <2>1
<1>7. \A q \in Runs : pc'[q] = "indexing" => catalogLock' = q
  BY <1>a, <1>b, <1>4, RunAssumption
<1>8. ASSUME NEW p \in Operators, opc'[p] = "replacing"
      PROVE  /\ catalogLock' = p
             /\ \A q \in Runs : answer'[q] = "indexed" => <<q, "run">> \in scanned'[p]
             /\ \A e \in scanned'[p] : TrueEntry(e)'
  <2>1. Listed \subseteq Entry
    BY DEF Listed, Entry
  <2>2. CASE p # o
    BY <1>a, <1>b, <1>c, <1>1, <1>4, <1>8, <2>2, RunAssumption
  <2>3. CASE p = o
    <3>1. opc[o] = "idle" /\ catalogLock' = o /\ scanned'[o] = Listed
      BY <1>8, <2>3, OperatorMoves, RunAssumption DEF IInv
    <3> QED BY <1>b, <1>1, <1>2, <1>3, <2>1, <2>3, <3>1
  <2> QED BY <2>2, <2>3
<1> QED BY <1>5, <1>6, <1>7, <1>8 DEF CatalogInv, IndexedStays, TrueEntry

-----------------------------------------------------------------------------
LEMMA InitIInv == Init => IInv
<1> SUFFICES ASSUME Init PROVE IInv
  OBVIOUS
<1>1. TypeInv
  BY InitTypeInv
<1>2. OwnerInv
  BY FreshTree DEF Init, OwnerInv, OwnerOK, Early, Places
<1>3. OperatorInv
  BY DEF Init, OperatorInv, OperatorOK
<1>4. RecordInv
  BY DEF Init, RecordInv, RecordOK, NoRecord
<1>5. ResourceExclusive
  BY DEF Init, ResourceExclusive, Inside
<1>6. CatalogInv
  BY DEF Init, CatalogInv, IndexedStays
<1> QED BY <1>1, <1>2, <1>3, <1>4, <1>5, <1>6 DEF IInv

LEMMA NextIInv == IInv /\ [Next]_vars => IInv'
<1> SUFFICES ASSUME IInv, [Next]_vars PROVE IInv'
  OBVIOUS
<1>1. TypeInv'
  BY NextTypeInv DEF IInv
<1>2. ASSUME NEW r \in Runs, Run(r) PROVE IInv'
  BY <1>1, <1>2, RunOwnerInv, RunOperatorInv, RunRecordInv, RunResourceExclusive, RunCatalogInv DEF IInv
<1>3. ASSUME NEW o \in Operators, Operate(o) PROVE IInv'
  BY <1>1, <1>3, OperateOwnerInv, OperateOperatorInv, OperateRecordInv, OperateResourceExclusive,
     OperateCatalogInv DEF IInv
<1>4. CASE UNCHANGED vars
  <2>1. UNCHANGED <<version, at, tree, stream, resource, recoveryLocks, pc, answer, record, malformed, opc, job,
                    catalog, catalogLock, scanned, hasty>>
    BY <1>4 DEF vars, evidence, locks, owner, recovery, index
  <2>2. OwnerInv' /\ OperatorInv' /\ RecordInv'
    BY <2>1 DEF IInv, OwnerInv, OwnerOK, Verified, OperatorInv, OperatorOK, RecordInv, RecordOK, Gone
  <2>3. ResourceExclusive' /\ CatalogInv'
    BY <2>1 DEF IInv, ResourceExclusive, Inside, Gone, CatalogInv, IndexedStays, TrueEntry
  <2> QED BY <1>1, <2>2, <2>3 DEF IInv
<1> QED BY <1>2, <1>3, <1>4 DEF Next

(* Every variable keeps its type. *)
THEOREM TypesKept == Spec => []TypeOK
<1>1. IInv => TypeOK
  BY TypesHold DEF IInv
<1> QED BY <1>1, InitIInv, NextIInv, PTL DEF Spec

(* Two live runs never use the resource at once, and its lock names the one that does, as long *)
(* as nobody recovered a run that was alive (create_run_locks and both recoveries).             *)
THEOREM ResourceSafe == Spec => []ResourceExclusive
<1>1. IInv => ResourceExclusive
  BY DEF IInv
<1> QED BY <1>1, InitIInv, NextIInv, PTL DEF Spec

(* A run ends once: a recovery record is never there for a published run, and it stays true of *)
(* the quarantine it describes (recover_interrupted_run against the owner's publication).       *)
THEOREM RecordsSound == Spec => []RecordTrue
<1>1. IInv => RecordTrue
  BY DEF IInv, RecordInv, RecordOK, RecordTrue, OwnerInv, OwnerOK
<1> QED BY <1>1, InitIInv, NextIInv, PTL DEF Spec

(* A run whose caller was told that it is indexed stays in the catalog, and nothing is listed  *)
(* that is not there, whatever rebuild runs at the same time (index_run, rebuild_run_catalog). *)
THEOREM CatalogKept == Spec => []IndexedStays
<1>1. IInv => IndexedStays
  BY DEF IInv, CatalogInv
<1> QED BY <1>1, InitIInv, NextIInv, PTL DEF Spec

(* The resource leaves a run only when the run is published, or recorded as interrupted, or    *)
(* never wrote an event (remove_resource_lock in the runners and in both recoveries).           *)
THEOREM LockStays == Spec => LockOutlivesRun
<1> DEFINE Step == \A r \in Runs : hasty = {} /\ resource = r /\ resource' # r =>
                      \/ "runs" \in at[r] \/ record[r].made
                      \/ \A p \in Places : tree[r][p].events = <<>>
<1>1. IInv /\ [Next]_vars => [Step]_vars
  <2> SUFFICES ASSUME IInv, Next, NEW r \in Runs, hasty = {}, resource = r, resource' # r
               PROVE  \/ "runs" \in at[r] \/ record[r].made
                      \/ \A p \in Places : tree[r][p].events = <<>>
    OBVIOUS
  <2>1. ASSUME NEW q \in Runs, Run(q) PROVE "runs" \in at[r] \/ \A p \in Places : tree[r][p].events = <<>>
    <3>1. Inside(q) /\ pc[q] \in {"locked", "staged", "published"}
      BY <2>1, OwnerAndResource, OwnerShares, RunAssumption DEF IInv
    <3>2. q = r
      BY <3>1 DEF IInv, ResourceExclusive
    <3> QED BY <3>1, <3>2, FreshTree DEF IInv, OwnerInv, OwnerOK, Early
  <2>2. ASSUME NEW o \in Operators, Operate(o) PROVE "runs" \in at[r] \/ record[r].made
    <3>1. OperatorOK(o)
      BY DEF IInv, OperatorInv
    <3>2. /\ job[o] \in Runs
          /\ \/ opc[o] \in {"recorded", "authorised"}
             \/ opc[o] = "interrupted" /\ record[job[o]].made /\ resource = job[o]
      BY <2>2, OperatorShares DEF IInv
    <3> QED BY <3>1, <3>2 DEF OperatorOK
  <2> QED BY <2>1, <2>2 DEF Next
<1> QED BY <1>1, InitIInv, NextIInv, PTL DEF Spec, LockOutlivesRun

-----------------------------------------------------------------------------
(* The phases with an open journal; those in which nothing but the way of the run is written;  *)
(* those that come after the terminal event.                                                   *)
Ended == {"completed", "ended", "closed"}
Writing == Trying \cup {"stopping"} \cup Ended
Open == Trying \ {"completed"}

(* Neither an end nor a cancellation among the first n events. *)
Plain(events, n) == \A i \in 1..n : events[i] \notin Terminals \cup {"cancel_requested"}

(* What a journal and the documents beside it say of a run in phase p with n responses that is *)
(* to end as s.                                                                                *)
Tells(t, p, n, s) ==
    /\ Occurrences(t.events, "point_completed") = n
    /\ p \in Open => Plain(t.events, Len(t.events))
    /\ p \in {"finalizing", "dataset"} => n = Points
    /\ p = "stopping" => s # "completed"
    /\ p = "completed" => s = "completed"
    /\ p \in Ended =>
           /\ t.events # <<>> /\ t.events[Len(t.events)] = TerminalEvent[s]
           /\ s = "completed" => n = Points /\ Plain(t.events, Len(t.events) - 1)
    /\ t.docs # 0 => p = "closed" /\ t.status = s /\ t.sealed = Len(t.events)

JournalOK(r) ==
    /\ pc[r] \in Early => done[r] = 0
    /\ ending[r] = "cancelled" => cancellation[r] = "whole"
    /\ pc[r] \in Writing /\ stream[r] = "staging" => Tells(tree[r]["staging"], pc[r], done[r], ending[r])

(* What PublishedSound says of one directory. *)
Sound(t, n, asked) ==
    /\ t.sealed = Len(t.events) /\ ~t.torn
    /\ \A e \in Terminals : Occurrences(t.events, e) = IF e = TerminalEvent[t.status] THEN 1 ELSE 0
    /\ Occurrences(t.events, "point_completed") = n
    /\ (t.status = "completed") <=> (t.data = "whole")
    /\ t.status = "completed" => n = Points /\ Occurrences(t.events, "cancel_requested") = 0
    /\ t.status = "cancelled" => asked = "whole"

JournalInv == (\A r \in Runs : JournalOK(r)) /\ PublishedSound

LEMMA PublishedIsSound ==
    PublishedSound <=> \A r \in Runs : "runs" \in at[r] => Sound(tree[r]["runs"], done[r], cancellation[r])
  BY DEF PublishedSound, Sound

LEMMA Counted ==
    ASSUME NEW s \in Seq(EventTypes), NEW e
    PROVE  /\ IsFiniteSet({i \in DOMAIN s : s[i] = e})
           /\ Occurrences(s, e) \in Nat
<1>1. DOMAIN s = 1..Len(s) /\ Len(s) \in Nat
  OBVIOUS
<1>2. IsFiniteSet(1..Len(s))
  BY <1>1, FS_Interval
<1>3. {i \in DOMAIN s : s[i] = e} \in SUBSET (1..Len(s))
  BY <1>1
<1>4. IsFiniteSet({i \in DOMAIN s : s[i] = e})
  BY <1>2, <1>3, FS_Subset
<1> QED BY <1>4, FS_CardinalityType DEF Occurrences

(* An event more is counted, or not. *)
LEMMA AppendCounts ==
    ASSUME NEW s \in Seq(EventTypes), NEW x \in EventTypes, NEW e
    PROVE  Occurrences(Append(s, x), e) = IF x = e THEN Occurrences(s, e) + 1 ELSE Occurrences(s, e)
<1> DEFINE before == {i \in DOMAIN s : s[i] = e}
           after == {i \in DOMAIN Append(s, x) : Append(s, x)[i] = e}
<1>1. /\ DOMAIN s = 1..Len(s) /\ Len(s) \in Nat /\ DOMAIN Append(s, x) = 1..Len(s) + 1
      /\ \A i \in 1..Len(s) : Append(s, x)[i] = s[i]
      /\ Append(s, x)[Len(s) + 1] = x
  OBVIOUS
<1>2. after = IF x = e THEN before \cup {Len(s) + 1} ELSE before
  BY <1>1
<1>3. Len(s) + 1 \notin before
  BY <1>1
<1>f. IsFiniteSet(before)
  BY Counted
<1> HIDE DEF before, after
<1>4. Cardinality(before \cup {Len(s) + 1}) = Cardinality(before) + 1
  BY <1>3, <1>f, FS_AddElement
<1>5. Cardinality(after) = IF x = e THEN Cardinality(before) + 1 ELSE Cardinality(before)
  BY <1>2, <1>4
<1> QED BY <1>5 DEF Occurrences, before, after

(* What occurs nowhere, and what occurs at the end only. *)
LEMMA OccursNever ==
    ASSUME NEW s \in Seq(EventTypes), NEW e, \A i \in 1..Len(s) : s[i] # e
    PROVE  Occurrences(s, e) = 0
<1>1. {i \in DOMAIN s : s[i] = e} = {}
  OBVIOUS
<1> QED BY <1>1, FS_EmptySet DEF Occurrences

LEMMA OccursLast ==
    ASSUME NEW s \in Seq(EventTypes), s # <<>>, NEW e, s[Len(s)] = e, \A i \in 1..Len(s) - 1 : s[i] # e
    PROVE  Occurrences(s, e) = 1
<1>0. DOMAIN s = 1..Len(s) /\ Len(s) \in Nat \ {0}
  OBVIOUS
<1>1. {i \in DOMAIN s : s[i] = e} = {Len(s)}
  BY <1>0
<1> QED BY <1>1, FS_Singleton DEF Occurrences

LEMMA TerminalNames ==
    /\ Terminals = {"run_completed", "run_failed", "run_cancelled"}
    /\ \A s \in Statuses : TerminalEvent[s] \in Terminals
    /\ TerminalEvent["completed"] = "run_completed"
    /\ \A s, u \in Statuses : TerminalEvent[s] = TerminalEvent[u] => s = u
<1>1. Statuses = {"completed", "failed", "cancelled"}
  BY DEF Statuses
<1>2. /\ TerminalEvent["completed"] = "run_completed" /\ TerminalEvent["failed"] = "run_failed"
      /\ TerminalEvent["cancelled"] = "run_cancelled"
  BY DEF TerminalEvent
<1>3. Terminals = {"run_completed", "run_failed", "run_cancelled"}
  BY <1>1, <1>2 DEF Terminals
<1> QED BY <1>1, <1>2, <1>3

(* The verifier of schema 0.1 refuses an end before the end. *)
LEMMA EndsOnce01 ==
    ASSUME NEW t, EventsHold(t) PROVE \A i \in 1..Len(t.events) - 1 : t.events[i] \notin Terminals
  BY Zenon DEF EventsHold

(* So does that of schema 0.2 in a run that did not complete: an event out of its place is refused. *)
LEMMA EndsOnce02 ==
    ASSUME NEW t \in Tree, NEW s, Stopped02(t.events, s)
    PROVE  \A i \in 1..Len(t.events) - 1 : t.events[i] \notin Terminals
<1> DEFINE e == t.events
<1>1. Len(e) \in Nat /\ Len(e) >= 3 /\ e[1] = "run_reserved" /\ e[2] = "run_prepared"
  BY DEF Stopped02, Prefix02, Tree
<1>2. CASE e[3] = "cancel_requested" /\ Len(e) = 4
  BY <1>1, <1>2, TerminalNames
<1>3. CASE /\ e[3] = "run_started"
           /\ \A i \in 4..Len(e) - 1 : e[i] \in {"run_finalizing", "cancel_requested", "point_started",
                                                "point_completed", "point_failed"}
  BY <1>1, <1>3, TerminalNames
<1> QED BY <1>2, <1>3 DEF Stopped02

(* What verifies at the end of a run whose journal tells its story is sound. *)
LEMMA VerifiedSound ==
    ASSUME NEW t \in Tree, NEW n, NEW s \in Statuses, NEW asked, Tells(t, "closed", n, s), Verified(t),
           version \in {"0.1", "0.2"}, s = "cancelled" => asked = "whole"
    PROVE  Sound(t, n, asked)
<1>1. t.docs = 3 /\ ~t.torn /\ ((t.status = "completed") <=> (t.data = "whole"))
  <2>1. CASE Verified01(t)
    BY <2>1 DEF Verified01, DocumentsHold, PayloadHolds, JournalReads
  <2>2. CASE Verified02(t)
    BY <2>2 DEF Verified02, Terminal02, JournalReads
  <2> QED BY <2>1, <2>2 DEF Verified
<1>2. /\ t.status = s /\ t.sealed = Len(t.events)
      /\ Occurrences(t.events, "point_completed") = n
      /\ t.events # <<>> /\ t.events[Len(t.events)] = TerminalEvent[s]
      /\ s = "completed" => n = Points /\ Plain(t.events, Len(t.events) - 1)
  BY <1>1 DEF Tells, Ended
<1>3. \A i \in 1..Len(t.events) - 1 : t.events[i] \notin Terminals
  <2>1. CASE s = "completed"
    BY <1>2, <2>1 DEF Plain
  <2>2. CASE Verified01(t)
    BY <2>2, EndsOnce01 DEF Verified01
  <2>3. CASE s # "completed" /\ Verified02(t)
    BY <1>2, <2>3, EndsOnce02 DEF Verified02
  <2> QED BY <2>1, <2>2, <2>3 DEF Verified
<1>4. t.events \in Seq(EventTypes) /\ Len(t.events) \in Nat
  BY DEF Tree
<1>5. \A e \in Terminals : Occurrences(t.events, e) = IF e = TerminalEvent[s] THEN 1 ELSE 0
  <2> SUFFICES ASSUME NEW e \in Terminals
               PROVE  Occurrences(t.events, e) = IF e = TerminalEvent[s] THEN 1 ELSE 0
    OBVIOUS
  <2>1. CASE e = TerminalEvent[s]
    BY <1>2, <1>3, <1>4, <2>1, OccursLast
  <2>2. CASE e # TerminalEvent[s]
    <3>1. \A i \in 1..Len(t.events) : t.events[i] # e
      BY <1>2, <1>3, <1>4, <2>2
    <3> QED BY <1>4, <2>2, <3>1, OccursNever
  <2> QED BY <2>1, <2>2
<1>6. ASSUME s = "completed" PROVE Occurrences(t.events, "cancel_requested") = 0
  <2>1. \A i \in 1..Len(t.events) : t.events[i] # "cancel_requested"
    BY <1>2, <1>4, <1>6, TerminalNames DEF Plain
  <2> QED BY <1>4, <2>1, OccursNever
<1> QED BY <1>1, <1>2, <1>5, <1>6 DEF Sound
-----------------------------------------------------------------------------
(* A journal that is written on. *)
LEMMA TellsAppended ==
    ASSUME NEW t \in Tree, NEW u \in Tree, NEW p \in Open, NEW q \in Open, NEW n, NEW s, NEW z,
           NEW x \in EventTypes, x \notin Terminals \cup {"cancel_requested"},
           Tells(t, p, n, s), u.events = Append(t.events, x), u.docs = t.docs,
           q \in {"finalizing", "dataset"} => Occurrences(u.events, "point_completed") = Points
    PROVE  Tells(u, q, Occurrences(u.events, "point_completed"), z)
<1>1. t.events \in Seq(EventTypes) /\ p \notin Ended /\ q \notin Ended /\ p # "stopping" /\ q # "stopping"
      /\ q # "completed"
  BY DEF Tree, Open, Ended, Trying
<1>2. Plain(t.events, Len(t.events)) /\ t.docs = 0
  BY <1>1 DEF Tells, Ended
<1>4. Plain(u.events, Len(u.events))
  <2> SUFFICES ASSUME NEW i \in 1..Len(u.events) PROVE u.events[i] \notin Terminals \cup {"cancel_requested"}
    BY DEF Plain
  <2>1. CASE i \in 1..Len(t.events)
    BY <1>1, <1>2, <2>1 DEF Plain
  <2>2. CASE i = Len(t.events) + 1
    BY <1>1, <2>2
  <2>3. Len(u.events) = Len(t.events) + 1 /\ Len(t.events) \in Nat
    BY <1>1
  <2> QED BY <2>1, <2>2, <2>3
<1> QED BY <1>1, <1>2, <1>4 DEF Tells

(* A step that writes no event. *)
LEMMA TellsMoved ==
    ASSUME NEW t, NEW u, NEW p \in Open, NEW q \in Open, NEW n, NEW s, NEW z,
           Tells(t, p, n, s), u.events = t.events, u.docs = t.docs, q \in {"finalizing", "dataset"} => n = Points
    PROVE  Tells(u, q, n, z)
<1>1. p \notin Ended /\ q \notin Ended /\ p # "stopping" /\ q # "stopping" /\ q # "completed"
  BY DEF Open, Ended, Trying
<1> QED BY <1>1 DEF Tells, Ended

(* The run stops: with an event of its own or none. *)
LEMMA TellsStopping ==
    ASSUME NEW t \in Tree, NEW u, NEW p \in Trying, NEW n, NEW s, NEW z,
           Tells(t, p, n, s), u.docs = t.docs, z # "completed",
           \/ u.events = t.events
           \/ \E x \in EventTypes \ {"point_completed"} : u.events = Append(t.events, x)
    PROVE  Tells(u, "stopping", n, z)
<1>1. t.events \in Seq(EventTypes) /\ p # "closed" /\ "stopping" \notin Open \cup Ended
  BY DEF Tree, Trying, Open, Ended
<1>2. Occurrences(u.events, "point_completed") = n
  <2>1. Occurrences(t.events, "point_completed") = n
    BY DEF Tells
  <2>2. ASSUME NEW x \in EventTypes \ {"point_completed"}, u.events = Append(t.events, x)
        PROVE  Occurrences(u.events, "point_completed") = n
    BY <1>1, <2>1, <2>2, AppendCounts
  <2> QED BY <2>1, <2>2
<1>3. u.docs = 0
  BY <1>1 DEF Tells
<1> QED BY <1>1, <1>2, <1>3 DEF Tells

(* The terminal event is written: of a run that stops, or of one that completes. *)
LEMMA TellsEnded ==
    ASSUME NEW t \in Tree, NEW u, NEW n, NEW s, NEW z \in Statuses,
           u.docs = t.docs, u.events = Append(t.events, TerminalEvent[z]),
           NEW p, NEW q, Tells(t, p, n, s),
           \/ p = "stopping" /\ z = s /\ q = "ended"
           \/ p = "dataset" /\ z = "completed" /\ q = "completed"
    PROVE  Tells(u, q, n, z)
<1>1. /\ t.events \in Seq(EventTypes) /\ TerminalEvent[z] \in EventTypes
      /\ TerminalEvent[z] # "point_completed"
  BY EventNames, TerminalNames DEF Tree
<1>2. Occurrences(u.events, "point_completed") = n
  BY <1>1, AppendCounts DEF Tells
<1>3. u.events # <<>> /\ u.events[Len(u.events)] = TerminalEvent[z] /\ Len(u.events) - 1 = Len(t.events)
      /\ \A i \in 1..Len(t.events) : u.events[i] = t.events[i]
  BY <1>1
<1>4. u.docs = 0
  BY DEF Tells
<1>5. ASSUME z = "completed" PROVE n = Points /\ Plain(u.events, Len(u.events) - 1)
  <2>1. p = "dataset" /\ "dataset" \in Open
    BY <1>5 DEF Tells, Open, Trying
  <2> QED BY <1>3, <2>1 DEF Tells, Plain
<1>6. q \notin Open /\ q # "stopping" /\ q \notin {"finalizing", "dataset"}
  BY DEF Open, Trying
<1> QED BY <1>2, <1>3, <1>4, <1>5, <1>6 DEF Tells

LEMMA TellsClosed ==
    ASSUME NEW t, NEW p \in {"completed", "ended"}, NEW n, NEW s, Tells(t, p, n, s)
    PROVE  Tells(t, "closed", n, s)
<1>1. "closed" \notin Open /\ p # "closed" /\ {p, "closed"} \subseteq Ended
  BY DEF Open, Trying, Ended
<1> QED BY <1>1 DEF Tells

LEMMA TellsBound ==
    ASSUME NEW t \in Tree, NEW r, NEW n, Tells(t, "closed", n, ending[r])
    PROVE  Tells(Bound(t, r, 3), "closed", n, ending[r])
<1>1. LET u == Bound(t, r, 3) IN u.events = t.events /\ u.status = ending[r] /\ u.sealed = Len(t.events)
  BY DEF Bound, Tree
<1> QED BY <1>1 DEF Tells

-----------------------------------------------------------------------------
(* A step of an owner counts for its own run only. *)
LEMMA OwnerCounts ==
    ASSUME TypeInv, NEW r \in Runs, Run(r)
    PROVE  /\ \A q \in Runs \ {r} : done'[q] = done[q] /\ ending'[q] = ending[q] /\ cancellation'[q] = cancellation[q]
           /\ cancellation[r] = "whole" => cancellation'[r] = "whole"
           /\ done'[r] # done[r] => pc[r] = "started"
           /\ ending'[r] # ending[r] => pc[r] \in Trying
           /\ ending'[r] = "cancelled" => ending[r] = "cancelled" \/ cancellation[r] = "whole"
<1>a. /\ cancellation \in [Runs -> {"none", "torn", "whole"}] /\ ending \in [Runs -> Statuses]
      /\ done \in [Runs -> 0..Points]
  BY DEF TypeInv, OwnerTypes
<1> USE <1>a DEF Goto, Stop
<1>1. CASE Reserve(r) \/ TakeResource(r) \/ MakeStaging(r) \/ WriteInputs(r) \/ InputsFail(r)
  BY <1>1 DEF Reserve, TakeResource, MakeStaging, WriteInputs, InputsFail
<1>2. CASE Begin(r) \/ ObserveCancellation(r) \/ StartPoint(r) \/ RunBudgetExceeded(r) \/ RunPoint(r)
  BY <1>2 DEF Begin, ObserveCancellation, Observing, StartPoint, RunBudgetExceeded, RunPoint, Trying
<1>3. CASE PointFails(r) \/ NextPoint(r) \/ Finalize(r) \/ WriteData(r) \/ Complete(r) \/ Fails(r)
  BY <1>3 DEF PointFails, NextPoint, Finalize, WriteData, Complete, Fails, Trying
<1>4. CASE StopRun(r) \/ Close(r) \/ WriteDocuments(r) \/ Publish(r) \/ PublishRefused(r) \/ Release(r)
  BY <1>4 DEF StopRun, Close, WriteDocuments, Publish, PublishRefused, Release, owner
<1>5. CASE IndexRun(r) \/ Raises(r) \/ Crash(r) \/ RequestCancellation(r)
  BY <1>5 DEF IndexRun, Raises, Crash, RequestCancellation, owner
<1> QED BY <1>1, <1>2, <1>3, <1>4, <1>5 DEF Run

(* A published directory is never written again. *)
LEMMA PublishedStays ==
    ASSUME TypeInv, NEW r \in Runs, Run(r), ~Publish(r)
    PROVE  tree'[r]["runs"] = tree[r]["runs"] /\ ("runs" \in at'[r] => "runs" \in at[r])
<1>a. EvidenceTypes /\ stream[r] \in {"staging", "quarantine"} /\ "staging" \in Places
      /\ Places = {"staging", "quarantine", "runs"}
  BY DEF TypeInv, EvidenceTypes, Places
<1>h. HalfWritten(r) => tree'[r]["runs"] = tree[r]["runs"]
  BY <1>a DEF HalfWritten, EvidenceTypes
<1>p. \A x : Append_(r, x) => tree'[r]["runs"] = tree[r]["runs"] /\ at' = at
  BY <1>a DEF Append_, EvidenceTypes
<1> USE <1>a DEF EvidenceTypes, Early
<1>1. CASE Reserve(r) \/ TakeResource(r) \/ MakeStaging(r) \/ WriteInputs(r) \/ InputsFail(r)
  <2>1. CASE WriteInputs(r)
    BY <2>1 DEF WriteInputs
  <2>2. CASE MakeStaging(r)
    BY <2>2 DEF MakeStaging, evidence
  <2> QED BY <1>1, <2>1, <2>2 DEF Reserve, TakeResource, InputsFail, evidence
<1>2. CASE Begin(r) \/ ObserveCancellation(r) \/ StartPoint(r) \/ RunBudgetExceeded(r) \/ RunPoint(r)
  BY <1>2, <1>p DEF Begin, ObserveCancellation, StartPoint, RunBudgetExceeded, RunPoint, evidence
<1>3. CASE PointFails(r) \/ NextPoint(r) \/ Finalize(r) \/ WriteData(r) \/ Complete(r) \/ Fails(r)
  BY <1>3, <1>h, <1>p DEF PointFails, NextPoint, Finalize, WriteData, Complete, Fails, evidence
<1>4. CASE StopRun(r) \/ Close(r) \/ WriteDocuments(r) \/ PublishRefused(r) \/ Release(r)
  BY <1>4 DEF StopRun, Close, WriteDocuments, PublishRefused, Release, evidence
<1>5. CASE IndexRun(r) \/ Raises(r) \/ Crash(r) \/ RequestCancellation(r)
  BY <1>5, <1>h DEF IndexRun, Raises, Crash, RequestCancellation, evidence
<1> QED BY <1>1, <1>2, <1>3, <1>4, <1>5 DEF Run

-----------------------------------------------------------------------------
(* The journal of an open run, step by step. *)
LEMMA RunTells ==
    ASSUME IInv, NEW r \in Runs, JournalOK(r), Run(r), pc'[r] \in Writing, stream'[r] = "staging"
    PROVE  Tells(tree'[r]["staging"], pc'[r], done'[r], ending'[r])
<1> DEFINE t == tree[r]["staging"]
           u == tree'[r]["staging"]
<1>a. /\ EvidenceTypes /\ EvidenceTypes' /\ pc \in [Runs -> Phases] /\ done \in [Runs -> 0..Points]
      /\ ending \in [Runs -> Statuses] /\ OwnerTypes' /\ version \in Versions
      /\ pc[r] = "started" => done[r] < Points
  BY RunTypeInv DEF IInv, TypeInv, OwnerTypes, CountTypes
<1>b. t \in Tree /\ u \in Tree /\ done[r] \in Nat /\ ending[r] \in Statuses /\ "staging" \in Places
  BY <1>a, RunAssumption DEF EvidenceTypes, Places
<1>w. Writing = {"opened", "reserved", "prepared", "boundary", "started", "observed", "finalizing", "dataset",
                 "completed", "stopping", "ended", "closed"}
  BY DEF Writing, Trying, Ended
<1>o. Open = {"opened", "reserved", "prepared", "boundary", "started", "observed", "finalizing", "dataset"}
  BY DEF Open, Trying
<1>s. pc[r] \in Writing => stream[r] = "staging" /\ Tells(t, pc[r], done[r], ending[r])
  BY <1>w, OwnerEvolves DEF IInv, JournalOK, Early
<1>e. \A x : Append_(r, x) /\ pc[r] \in Writing => u.events = Append(t.events, x) /\ u.docs = t.docs
  <2>1. ASSUME NEW x, Append_(r, x), stream[r] = "staging" PROVE u = [t EXCEPT !.events = Append(@, x)]
    BY <1>a, <1>b, <2>1 DEF Append_, EvidenceTypes, t, u
  <2>2. \A x : [t EXCEPT !.events = Append(@, x)].events = Append(t.events, x)
               /\ [t EXCEPT !.events = Append(@, x)].docs = t.docs
    BY <1>b DEF Tree
  <2> HIDE DEF t, u
  <2> QED BY <1>s, <2>1, <2>2
<1>n. {"run_reserved", "run_prepared", "run_started", "point_started", "point_completed", "point_failed",
       "run_finalizing"} \subseteq EventTypes \ (Terminals \cup {"cancel_requested"})
      /\ "cancel_requested" \in EventTypes
  BY EventNames, TerminalNames
<1> HIDE DEF t, u
<1> USE DEF Goto, Stop
<1>1. CASE WriteInputs(r)
  <2>1. pc'[r] = "opened" /\ u = [Fresh EXCEPT !.inputs = TRUE] /\ done'[r] = 0
    BY <1>1, <1>a, <1>b DEF WriteInputs, EvidenceTypes, JournalOK, Early, u
  <2>2. u.events = <<>> /\ u.docs = 0
    BY <2>1 DEF Fresh
  <2>3. Occurrences(u.events, "point_completed") = 0
    <3>1. u.events \in Seq(EventTypes) /\ Len(u.events) = 0
      BY <1>b, <2>2 DEF Tree
    <3> QED BY <3>1, OccursNever
  <2> QED BY <1>o, <2>1, <2>2, <2>3 DEF Tells, Plain, Ended, u
<1>2. CASE Begin(r)
  <2>1. /\ pc[r] \in Open /\ pc'[r] \in Open /\ pc'[r] \notin {"finalizing", "dataset"} /\ done'[r] = done[r]
        /\ \E x \in {"run_reserved", "run_prepared", "run_started"} : Append_(r, x)
    BY <1>2, <1>a, <1>o DEF Begin
  <2>2. PICK x \in {"run_reserved", "run_prepared", "run_started"} : Append_(r, x)
    BY <2>1
  <2>3. /\ u.events = Append(t.events, x) /\ u.docs = t.docs /\ Tells(t, pc[r], done[r], ending[r])
        /\ x \in EventTypes /\ x \notin Terminals \cup {"cancel_requested"} /\ x # "point_completed"
    BY <1>w, <1>o, <1>s, <1>e, <1>n, <2>1, <2>2
  <2>4. Occurrences(u.events, "point_completed") = done[r]
    BY <1>b, <2>3, AppendCounts DEF Tree, Tells
  <2>5. Tells(u, pc'[r], Occurrences(u.events, "point_completed"), ending'[r])
    BY <1>b, <2>1, <2>3, <2>4, TellsAppended
  <2> QED BY <2>1, <2>4, <2>5 DEF u
<1>3. CASE StartPoint(r) \/ RunPoint(r) \/ Finalize(r)
  <2>1. /\ pc[r] \in Open /\ pc'[r] \in Open
        /\ pc'[r] \in {"finalizing", "dataset"} => done'[r] = Points
        /\ \E x \in {"point_started", "point_completed", "run_finalizing"} :
               Append_(r, x) /\ done'[r] = IF x = "point_completed" THEN done[r] + 1 ELSE done[r]
    BY <1>3, <1>a, <1>o DEF StartPoint, RunPoint, Finalize
  <2>a. pc[r] \in Open /\ pc'[r] \in Open /\ (pc'[r] \in {"finalizing", "dataset"} => done'[r] = Points)
    BY <2>1
  <2>2. PICK x \in {"point_started", "point_completed", "run_finalizing"} :
            Append_(r, x) /\ done'[r] = IF x = "point_completed" THEN done[r] + 1 ELSE done[r]
    BY <2>1
  <2>3. /\ u.events = Append(t.events, x) /\ u.docs = t.docs /\ Tells(t, pc[r], done[r], ending[r])
        /\ x \in EventTypes /\ x \notin Terminals \cup {"cancel_requested"}
    BY <1>w, <1>o, <1>s, <1>e, <1>n, <2>1, <2>2
  <2>4. Occurrences(u.events, "point_completed") = done'[r]
    BY <1>b, <2>2, <2>3, AppendCounts DEF Tree, Tells
  <2>5. Tells(u, pc'[r], Occurrences(u.events, "point_completed"), ending'[r])
    BY <1>b, <2>a, <2>3, <2>4, TellsAppended
  <2> QED BY <2>4, <2>5 DEF u
<1>4. CASE ObserveCancellation(r) \/ PointFails(r)
  <2>1. /\ pc[r] \in Trying /\ pc[r] \in Writing /\ pc'[r] = "stopping" /\ done'[r] = done[r]
        /\ ending'[r] # "completed"
        /\ tree' = tree \/ \E x \in {"cancel_requested", "point_failed"} : Append_(r, x)
    BY <1>4, <1>a, <1>w DEF ObserveCancellation, Observing, PointFails, Trying, evidence
  <2>2. u.docs = t.docs /\ (u.events = t.events \/ \E x \in EventTypes \ {"point_completed"} : u.events = Append(t.events, x))
    BY <1>e, <1>n, <2>1 DEF t, u
  <2>3. Tells(u, "stopping", done[r], ending'[r])
    BY <1>b, <1>s, <2>1, <2>2, TellsStopping
  <2> QED BY <2>1, <2>3 DEF u
<1>5. CASE RunBudgetExceeded(r) \/ Fails(r) \/ (WriteData(r) /\ pc'[r] = "stopping")
  <2>1. /\ pc[r] \in Trying /\ pc[r] \in Writing /\ pc'[r] = "stopping" /\ done'[r] = done[r]
        /\ ending'[r] # "completed"
        /\ tree' = tree \/ HalfWritten(r)
    BY <1>5, <1>a, <1>w DEF RunBudgetExceeded, Fails, WriteData, Trying, evidence
  <2>2. u.docs = t.docs /\ u.events = t.events
    <3>1. CASE tree' = [tree EXCEPT ![r][stream[r]].torn = TRUE]
      <4>1. u = [t EXCEPT !.torn = TRUE]
        BY <1>a, <1>b, <1>s, <2>1, <3>1 DEF EvidenceTypes, t, u
      <4> QED BY <1>b, <4>1 DEF Tree
    <3>2. CASE \E d \in {"torn", "binary"} : tree' = [tree EXCEPT ![r]["staging"].data = d]
      <4>1. PICK d \in {"torn", "binary"} : tree' = [tree EXCEPT ![r]["staging"].data = d]
        BY <3>2
      <4>2. u = [t EXCEPT !.data = d]
        BY <1>a, <1>b, <4>1 DEF EvidenceTypes, t, u
      <4> QED BY <1>b, <4>2 DEF Tree
    <3>3. CASE tree' = tree
      BY <3>3 DEF t, u
    <3> QED BY <2>1, <3>1, <3>2, <3>3 DEF HalfWritten, Trying
  <2>3. Tells(u, "stopping", done[r], ending'[r])
    BY <1>b, <1>s, <2>1, <2>2, TellsStopping
  <2> QED BY <2>1, <2>3 DEF u
<1>6. CASE NextPoint(r) \/ (WriteData(r) /\ pc'[r] # "stopping")
  <2>1. /\ pc[r] \in Open /\ pc'[r] \in Open /\ done'[r] = done[r]
        /\ pc'[r] \in {"finalizing", "dataset"} => pc[r] = "finalizing"
        /\ tree' = tree \/ tree' = [tree EXCEPT ![r]["staging"].data = "whole"]
    BY <1>6, <1>a, <1>o DEF NextPoint, WriteData, evidence
  <2>2. u.docs = t.docs /\ u.events = t.events
    <3>1. u = t \/ u = [t EXCEPT !.data = "whole"]
      BY <1>a, <1>b, <2>1 DEF EvidenceTypes, t, u
    <3> QED BY <1>b, <3>1 DEF Tree
  <2>3. Tells(t, pc[r], done[r], ending[r]) /\ (pc[r] = "finalizing" => done[r] = Points)
    BY <1>w, <1>o, <1>s, <2>1 DEF Tells
  <2> QED BY <2>1, <2>2, <2>3, TellsMoved DEF u
<1>7. CASE Complete(r)
  <2>1. /\ pc[r] = "dataset" /\ pc'[r] = "completed" /\ done'[r] = done[r] /\ ending'[r] = "completed"
        /\ Append_(r, "run_completed")
    BY <1>7, <1>a DEF Complete
  <2>2. u.docs = t.docs /\ u.events = Append(t.events, TerminalEvent["completed"]) /\ "completed" \in Statuses
    BY <1>w, <1>e, <2>1, TerminalNames DEF Statuses
  <2> QED BY <1>b, <1>w, <1>s, <2>1, <2>2, TellsEnded DEF u
<1>8. CASE StopRun(r)
  <2>1. pc[r] = "stopping" /\ pc'[r] = "ended" /\ done'[r] = done[r] /\ ending'[r] = ending[r]
    BY <1>8, <1>a DEF StopRun
  <2>2. stream[r] = "staging"
    BY <1>w, <1>s, <2>1
  <2>3. u.docs = t.docs /\ u.events = Append(t.events, TerminalEvent[ending[r]])
    <3> DEFINE first == [tree EXCEPT ![r]["staging"].data = IF "staging" \in at[r] THEN "none" ELSE @]
               v == first[r]["staging"]
    <3>1. tree' = [first EXCEPT ![r]["staging"].events = Append(@, TerminalEvent[ending[r]])]
      BY <1>8, <2>2, ZenonT(30) DEF StopRun
    <3>2. /\ r \in DOMAIN first /\ "staging" \in DOMAIN first[r]
          /\ v = [t EXCEPT !.data = IF "staging" \in at[r] THEN "none" ELSE @]
      BY <1>a, <1>b DEF EvidenceTypes, t
    <3>3. v.events = t.events /\ v.docs = t.docs /\ {"events", "docs"} \subseteq DOMAIN v
      BY <1>b, <3>2 DEF Tree
    <3> HIDE DEF first
    <3>4. tree'[r]["staging"] = [first[r]["staging"] EXCEPT !.events = Append(@, TerminalEvent[ending[r]])]
      BY <3>1, <3>2
    <3> HIDE DEF v
    <3>5. u = [v EXCEPT !.events = Append(@, TerminalEvent[ending[r]])]
      BY <3>4 DEF u, v
    <3> QED BY <3>3, <3>5
  <2> QED BY <1>b, <1>w, <1>s, <2>1, <2>3, TellsEnded DEF u
<1>9. CASE Close(r)
  <2>1. pc[r] \in {"completed", "ended"} /\ pc'[r] = "closed" /\ done'[r] = done[r] /\ ending'[r] = ending[r]
        /\ u = t
    BY <1>9, <1>a, <1>w DEF Close, evidence, t, u
  <2> QED BY <1>w, <1>s, <2>1, TellsClosed DEF u
<1>10. CASE WriteDocuments(r)
  <2>1. pc[r] = "closed" /\ pc'[r] = "closed" /\ done'[r] = done[r] /\ ending'[r] = ending[r]
        /\ u = Bound(t, r, 3)
    BY <1>10, <1>a, <1>b DEF WriteDocuments, owner, EvidenceTypes, t, u
  <2> QED BY <1>b, <1>w, <1>s, <2>1, TellsBound DEF u
<1>11. CASE RequestCancellation(r)
  BY <1>11, <1>s DEF RequestCancellation, evidence, owner, t
<1>12. CASE Reserve(r) \/ TakeResource(r) \/ MakeStaging(r) \/ InputsFail(r) \/ Publish(r) \/ PublishRefused(r)
            \/ Release(r) \/ IndexRun(r) \/ Raises(r) \/ Crash(r)
  BY <1>12, <1>a, <1>w DEF Reserve, TakeResource, MakeStaging, InputsFail, Publish, PublishRefused, Release,
                           IndexRun, Raises, Crash
<1> QED BY <1>1, <1>2, <1>3, <1>4, <1>5, <1>6, <1>7, <1>8, <1>9, <1>10, <1>11, <1>12 DEF Run

LEMMA RunJournalOK ==
    ASSUME IInv, NEW r \in Runs, JournalOK(r), Run(r) PROVE JournalOK(r)'
<1>1. pc'[r] \in Early => done'[r] = 0
  <2>1. pc'[r] \in Early => pc[r] \in Early /\ pc[r] # "started"
    BY OwnerEvolves DEF IInv, Early
  <2> QED BY <2>1, OwnerCounts DEF IInv, JournalOK
<1>2. ending'[r] = "cancelled" => cancellation'[r] = "whole"
  BY OwnerCounts DEF IInv, JournalOK
<1> QED BY <1>1, <1>2, RunTells DEF JournalOK

LEMMA RunJournalInv ==
    ASSUME IInv, JournalInv, NEW r \in Runs, Run(r) PROVE JournalInv'
<1>1. ASSUME NEW q \in Runs PROVE JournalOK(q)'
  <2>1. CASE q = r
    BY <2>1, RunJournalOK DEF JournalInv
  <2>2. CASE q # r
    <3>1. pc'[q] = pc[q] /\ tree'[q] = tree[q] /\ stream'[q] = stream[q] /\ done'[q] = done[q]
          /\ ending'[q] = ending[q] /\ cancellation'[q] = cancellation[q]
      BY <2>2, OwnerFrame, OwnerCounts DEF IInv
    <3>2. JournalOK(q)
      BY DEF JournalInv
    <3> QED BY <3>1, <3>2 DEF JournalOK
  <2> QED BY <2>1, <2>2
<1>2. ASSUME NEW q \in Runs, "runs" \in at'[q] PROVE Sound(tree'[q]["runs"], done'[q], cancellation'[q])
  <2>0. \A p \in Runs : "runs" \in at[p] => Sound(tree[p]["runs"], done[p], cancellation[p])
    BY PublishedIsSound DEF JournalInv
  <2>1. CASE q # r
    BY <1>2, <2>0, <2>1, OwnerFrame, OwnerCounts DEF IInv
  <2>2. CASE q = r /\ Publish(r)
    <3>1. /\ tree'[r]["runs"] = tree[r]["staging"] /\ Verified(tree[r]["staging"]) /\ pc[r] = "closed"
          /\ done' = done /\ cancellation' = cancellation
      BY <2>2 DEF Publish, IInv, TypeInv, EvidenceTypes, Places
    <3>2. tree[r]["staging"] \in Tree /\ version \in {"0.1", "0.2"} /\ stream[r] \in {"staging", "quarantine"}
          /\ ending[r] \in Statuses
      BY RunAssumption DEF IInv, TypeInv, EvidenceTypes, CountTypes, OwnerTypes, Places
    <3>3. stream[r] = "staging"
      BY <3>1, <3>2, VerifiedReads DEF IInv, OwnerInv, OwnerOK
    <3>4. Tells(tree[r]["staging"], "closed", done[r], ending[r])
          /\ (ending[r] = "cancelled" => cancellation[r] = "whole")
      BY <3>1, <3>3 DEF JournalInv, JournalOK, Writing, Ended
    <3>5. Sound(tree[r]["staging"], done[r], cancellation[r])
      BY <3>1, <3>2, <3>4, VerifiedSound
    <3> QED BY <2>2, <3>1, <3>5
  <2>3. CASE q = r /\ ~Publish(r)
    <3>1. "runs" \in at[r]
      BY <1>2, <2>3, PublishedStays DEF IInv
    <3>2. pc[r] \in Late
      BY <3>1 DEF IInv, OwnerInv, OwnerOK
    <3>3. pc[r] # "started"
      BY <3>2 DEF Late
    <3>4. tree'[r]["runs"] = tree[r]["runs"] /\ done'[r] = done[r]
          /\ (cancellation[r] = "whole" => cancellation'[r] = "whole")
      BY <2>3, <3>3, PublishedStays, OwnerCounts DEF IInv
    <3> QED BY <2>0, <2>3, <3>1, <3>4 DEF Sound
  <2> QED BY <2>1, <2>2, <2>3
<1>3. PublishedSound'
  BY <1>2 DEF PublishedSound, Sound
<1> QED BY <1>1, <1>3 DEF JournalInv

(* An operator moves the directories of a run to quarantine, and with them its journal, or leaves them. *)
LEMMA OperateJournalInv ==
    ASSUME IInv, JournalInv, NEW o \in Operators, Operate(o) PROVE JournalInv'
<1>a. UNCHANGED <<cancellation, pc, done, ending>> /\ EvidenceTypes /\ "runs" \in Places
  BY OperatorFrame DEF IInv, TypeInv, Places
<1>b. \A r \in Runs : \/ tree'[r] = tree[r] /\ stream'[r] = stream[r] /\ at'[r] = at[r]
                      \/ /\ stream'[r] = "quarantine" /\ tree'[r]["runs"] = tree[r]["runs"]
                         /\ "runs" \in at'[r] <=> "runs" \in at[r]
  <2>1. CASE UNCHANGED <<at, tree, stream, malformed>>
    BY <2>1
  <2>2. CASE job[o] \in Runs /\ Moved(o, job[o])
    BY <1>a, <2>2 DEF Moved, MoveToQuarantine, EvidenceTypes
  <2> QED BY <2>1, <2>2, OperatorEvidence DEF IInv
<1>1. ASSUME NEW r \in Runs PROVE JournalOK(r)'
  <2>1. JournalOK(r)
    BY DEF JournalInv
  <2>2. CASE tree'[r] = tree[r] /\ stream'[r] = stream[r]
    BY <1>a, <2>1, <2>2 DEF JournalOK
  <2>3. CASE stream'[r] = "quarantine"
    BY <1>a, <2>1, <2>3 DEF JournalOK
  <2> QED BY <1>b, <2>2, <2>3
<1>2. \A r \in Runs : "runs" \in at[r] => Sound(tree[r]["runs"], done[r], cancellation[r])
  BY PublishedIsSound DEF JournalInv
<1>3. \A r \in Runs : "runs" \in at'[r] => Sound(tree'[r]["runs"], done'[r], cancellation'[r])
  BY <1>a, <1>b, <1>2
<1>4. PublishedSound'
  BY <1>3 DEF PublishedSound, Sound
<1> QED BY <1>1, <1>4 DEF JournalInv

LEMMA InitJournalInv == Init => JournalInv
<1> SUFFICES ASSUME Init PROVE JournalInv
  OBVIOUS
<1>1. ASSUME NEW r \in Runs PROVE JournalOK(r)
  BY DEF Init, JournalOK, Writing, Trying, Ended
<1>2. PublishedSound
  BY DEF Init, PublishedSound
<1> QED BY <1>1, <1>2 DEF JournalInv

LEMMA NextJournalInv == IInv /\ JournalInv /\ [Next]_vars => JournalInv'
<1> SUFFICES ASSUME IInv, JournalInv, [Next]_vars PROVE JournalInv'
  OBVIOUS
<1>1. CASE UNCHANGED vars
  <2>1. UNCHANGED <<at, tree, stream, cancellation, pc, done, ending>>
    BY <1>1 DEF vars, evidence, owner
  <2> QED BY <2>1 DEF JournalInv, JournalOK, PublishedSound
<1> QED BY <1>1, RunJournalInv, OperateJournalInv DEF Next

(* What is in runs/ is what happened, whoever takes the directory away from under its owner and *)
(* whatever fails: one end, as many points completed as got a response, a dataset for a         *)
(* completed run and for no other, a cancelled run only on request (_publish_terminal and the   *)
(* verifiers of both schemas).                                                                  *)
THEOREM PublishedRunsSound == Spec => []PublishedSound
<1>1. JournalInv => PublishedSound
  BY DEF JournalInv
<1> QED BY <1>1, InitIInv, NextIInv, InitJournalInv, NextJournalInv, PTL DEF Spec
=============================================================================
