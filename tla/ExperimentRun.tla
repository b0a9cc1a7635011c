--------------------------- MODULE ExperimentRun ---------------------------
(***************************************************************************)
(* The experiment runners of src/sqvm/runtime (schema 0.1) and             *)
(* src/sqvm/runtime_v02 (0.2) over one output root and one resource.       *)
(*                                                                         *)
(* An owner reserves a run id and the resource, writes inputs and a        *)
(* journal in a staging directory, runs the points, and publishes the      *)
(* directory; whatever fails ends in a published failed run or leaves      *)
(* staging and locks behind.  Operators of the command line cancel runs,   *)
(* recover interrupted ones (staging moves to quarantine, a recovery       *)
(* record is published), release the resource of a published run whose     *)
(* lock stayed, and rebuild the catalog.                                   *)
(***************************************************************************)
EXTENDS RunEvidence, FiniteSets

CONSTANTS
    Runs,       \* run ids, each with the process that owns it
    Operators,  \* processes of the command line
    Versions,   \* runtime schemas of the output root: {"0.1"}, {"0.2"} or both
    NoRun,      \* holder of a free lock
    Faults,     \* the kinds of failure that may happen: a subset of FaultKinds
    MaxFaults   \* bound on the failures injected and the cancellations requested

(* "hasty": an operator takes a run that is still running for a dead one;                *)
(* "cancel": it asks a run to stop, which is counted with the failures.                   *)
FaultKinds == {"io", "torn", "budget", "point", "crash", "hasty", "cancel"}

ASSUME RunAssumption ==
    /\ NoRun \notin Runs \cup Operators /\ Runs \cap Operators = {}
    /\ Versions \subseteq {"0.1", "0.2"} /\ Versions # {}
    /\ Faults \subseteq FaultKinds /\ MaxFaults \in Nat /\ Points \in Nat \ {0}

VARIABLES
    version,       \* schema of the runs
    at,            \* run -> the places where it has a directory
    tree,          \* run -> place -> what that directory says
    stream,        \* run -> the place of the journal its owner has open
    runLocks,      \* run ids with a run lock file
    resource,      \* the run that the resource lock file names
    cancellation,  \* run -> its cancellation request, "torn" while being written
    pc,            \* run -> where its owner is
    done,          \* run -> points with a response
    ending,        \* run -> the status its owner will publish
    answer,        \* run -> what its caller was told
    recoveryLocks, \* runs with a recovery lock file
    record,        \* run -> the recovery record published for it
    malformed,     \* runs with a record of malformed quarantine
    released,      \* runs with a resource release record
    opc, job,      \* operator -> where it is, and the run it works on
    catalog,       \* entries of the catalog
    catalogLock,   \* holder of the catalog lock
    scanned,       \* operator -> entries of the catalog it rebuilds
    hasty,         \* history: runs recovered while their owner lived
    faults         \* failures and cancellations so far

evidence == <<at, tree, stream>>
locks == <<runLocks, resource, recoveryLocks>>
owner == <<pc, done, ending, answer>>
recovery == <<record, malformed, released, opc, job, hasty>>
index == <<catalog, catalogLock, scanned>>
vars == <<version, evidence, locks, cancellation, owner, recovery, index, faults>>

Places == {"staging", "quarantine", "runs"}
Trying == {"opened", "reserved", "prepared", "boundary", "started", "observed",
           "finalizing", "dataset", "completed"}
Phases == {"idle", "reserving", "locked", "staged", "stopping", "ended", "closed", "published",
           "released", "indexing", "done", "refused", "raised", "dead"} \cup Trying
OperatorPhases == {"idle", "interrupted", "valid", "moved", "recorded", "terminal",
                   "authorised", "unlock", "replacing"}
Entry == Runs \X {"run", "recovery"}

NoRecord == [made |-> FALSE, of |-> Fresh]

Init ==
    /\ version \in Versions
    /\ at = [r \in Runs |-> {}]
    /\ tree = [r \in Runs |-> [p \in Places |-> Fresh]]
    /\ stream = [r \in Runs |-> "staging"]
    /\ runLocks = {} /\ resource = NoRun /\ recoveryLocks = {}
    /\ cancellation = [r \in Runs |-> "none"]
    /\ pc = [r \in Runs |-> "idle"]
    /\ done = [r \in Runs |-> 0]
    /\ ending = [r \in Runs |-> "failed"]
    /\ answer = [r \in Runs |-> "none"]
    /\ record = [r \in Runs |-> NoRecord]
    /\ malformed = {} /\ released = {} /\ hasty = {}
    /\ opc = [o \in Operators |-> "idle"]
    /\ job = [o \in Operators |-> NoRun]
    /\ catalog = {} /\ catalogLock = NoRun
    /\ scanned = [o \in Operators |-> {}]
    /\ faults = 0

-----------------------------------------------------------------------------
Goto(r, phase) == pc' = [pc EXCEPT ![r] = phase]

Fault(kind) == kind \in Faults /\ faults < MaxFaults /\ faults' = faults + 1

Gone(r) == pc[r] \in {"done", "refused", "raised", "dead"}

Verified(t) == IF version = "0.1" THEN Verified01(t) ELSE Verified02(t)

(* EventJournal.append: to the file that was opened, wherever its directory is now. *)
Append_(r, e) ==
    /\ tree' = [tree EXCEPT ![r][stream[r]].events = Append(@, e)]
    /\ UNCHANGED <<at, stream>>

(* The step stops in the except clause of the runner with this status. *)
Stop(r, status) ==
    /\ Goto(r, "stopping")
    /\ ending' = [ending EXCEPT ![r] = status]

-----------------------------------------------------------------------------
(* create_run_locks: the run lock first. *)
Reserve(r) ==
    /\ pc[r] = "idle"
    /\ runLocks' = runLocks \cup {r}
    /\ Goto(r, "reserving")
    /\ UNCHANGED <<version, evidence, resource, recoveryLocks, cancellation, done, ending, answer,
                   recovery, index, faults>>

(* create_run_locks: then the resource lock, or neither. *)
TakeResource(r) ==
    /\ pc[r] = "reserving"
    /\ \/ /\ resource = NoRun
          /\ resource' = r /\ Goto(r, "locked")
          /\ UNCHANGED runLocks
       \/ /\ resource # NoRun
          /\ runLocks' = runLocks \ {r} /\ Goto(r, "refused")
          /\ UNCHANGED resource
    /\ UNCHANGED <<version, evidence, recoveryLocks, cancellation, done, ending, answer,
                   recovery, index, faults>>

(* The staging directory is made; on failure the reservation is taken back. *)
MakeStaging(r) ==
    /\ pc[r] = "locked"
    /\ \/ /\ at' = [at EXCEPT ![r] = @ \cup {"staging"}]
          /\ Goto(r, "staged")
          /\ UNCHANGED <<tree, stream, runLocks, resource, faults>>
       \/ /\ Fault("io")
          /\ resource' = NoRun /\ runLocks' = runLocks \ {r} /\ Goto(r, "refused")
          /\ UNCHANGED evidence
    /\ UNCHANGED <<version, recoveryLocks, cancellation, done, ending, answer, recovery, index>>

(* Request, point table, snapshots and the empty journal, which is opened where staging is   *)
(* now; every write makes its parents.                                                       *)
WriteInputs(r) ==
    /\ pc[r] = "staged"
    /\ at' = [at EXCEPT ![r] = @ \cup {"staging"}]
    /\ tree' = [tree EXCEPT ![r]["staging"] = [Fresh EXCEPT !.inputs = TRUE]]
    /\ stream' = [stream EXCEPT ![r] = "staging"]
    /\ Goto(r, "opened")
    /\ UNCHANGED <<version, locks, cancellation, done, ending, answer, recovery, index, faults>>

(* Without a journal the runner raises: schema 0.2 gives the resource back, schema 0.1 keeps it. *)
InputsFail(r) ==
    /\ pc[r] = "staged"
    /\ Fault("io")
    /\ Goto(r, "raised")
    /\ resource' = IF version = "0.2" THEN NoRun ELSE resource
    /\ UNCHANGED <<version, evidence, runLocks, recoveryLocks, cancellation, done, ending, answer,
                   recovery, index>>

(* run_reserved, run_prepared and run_started. *)
Begin(r) ==
    /\ \/ pc[r] = "opened" /\ Append_(r, "run_reserved") /\ Goto(r, "reserved")
       \/ pc[r] = "reserved" /\ Append_(r, "run_prepared") /\ Goto(r, "prepared")
       \/ /\ pc[r] = "prepared" /\ cancellation[r] = "none"
          /\ Append_(r, "run_started") /\ Goto(r, "boundary")
    /\ UNCHANGED <<version, locks, cancellation, done, ending, answer, recovery, index, faults>>

(* Where _observe_cancellation is called: schema 0.2 does not look after a point. *)
Observing(r) ==
    \/ pc[r] = "prepared"
    \/ pc[r] = "boundary" /\ done[r] < Points
    \/ pc[r] = "observed" /\ version = "0.1"

(* _observe_cancellation: a request is honoured, a half-written one fails the run. *)
ObserveCancellation(r) ==
    /\ Observing(r)
    /\ \/ /\ cancellation[r] = "whole"
          /\ Append_(r, "cancel_requested") /\ Stop(r, "cancelled")
       \/ /\ cancellation[r] = "torn"
          /\ Stop(r, "failed") /\ UNCHANGED evidence
    /\ UNCHANGED <<version, locks, cancellation, done, answer, recovery, index, faults>>

StartPoint(r) ==
    /\ pc[r] = "boundary" /\ done[r] < Points /\ cancellation[r] = "none"
    /\ Append_(r, "point_started") /\ Goto(r, "started")
    /\ UNCHANGED <<version, locks, cancellation, done, ending, answer, recovery, index, faults>>

(* budget.before_point raises outside the clause that writes point_failed. *)
RunBudgetExceeded(r) ==
    /\ pc[r] = "started"
    /\ Fault("budget")
    /\ Stop(r, "failed")
    /\ UNCHANGED <<version, evidence, locks, cancellation, done, answer, recovery, index>>

RunPoint(r) ==
    /\ pc[r] = "started"
    /\ Append_(r, "point_completed")
    /\ done' = [done EXCEPT ![r] = @ + 1]
    /\ Goto(r, "observed")
    /\ UNCHANGED <<version, locks, cancellation, ending, answer, recovery, index, faults>>

(* compile_point_v02, the backend of 0.1, or the point budget fails. *)
PointFails(r) ==
    /\ pc[r] = "started"
    /\ Fault("point")
    /\ Append_(r, "point_failed") /\ Stop(r, "failed")
    /\ UNCHANGED <<version, locks, cancellation, done, answer, recovery, index>>

NextPoint(r) ==
    /\ pc[r] = "observed"
    /\ version = "0.1" => cancellation[r] = "none"
    /\ Goto(r, "boundary")
    /\ UNCHANGED <<version, evidence, locks, cancellation, done, ending, answer, recovery, index, faults>>

(* run_finalizing: from here on no cancellation is observed. *)
Finalize(r) ==
    /\ pc[r] = "boundary" /\ done[r] = Points
    /\ Append_(r, "run_finalizing") /\ Goto(r, "finalizing")
    /\ UNCHANGED <<version, locks, cancellation, done, ending, answer, recovery, index, faults>>

(* The dataset directory: without its parent it cannot be made. *)
WriteData(r) ==
    /\ pc[r] = "finalizing"
    /\ IF "staging" \in at[r]
       THEN /\ tree' = [tree EXCEPT ![r]["staging"].data = "whole"]
            /\ Goto(r, "dataset") /\ UNCHANGED ending
       ELSE Stop(r, "failed") /\ UNCHANGED tree
    /\ UNCHANGED <<version, at, stream, locks, cancellation, done, answer, recovery, index, faults>>

Complete(r) ==
    /\ pc[r] = "dataset"
    /\ Append_(r, "run_completed") /\ Goto(r, "completed")
    /\ ending' = [ending EXCEPT ![r] = "completed"]
    /\ UNCHANGED <<version, locks, cancellation, done, answer, recovery, index, faults>>

(* What the terminal documents say when n of them are there. *)
Bound(t, r, n) == [t EXCEPT !.docs = n, !.status = ending[r], !.sealed = Len(t.events)]

(* A step stops in the middle of a line, of the dataset or of the terminal documents. *)
HalfWritten(r) ==
    \/ /\ "torn" \in Faults /\ pc[r] \in Trying \cup {"stopping"}
       /\ tree' = [tree EXCEPT ![r][stream[r]].torn = TRUE]
    \/ /\ pc[r] = "finalizing" /\ "staging" \in at[r]
       /\ \E d \in {"torn", "binary"} : tree' = [tree EXCEPT ![r]["staging"].data = d]
    \/ /\ pc[r] = "closed" /\ "staging" \in at[r] /\ tree[r]["staging"].docs = 0
       /\ tree' = [tree EXCEPT ![r]["staging"] = Bound(@, r, 1)]

(* A step of the try block raises: an append may have left its line, or half of it. *)
Fails(r) ==
    /\ pc[r] \in Trying
    /\ Fault("io")
    /\ Stop(r, "failed")
    /\ UNCHANGED tree \/ HalfWritten(r)
    /\ UNCHANGED <<version, at, stream, locks, cancellation, done, answer, recovery, index>>

(* After the except clause: results are removed and the terminal event is written. *)
StopRun(r) ==
    /\ pc[r] = "stopping"
    /\ tree' = [tree EXCEPT ![r]["staging"].data = IF "staging" \in at[r] THEN "none" ELSE @,
                            ![r][stream[r]].events = Append(@, TerminalEvent[ending[r]])]
    /\ Goto(r, "ended")
    /\ UNCHANGED <<version, at, stream, locks, cancellation, done, ending, answer, recovery, index, faults>>

(* journal.close: the stream is closed, then the file is read again by its path. *)
Close(r) ==
    /\ pc[r] \in {"completed", "ended"}
    /\ Goto(r, IF stream[r] = "staging" THEN "closed" ELSE "raised")
    /\ UNCHANGED <<version, evidence, locks, cancellation, done, ending, answer, recovery, index, faults>>

(* _publish_terminal: the manifest, the report and the receipt; the dataset of a completed run is hashed. *)
WriteDocuments(r) ==
    LET t == tree[r]["staging"] IN
    /\ pc[r] = "closed" /\ t.docs = 0
    /\ ending[r] = "completed" => t.data = "whole"
    /\ at' = [at EXCEPT ![r] = @ \cup {"staging"}]
    /\ tree' = [tree EXCEPT ![r]["staging"] = Bound(t, r, 3)]
    /\ UNCHANGED <<version, stream, locks, cancellation, owner, recovery, index, faults>>

(* Bug: the staging directory is renamed without its verification. *)
PublishUnverified(r) ==
    /\ pc[r] = "closed" /\ tree[r]["staging"].docs = 3
    /\ "staging" \in at[r]
    /\ at' = [at EXCEPT ![r] = (@ \ {"staging"}) \cup {"runs"}]
    /\ tree' = [tree EXCEPT ![r]["runs"] = tree[r]["staging"], ![r]["staging"] = Fresh]
    /\ Goto(r, "published")
    /\ UNCHANGED <<version, stream, locks, cancellation, done, ending, answer, recovery, index, faults>>

(* The verification before the rename, the one after it, and the rename itself. *)
Publish(r) ==
    /\ pc[r] = "closed" /\ tree[r]["staging"].docs = 3
    /\ "staging" \in at[r] /\ Verified(tree[r]["staging"])
    /\ at' = [at EXCEPT ![r] = (@ \ {"staging"}) \cup {"runs"}]
    /\ tree' = [tree EXCEPT ![r]["runs"] = tree[r]["staging"], ![r]["staging"] = Fresh]
    /\ Goto(r, "published")
    /\ UNCHANGED <<version, stream, locks, cancellation, done, ending, answer, recovery, index, faults>>

(* Bug: a refused publication gives the resource back. *)
PublishRefusedReleasing(r) ==
    LET t == tree[r]["staging"] IN
    /\ pc[r] = "closed"
    /\ \/ t.docs = 3 /\ ~("staging" \in at[r] /\ Verified(t))
       \/ t.docs = 0 /\ ending[r] = "completed" /\ t.data # "whole"
    /\ Goto(r, "raised") /\ resource' = NoRun
    /\ UNCHANGED <<version, evidence, runLocks, recoveryLocks, cancellation, done, ending, answer,
                   recovery, index, faults>>

(* What does not verify, or no longer is there, is not published: staging and locks stay. *)
PublishRefused(r) ==
    LET t == tree[r]["staging"] IN
    /\ pc[r] = "closed"
    /\ \/ t.docs = 3 /\ ~("staging" \in at[r] /\ Verified(t))
       \/ t.docs = 0 /\ ending[r] = "completed" /\ t.data # "whole"
    /\ Goto(r, "raised")
    /\ UNCHANGED <<version, evidence, locks, cancellation, done, ending, answer, recovery, index, faults>>

(* remove_resource_lock: the file is unlinked by its name. *)
Release(r) ==
    /\ pc[r] = "published"
    /\ IF resource = NoRun THEN Goto(r, "raised") ELSE Goto(r, "released")
    /\ resource' = NoRun
    /\ UNCHANGED <<version, evidence, runLocks, recoveryLocks, cancellation, done, ending, answer,
                   recovery, index, faults>>

(* index_run: a busy catalog is a warning in the answer. *)
IndexRun(r) ==
    /\ \/ /\ pc[r] = "released" /\ catalogLock = NoRun
          /\ catalogLock' = r /\ Goto(r, "indexing")
          /\ UNCHANGED <<catalog, answer>>
       \/ /\ pc[r] = "released" /\ catalogLock # NoRun
          /\ answer' = [answer EXCEPT ![r] = "unindexed"] /\ Goto(r, "done")
          /\ UNCHANGED <<catalog, catalogLock>>
       \/ /\ pc[r] = "indexing"
          /\ catalog' = catalog \cup {<<r, "run">>} /\ catalogLock' = NoRun
          /\ answer' = [answer EXCEPT ![r] = "indexed"] /\ Goto(r, "done")
    /\ UNCHANGED <<version, evidence, locks, cancellation, done, ending, recovery, scanned, faults>>

(* A step outside the try block raises to the caller: nothing is taken back. *)
Raises(r) ==
    /\ pc[r] \in {"stopping", "ended", "closed", "published"}
    /\ Fault("io")
    /\ Goto(r, "raised")
    /\ UNCHANGED tree \/ HalfWritten(r)
    /\ UNCHANGED <<version, at, stream, locks, cancellation, done, ending, answer, recovery, index>>

(* The process is killed: a line, the dataset or a document may be half written. *)
Crash(r) ==
    /\ ~Gone(r) /\ pc[r] # "idle"
    /\ Fault("crash")
    /\ Goto(r, "dead")
    /\ UNCHANGED tree \/ HalfWritten(r)
    /\ UNCHANGED <<version, at, stream, locks, cancellation, done, ending, answer, recovery, index>>

-----------------------------------------------------------------------------
(* request_run_cancellation: a reserved run with a staging directory, once; then the file is filled. *)
RequestCancellation(r) ==
    /\ \/ /\ cancellation[r] = "none"
          /\ Fault("cancel")
          /\ r \in runLocks /\ "runs" \notin at[r] /\ "staging" \in at[r]
          /\ cancellation' = [cancellation EXCEPT ![r] = "torn"]
       \/ cancellation[r] = "torn" /\ cancellation' = [cancellation EXCEPT ![r] = "whole"] /\ UNCHANGED faults
    /\ UNCHANGED <<version, evidence, locks, owner, recovery, index>>

-----------------------------------------------------------------------------
OGoto(o, phase) == opc' = [opc EXCEPT ![o] = phase]

(* The call of an operator ends; whether its recovery lock goes is up to the caller of this. *)
Leave(o) ==
    /\ opc' = [opc EXCEPT ![o] = "idle"]
    /\ job' = [job EXCEPT ![o] = NoRun]

Unlock(o) == recoveryLocks' = recoveryLocks \ {job[o]}

(* _acquire_recovery_lock: for a run whose owner is gone, or looks as if it were. *)
CallRecovery(o, r, phase) ==
    /\ opc[o] = "idle" /\ phase \in {"interrupted", "terminal"}
    /\ r \in runLocks /\ r \notin recoveryLocks
    /\ \/ Gone(r) /\ UNCHANGED <<hasty, faults>>
       \/ ~Gone(r) /\ Fault("hasty") /\ hasty' = hasty \cup {r}
    /\ recoveryLocks' = recoveryLocks \cup {r}
    /\ OGoto(o, phase) /\ job' = [job EXCEPT ![o] = r]
    /\ UNCHANGED <<version, evidence, runLocks, resource, cancellation, owner, record, malformed,
                   released, index>>

(* A second recovery finds the record of the first: the resource goes if it is still this run's. *)
FinishRecovery(o) ==
    LET r == job[o] IN
    /\ opc[o] = "interrupted" /\ record[r].made
    /\ \/ /\ resource \in {r, NoRun}
          /\ resource' = NoRun /\ OGoto(o, "unlock") /\ UNCHANGED <<job, recoveryLocks>>
       \/ /\ resource \notin {r, NoRun}
          /\ Leave(o) /\ Unlock(o) /\ UNCHANGED resource
    /\ UNCHANGED <<version, evidence, runLocks, cancellation, owner, record, malformed, released,
                   hasty, index, faults>>

(* The directory a recovery works on. *)
Source(r) == IF "staging" \in at[r] THEN "staging" ELSE "quarantine"

PrefixHolds(t) == IF version = "0.1" THEN Prefix01(t) ELSE PrefixOf02(t)

(* _verify_interrupted_prefix with the live locks. *)
Recoverable(r) ==
    /\ Source(r) \in at[r] /\ PrefixHolds(tree[r][Source(r)])
    /\ resource = r
    /\ r \notin malformed

CheckPrefix(o) ==
    /\ opc[o] = "interrupted" /\ ~record[job[o]].made
    /\ Recoverable(job[o])
    /\ OGoto(o, "valid")
    /\ UNCHANGED <<version, evidence, locks, cancellation, owner, record, malformed, released, job,
                   hasty, index, faults>>

(* The rename to a quarantine that must not be there; an open journal moves along. *)
MoveToQuarantine(r) ==
    /\ at' = [at EXCEPT ![r] = (@ \ {"staging"}) \cup {"quarantine"}]
    /\ tree' = [tree EXCEPT ![r]["quarantine"] = tree[r]["staging"], ![r]["staging"] = Fresh]
    /\ stream' = [stream EXCEPT ![r] = "quarantine"]

(* Bug: a staging directory that is gone is taken to be in quarantine. *)
QuarantineAssumed(o) ==
    LET r == job[o] IN
    /\ opc[o] = "valid"
    /\ IF "staging" \in at[r]
       THEN "quarantine" \notin at[r] /\ MoveToQuarantine(r)
       ELSE UNCHANGED evidence
    /\ OGoto(o, "moved")
    /\ UNCHANGED <<version, locks, cancellation, owner, record, malformed, released, job,
                   hasty, index, faults>>

Quarantine(o) ==
    LET r == job[o] IN
    /\ opc[o] = "valid"
    /\ \/ /\ "staging" \in at[r] /\ "quarantine" \notin at[r]
          /\ MoveToQuarantine(r) /\ OGoto(o, "moved") /\ UNCHANGED <<job, recoveryLocks>>
       \/ /\ "staging" \notin at[r] /\ "quarantine" \in at[r]
          /\ OGoto(o, "moved") /\ UNCHANGED <<evidence, job, recoveryLocks>>
       \/ /\ ("staging" \in at[r]) <=> ("quarantine" \in at[r])
          /\ Leave(o) /\ Unlock(o) /\ UNCHANGED evidence
    /\ UNCHANGED <<version, runLocks, resource, cancellation, owner, record, malformed, released,
                   hasty, index, faults>>

(* _quarantine_malformed, or a raise that keeps the recovery lock: no prefix was valid. *)
RefusePrefix(o) ==
    LET r == job[o] IN
    /\ opc[o] = "interrupted" /\ ~record[r].made
    /\ ~Recoverable(r)
    /\ IF "staging" \in at[r] /\ "quarantine" \notin at[r]
       THEN malformed' = malformed \cup {r} /\ MoveToQuarantine(r)
       ELSE UNCHANGED <<malformed, evidence>>
    /\ Leave(o)
    /\ UNCHANGED <<version, locks, cancellation, owner, record, released, hasty, index, faults>>

(* The recovery record, with the inventory of the quarantine, is published and verified. *)
PublishRecord(o) ==
    /\ opc[o] = "moved"
    /\ record' = [record EXCEPT ![job[o]] = [made |-> TRUE, of |-> tree[job[o]]["quarantine"]]]
    /\ OGoto(o, "recorded")
    /\ UNCHANGED <<version, evidence, locks, cancellation, owner, malformed, released, job, hasty,
                   index, faults>>

(* remove_resource_lock of a recovery, by name; a lock that is gone is an error of a valid prefix. *)
ReleaseRecovered(o) ==
    /\ opc[o] = "recorded"
    /\ resource' = NoRun
    /\ IF resource = NoRun
       THEN Leave(o) /\ Unlock(o)
       ELSE OGoto(o, "unlock") /\ UNCHANGED <<job, recoveryLocks>>
    /\ UNCHANGED <<version, evidence, runLocks, cancellation, owner, record, malformed, released,
                   hasty, index, faults>>

(* recovery_lock.unlink, and index_recovery_record when there is a new record. *)
EndRecovery(o) ==
    LET r == job[o] IN
    /\ opc[o] = "unlock"
    /\ Unlock(o) /\ Leave(o)
    /\ \/ UNCHANGED catalog
       \/ record[r].made /\ catalogLock = NoRun /\ catalog' = catalog \cup {<<r, "recovery">>}
    /\ UNCHANGED <<version, evidence, runLocks, resource, cancellation, owner, record, malformed,
                   released, hasty, catalogLock, scanned, faults>>

-----------------------------------------------------------------------------
(* Bug: whose lock it is goes unchecked. *)
TerminalRecoverableAny(r) ==
    /\ "runs" \in at[r] /\ Verified(tree[r]["runs"])
    /\ "staging" \notin at[r]
    /\ resource # NoRun

(* What recover_terminal_resource_lock demands before it touches the lock. *)
TerminalRecoverable(r) ==
    /\ "runs" \in at[r] /\ Verified(tree[r]["runs"])
    /\ "staging" \notin at[r]
    /\ resource = r

Authorise(o) ==
    LET r == job[o] IN
    /\ opc[o] = "terminal"
    /\ IF TerminalRecoverable(r)
       THEN /\ released' = released \cup {r} /\ OGoto(o, "authorised")
            /\ UNCHANGED <<job, recoveryLocks>>
       ELSE Leave(o) /\ Unlock(o) /\ UNCHANGED released
    /\ UNCHANGED <<version, evidence, runLocks, resource, cancellation, owner, record, malformed,
                   hasty, index, faults>>

(* recover_terminal_resource_lock removes the lock by its name. *)
ReleaseTerminal(o) ==
    /\ opc[o] = "authorised"
    /\ resource' = NoRun
    /\ IF resource = NoRun
       THEN Leave(o) /\ Unlock(o)
       ELSE OGoto(o, "unlock") /\ UNCHANGED <<job, recoveryLocks>>
    /\ UNCHANGED <<version, evidence, runLocks, cancellation, owner, record, malformed, released,
                   hasty, index, faults>>

(* Any step of a recovery past its checks raises: its recovery lock is removed. *)
RecoveryFails(o) ==
    /\ opc[o] \in {"valid", "moved", "recorded", "terminal", "authorised"}
    /\ Fault("io")
    /\ Leave(o) /\ Unlock(o)
    /\ UNCHANGED <<version, evidence, runLocks, resource, cancellation, owner, record, malformed,
                   released, hasty, index>>

(* An operator is killed: its recovery lock and the catalog lock stay. *)
OperatorCrash(o) ==
    /\ opc[o] # "idle"
    /\ Fault("crash")
    /\ Leave(o)
    /\ scanned' = [scanned EXCEPT ![o] = {}]
    /\ UNCHANGED <<version, evidence, locks, cancellation, owner, record, malformed, released, hasty,
                   catalog, catalogLock>>

-----------------------------------------------------------------------------
(* What a rebuild finds in runs/: recovery records and runs that verify. *)
Listed == {<<r, "run">> : r \in {q \in Runs : "runs" \in at[q] /\ Verified(tree[q]["runs"])}}
          \cup {<<r, "recovery">> : r \in {q \in Runs : record[q].made}}

(* Bug: a rebuild that does not take the catalog lock. *)
RebuildUnlocked(o) ==
    /\ \/ /\ opc[o] = "idle"
          /\ OGoto(o, "replacing")
          /\ scanned' = [scanned EXCEPT ![o] = Listed]
          /\ UNCHANGED catalog
       \/ /\ opc[o] = "replacing"
          /\ catalog' = scanned[o]
          /\ scanned' = [scanned EXCEPT ![o] = {}] /\ OGoto(o, "idle")
    /\ UNCHANGED <<version, evidence, locks, cancellation, owner, record, malformed, released, job,
                   hasty, catalogLock, faults>>

(* rebuild_run_catalog holds the catalog lock while it scans and replaces. *)
Rebuild(o) ==
    /\ \/ /\ opc[o] = "idle" /\ catalogLock = NoRun
          /\ catalogLock' = o /\ OGoto(o, "replacing")
          /\ scanned' = [scanned EXCEPT ![o] = Listed]
          /\ UNCHANGED catalog
       \/ /\ opc[o] = "replacing"
          /\ catalog' = scanned[o] /\ catalogLock' = NoRun
          /\ scanned' = [scanned EXCEPT ![o] = {}] /\ OGoto(o, "idle")
    /\ UNCHANGED <<version, evidence, locks, cancellation, owner, record, malformed, released, job,
                   hasty, faults>>

-----------------------------------------------------------------------------
Run(r) ==
    \/ Reserve(r) \/ TakeResource(r) \/ MakeStaging(r) \/ WriteInputs(r) \/ InputsFail(r)
    \/ Begin(r) \/ ObserveCancellation(r) \/ StartPoint(r) \/ RunBudgetExceeded(r) \/ RunPoint(r)
    \/ PointFails(r) \/ NextPoint(r) \/ Finalize(r) \/ WriteData(r) \/ Complete(r) \/ Fails(r)
    \/ StopRun(r) \/ Close(r) \/ WriteDocuments(r) \/ Publish(r) \/ PublishRefused(r) \/ Release(r)
    \/ IndexRun(r) \/ Raises(r) \/ Crash(r) \/ RequestCancellation(r)

Operate(o) ==
    \/ \E r \in Runs, phase \in OperatorPhases : CallRecovery(o, r, phase)
    \/ FinishRecovery(o) \/ CheckPrefix(o) \/ Quarantine(o) \/ RefusePrefix(o) \/ PublishRecord(o)
    \/ ReleaseRecovered(o) \/ EndRecovery(o) \/ Authorise(o) \/ ReleaseTerminal(o)
    \/ RecoveryFails(o) \/ OperatorCrash(o) \/ Rebuild(o)

Next == (\E r \in Runs : Run(r)) \/ (\E o \in Operators : Operate(o))

Spec == Init /\ [][Next]_vars

-----------------------------------------------------------------------------
(* Every variable has its type. *)
TypeOK ==
    /\ version \in Versions
    /\ at \in [Runs -> SUBSET Places]
    /\ tree \in [Runs -> [Places -> Tree]]
    /\ stream \in [Runs -> {"staging", "quarantine"}]
    /\ runLocks \subseteq Runs /\ recoveryLocks \subseteq Runs /\ resource \in Runs \cup {NoRun}
    /\ cancellation \in [Runs -> {"none", "torn", "whole"}]
    /\ pc \in [Runs -> Phases] /\ done \in [Runs -> 0..Points] /\ ending \in [Runs -> Statuses]
    /\ answer \in [Runs -> {"none", "indexed", "unindexed"}]
    /\ record \in [Runs -> [made: BOOLEAN, of: Tree]]
    /\ malformed \subseteq Runs /\ released \subseteq Runs /\ hasty \subseteq Runs
    /\ opc \in [Operators -> OperatorPhases] /\ job \in [Operators -> Runs \cup {NoRun}]
    /\ catalog \subseteq Entry /\ catalogLock \in Runs \cup Operators \cup {NoRun}
    /\ scanned \in [Operators -> SUBSET Entry]
    /\ faults \in 0..MaxFaults

(* The owner is between the resource lock and its release. *)
Inside(r) == pc[r] \in (Phases \ {"idle", "reserving", "released", "indexing", "done"}) /\ ~Gone(r)

(* Two live runs never use the resource at once, and the one that does is named in its lock, *)
(* as long as nobody recovered a run that was alive (create_run_locks, both recoveries).     *)
ResourceExclusive == hasty = {} => \A r \in Runs : Inside(r) => resource = r

(* How often an event occurs in a journal. *)
Occurrences(events, e) == Cardinality({i \in DOMAIN events : events[i] = e})

(* What is in runs/ is what happened, also when its directory was taken from under its owner:  *)
(* the journal ends with the status and is bound whole, as many points are completed as got a *)
(* response, a dataset is there for a completed run and for no other, and a run is cancelled  *)
(* only on request (_publish_terminal and the two verifiers).                                 *)
PublishedSound ==
    \A r \in Runs : "runs" \in at[r] =>
        LET t == tree[r]["runs"] IN
            /\ t.sealed = Len(t.events) /\ ~t.torn
            /\ \A e \in Terminals : Occurrences(t.events, e) = IF e = TerminalEvent[t.status] THEN 1 ELSE 0
            /\ Occurrences(t.events, "point_completed") = done[r]
            /\ (t.status = "completed") <=> (t.data = "whole")
            /\ t.status = "completed" => done[r] = Points /\ Occurrences(t.events, "cancel_requested") = 0
            /\ t.status = "cancelled" => cancellation[r] = "whole"

(* A run ends once: a recovery record is never there for a published run, and until someone  *)
(* recovers a live run, what it says of the quarantine stays true (recover_interrupted_run). *)
RecordTrue ==
    \A r \in Runs : record[r].made =>
        /\ "runs" \notin at[r]
        /\ hasty = {} => "quarantine" \in at[r] /\ tree[r]["quarantine"] = record[r].of

(* The resource leaves a run only when the run is published, or recorded as interrupted, or *)
(* never wrote an event: otherwise the lock stays for a recovery (section 8 of the design). *)
LockOutlivesRun ==
    [][\A r \in Runs : hasty = {} /\ resource = r /\ resource' # r =>
           \/ "runs" \in at[r] \/ record[r].made
           \/ \A p \in Places : tree[r][p].events = <<>>]_vars

(* A run whose caller was told that it is indexed stays in the catalog, whatever rebuild runs at *)
(* the same time, and nothing is listed that is not there (index_run, rebuild_run_catalog).      *)
IndexedStays ==
    /\ \A r \in Runs : answer[r] = "indexed" => <<r, "run">> \in catalog
    /\ \A e \in catalog : IF e[2] = "run" THEN "runs" \in at[e[1]] ELSE record[e[1]].made
=============================================================================
