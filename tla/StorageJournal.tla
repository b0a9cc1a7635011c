-------------------------- MODULE StorageJournal --------------------------
(***************************************************************************)
(* The journal of src/sqvm/storage/lifecycle.py, for one run: a chain of    *)
(* events, one file each, from which the head is computed.  An append reads *)
(* the head, takes the O_EXCL lock file, compares the head with the one its *)
(* caller expects, applies the transition table and writes the event.       *)
(* A lock file outlives the process that made it until an explicit recovery *)
(* removes it.                                                              *)
(***************************************************************************)
EXTENDS Naturals

CONSTANTS
    Callers,   \* processes that operate on the run
    Nobody,    \* no lock file
    Dead,      \* a lock file whose owner is gone
    Faults,    \* the kinds of failure that may happen: a subset of FaultKinds
    MaxFaults  \* bound on the failures injected

(* io: a step raises.  part: the removal of a tree stops half way.  late:   *)
(* the flush that follows the removal of the lock fails.  crash: a kill.    *)
FaultKinds == {"io", "part", "late", "crash"}

ASSUME JournalAssumption ==
    /\ Nobody \notin Callers /\ Dead \notin Callers /\ Nobody # Dead
    /\ Faults \subseteq FaultKinds /\ MaxFaults \in Nat

VARIABLES
    journal,    \* the head that the events on the disk amount to
    locked,     \* owner of the lock file
    pc,         \* where each caller is
    log,        \* the append each caller is making
    operation,  \* the operation id each caller writes its events under
    faults      \* failures injected

States == {"none", "hot", "archiving", "archived_duplicate", "archived", "trash"}

(* event type |-> states it may leave, states it may enter (_apply). An     *)
(* operation id is the revision at which the operation was started.         *)
Placed == {"hot", "archived_duplicate", "archived"}
Transitions ==
    [hot_discovered            |-> {"none"} \X {"hot"},
     keep_changed              |-> (Placed \cup {"trash"}) \X (Placed \cup {"trash"}),
     archive_started           |-> {"hot"} \X {"archiving"},
     archive_verified          |-> {"archiving"} \X {"archived_duplicate"},
     archive_failed            |-> {"archiving"} \X {"hot"},
     hot_cleanup_started       |-> {"archived_duplicate"} \X {"archived_duplicate"},
     hot_cleanup_completed     |-> {"archived_duplicate"} \X {"archived"},
     hot_cleanup_failed        |-> {"archived_duplicate"} \X {"archived_duplicate"},
     archive_restore_started   |-> {"archived"} \X {"archiving"},
     archive_restore_completed |-> {"archiving"} \X {"hot"},
     archive_restore_failed    |-> {"archiving"} \X {"archived"},
     trash_started             |-> Placed \X Placed,
     trashed                   |-> Placed \X {"trash"},
     trash_failed              |-> Placed \X Placed,
     trash_restored            |-> {"trash"} \X Placed]

Starts == {"archive_started", "hot_cleanup_started", "archive_restore_started",
           "trash_started"}

Completes ==
    [archive_verified          |-> "archive_started",
     archive_failed            |-> "archive_started",
     hot_cleanup_completed     |-> "hot_cleanup_started",
     hot_cleanup_failed        |-> "hot_cleanup_started",
     archive_restore_completed |-> "archive_restore_started",
     archive_restore_failed    |-> "archive_restore_started",
     trashed                   |-> "trash_started",
     trash_failed              |-> "trash_started"]

LifecycleHead ==
    [state: States, keep: BOOLEAN, previous: States, revision: Nat,
     pending: Starts \cup {"none"}, operation: Nat]

NoHead == [state |-> "none", keep |-> FALSE, previous |-> "none", revision |-> 0,
           pending |-> "none", operation |-> 0]

NoLog == [type |-> "none"]

-----------------------------------------------------------------------------
(* Bug: an operation may start while another is pending. *)
AppliesOverlapping(j, e, o) ==
    /\ e.from = j.state /\ <<e.from, e.to>> \in Transitions[e.type]
    /\ e.type \in DOMAIN Completes => j.pending = Completes[e.type] /\ j.operation = o
    /\ e.type = "trash_restored" => e.to = j.previous

Applies(j, e, o) ==
    /\ e.from = j.state /\ <<e.from, e.to>> \in Transitions[e.type]
    /\ e.type \in Starts => j.pending = "none"
    /\ e.type \in DOMAIN Completes => j.pending = Completes[e.type] /\ j.operation = o
    /\ e.type = "trash_restored" => e.to = j.previous

Apply(j, e) ==
    [state     |-> e.to,
     keep      |-> IF e.type = "keep_changed" THEN e.keep ELSE j.keep,
     previous  |-> CASE e.type = "trashed" -> e.from
                     [] e.type = "trash_restored" -> "none"
                     [] OTHER -> j.previous,
     revision  |-> j.revision + 1,
     pending   |-> CASE e.type \in Starts -> e.type
                     [] e.type \in DOMAIN Completes -> "none"
                     [] OTHER -> j.pending,
     operation |-> CASE e.type \in Starts -> j.revision
                     [] e.type \in DOMAIN Completes -> 0
                     [] OTHER -> j.operation]

Goto(c, phase) == pc' = [pc EXCEPT ![c] = phase]
At(c, phase) == pc[c] = phase
Fault(kind) == kind \in Faults /\ faults < MaxFaults /\ faults' = faults + 1

(* The append of c ended: the lines after it, or its exception handler. *)
Appended(c) == Goto(c, log[c].then) /\ log' = [log EXCEPT ![c] = NoLog]
NotAppended(c) == Goto(c, log[c].else) /\ log' = [log EXCEPT ![c] = NoLog]

(* _acquire_lock: an existing lock file, whoever left it, is a conflict. *)
Acquire(c) ==
    /\ At(c, "acquire") /\ locked = Nobody
    /\ locked' = c
    /\ Goto(c, "write")
    /\ UNCHANGED <<journal, log, operation, faults>>

Busy(c) ==
    /\ At(c, "acquire") /\ locked # Nobody
    /\ NotAppended(c)
    /\ UNCHANGED <<journal, locked, operation, faults>>

(* The lock file was created and its write failed: nobody removes it. *)
AcquireError(c) ==
    /\ At(c, "acquire") /\ locked = Nobody /\ Fault("io")
    /\ locked' = c
    /\ NotAppended(c)
    /\ UNCHANGED <<journal, operation>>

Agreed(c) ==
    journal.revision = log[c].expects /\ Applies(journal, log[c], operation[c])

(* An operation started gets its id; the code chose it before. *)
Write(c) ==
    /\ At(c, "write") /\ Agreed(c)
    /\ journal' = Apply(journal, log[c])
    /\ operation' = IF log[c].type \in Starts
                    THEN [operation EXCEPT ![c] = journal.revision] ELSE operation
    /\ Goto(c, "release")
    /\ UNCHANGED <<locked, log, faults>>

(* LifecycleConflict, an illegal transition or an error of the write. *)
NotWritten(c) ==
    /\ At(c, "write")
    /\ \/ ~Agreed(c) /\ UNCHANGED faults
       \/ Fault("io")
    /\ locked' = IF locked = c THEN Nobody ELSE locked
    /\ NotAppended(c)
    /\ UNCHANGED <<journal, operation>>

Release(c) ==
    /\ At(c, "release") /\ locked = c
    /\ locked' = Nobody
    /\ Appended(c)
    /\ UNCHANGED <<journal, operation, faults>>

(* Someone removed the lock file meanwhile, or the flush failed after it    *)
(* was removed: the event is there and the caller is told that it is not.   *)
ReleaseError(c) ==
    /\ At(c, "release")
    /\ \/ locked # c /\ UNCHANGED <<locked, faults>>
       \/ locked = c /\ Fault("late") /\ locked' = Nobody
    /\ NotAppended(c)
    /\ UNCHANGED <<journal, operation>>

AppendEvent(c) ==
    \/ Acquire(c) \/ Busy(c) \/ AcquireError(c) \/ Write(c) \/ NotWritten(c)
    \/ Release(c) \/ ReleaseError(c)

(* recover_stale_lock: identity, owner and bytes are checked, then the lock *)
(* file is removed by name.                                                 *)
RecoverLock(c) ==
    /\ At(c, "recover_lock")
    /\ Goto(c, IF locked = Dead THEN "unlink" ELSE "fail")
    /\ UNCHANGED <<journal, locked, log, operation, faults>>

Unlink(c) ==
    /\ At(c, "unlink")
    /\ locked' = Nobody
    /\ Goto(c, IF locked = Nobody THEN "fail" ELSE "ok")
    /\ UNCHANGED <<journal, log, operation, faults>>

(* The process that owns the lock file dies: the file stays. *)
Abandoned(c) == locked' = IF locked = c THEN Dead ELSE locked
==========================================================================
