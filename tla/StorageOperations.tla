------------------------- MODULE StorageOperations -------------------------
(***************************************************************************)
(* The operations of src/sqvm/storage/operations.py on one run: archive,    *)
(* restore to hot, trash, restore from trash, and the manual keep.          *)
(*                                                                         *)
(* The evidence of a run is in up to three carriers: the hot directory, the *)
(* archive and the payload in the trash.  An operation announces itself in  *)
(* the journal, changes the carriers, and completes or fails in the journal;*)
(* the journal's lock is held for each event only.  Any step may raise, the *)
(* removal of a directory may stop half way, and a process may be killed    *)
(* between two steps.  The web service serialises the operations of its     *)
(* process: one caller.  Several callers are several processes.             *)
(***************************************************************************)
EXTENDS StorageJournal, FiniteSets

CONSTANTS
    Operations,   \* the operations called
    CrossVolume,  \* whether the trash is on another volume than the carriers
    MaxCalls      \* bound on the calls

VARIABLES
    carrier,  \* what is in each place
    record,   \* the record beside the trash payload
    pin,      \* whether the file of the manual keep is there
    call,     \* the operation each caller runs
    seen,     \* the head each caller read
    calls     \* calls made

files == <<carrier, record, pin>>
local == <<call, seen, operation>>
vars == <<journal, locked, pc, log, faults, files, local, calls>>

Places == {"hot", "archive", "payload"}
Calls == {"archive", "restore_hot", "trash", "restore_trash", "keep", "unkeep",
          "recover_lock"}
NoRecord == [previous |-> "none", operation |-> 0, tail |-> 0]

ASSUME OperationsAssumption ==
    /\ Operations \subseteq Calls
    /\ CrossVolume \in BOOLEAN /\ MaxCalls \in Nat

Whole(p) == carrier[p] = "whole"
Present(p) == carrier[p] # "none"

(* Where the evidence of a run in a state is (_carrier_for_state). *)
Place(s) == CASE s \in {"hot", "archived_duplicate"} -> "hot"
              [] s = "archived" -> "archive"
              [] OTHER -> "payload"

Home(c) == Place(seen[c].state)       \* the carrier a trash takes away
Target(c) == Place(seen[c].previous)  \* the carrier a trash restore puts back

Init ==
    /\ journal = NoHead /\ locked = Nobody /\ faults = 0 /\ calls = 0
    /\ carrier = [p \in Places |-> IF p = "hot" THEN "whole" ELSE "none"]
    /\ record = NoRecord /\ pin = FALSE
    /\ pc = [c \in Callers |-> "idle"]
    /\ log = [c \in Callers |-> NoLog]
    /\ call = [c \in Callers |-> "none"]
    /\ seen = [c \in Callers |-> NoHead]
    /\ operation = [c \in Callers |-> 0]

-----------------------------------------------------------------------------
Call(c, o) ==
    /\ At(c, "idle") /\ calls < MaxCalls
    /\ calls' = calls + 1
    /\ call' = [call EXCEPT ![c] = o]
    /\ Goto(c, o)
    /\ UNCHANGED <<journal, locked, log, seen, operation, files, faults>>

Ended(c) ==
    /\ Goto(c, "idle")
    /\ log' = [log EXCEPT ![c] = NoLog]
    /\ call' = [call EXCEPT ![c] = "none"]
    /\ seen' = [seen EXCEPT ![c] = NoHead]
    /\ operation' = [operation EXCEPT ![c] = 0]

Return(c) ==
    /\ pc[c] \in {"ok", "fail"}
    /\ Ended(c)
    /\ UNCHANGED <<journal, locked, files, faults, calls>>

(* read_head; a resumed operation goes on under the pending operation id. *)
Look(c) ==
    /\ seen' = [seen EXCEPT ![c] = journal]
    /\ operation' = [operation EXCEPT ![c] = journal.operation]

(* _event: the carrier named in the event is hashed, unless its hash is     *)
(* known, and the head is read before append_event is called with it.       *)
Log(c, type, from, to, named, then, else) ==
    /\ log' = [log EXCEPT ![c] = [type |-> type, from |-> from, to |-> to,
                                  keep |-> call[c] = "keep", named |-> named,
                                  expects |-> 0, then |-> then, else |-> else]]
    /\ Goto(c, "expect")

(* Bug: the exception that is being handled is not raised again. *)
LogFailureSwallowed(c, type, from, to, named) == Log(c, type, from, to, named, "ok", "ok")

(* _failure: whatever becomes of the event, the operation fails. *)
LogFailure(c, type, from, to, named) == Log(c, type, from, to, named, "fail", "fail")

Expect(c) ==
    /\ At(c, "expect")
    /\ \/ /\ log[c].named \in Places => Present(log[c].named)
          /\ log' = [log EXCEPT ![c].expects = journal.revision]
          /\ Goto(c, "acquire")
          /\ UNCHANGED faults
       \/ /\ log[c].named \in Places
          /\ \/ ~Present(log[c].named) /\ UNCHANGED faults
             \/ Fault("io")
          /\ NotAppended(c)
    /\ UNCHANGED <<journal, locked, local, files, calls>>

(* A run without events is recorded as discovered first. *)
Discover(c) ==
    /\ pc[c] \in {"archive", "trash", "keep", "unkeep"}
    /\ journal.state = "none" /\ Whole("hot")
    /\ Look(c)
    /\ Log(c, "hot_discovered", "none", "hot",
           IF call[c] = "trash" THEN "none" ELSE "hot", "discovered", "fail")
    /\ UNCHANGED <<journal, locked, call, files, faults, calls>>

Discovered(c) ==
    /\ At(c, "discovered")
    /\ Look(c)
    /\ Goto(c, CASE call[c] = "archive" -> "bundle"
                 [] call[c] = "trash" -> "trashing"
                 [] OTHER -> "keeping")
    /\ UNCHANGED <<journal, locked, log, call, files, faults, calls>>

-----------------------------------------------------------------------------
(* What each step verifies before it acts; otherwise it raises.             *)
Archivable ==
    \/ journal.pending = "none" /\ journal.state \in {"none", "hot", "archived_duplicate"}
    \/ /\ journal.pending = "archive_started" /\ journal.state = "archiving"
       /\ Present("archive")

Restoring == journal.state = "archiving" /\ journal.pending = "archive_restore_started"

(* The record of the trash was made for the operation that is pending. *)
Matching(c) ==
    /\ record.operation = seen[c].operation /\ record.previous = seen[c].state
    /\ record.tail = seen[c].revision

(* Bug: only the pin, as part of the reference graph, is looked at. *)
UnkeptByPin(c) == ~pin

(* Neither the reference graph, which has the pin, nor the journal objects. *)
Unkept(c) == ~pin /\ ~seen[c].keep

Ready(c) ==
    CASE At(c, "archive") -> Whole("hot") /\ Archivable
      [] At(c, "bundle") ->
           Present("archive") => seen[c].state \in {"hot", "archiving", "archived_duplicate"}
      [] At(c, "existing") -> Whole("archive")
      [] At(c, "build") -> Whole("hot") /\ ~Present("archive")
      [] At(c, "published") -> Whole("archive")
      [] At(c, "compare") -> Whole("hot") /\ Whole("archive")
      [] At(c, "remove_hot") -> Present("hot")
      [] At(c, "restore_hot") ->
           \/ Restoring /\ IF Present("archive") THEN Whole("archive") ELSE Whole("hot")
           \/ /\ journal.state = "archived" /\ journal.pending = "none"
              /\ Whole("archive") /\ ~Present("hot")
      [] At(c, "extract") -> Whole("archive") /\ ~Present("hot")
      [] At(c, "extracted") -> Whole("hot")
      [] At(c, "drop") -> Present("archive")
      [] At(c, "resume") ->
           /\ Present("hot") \/ Present("archive")
           /\ Present("hot") => Whole("hot")
           /\ Present("archive") => Whole("archive")
      [] At(c, "resume_drop") -> Present("archive")
      [] At(c, "retract") -> Present("hot")
      [] At(c, "trashing") ->
           /\ Unkept(c) /\ seen[c].pending = "none"
           /\ seen[c].state \in {"hot", "archived"} /\ Whole(Home(c))
      [] At(c, "enter") -> ~pin /\ Whole(Home(c))
      [] At(c, "move") -> Present(Home(c)) /\ ~Present("payload")
      [] At(c, "note") -> Whole("payload") /\ record = NoRecord
      [] At(c, "source") -> ~pin /\ Whole(Home(c))
      [] At(c, "resume_trash") -> Matching(c) /\ Whole("payload")
      [] At(c, "restore_trash") ->
           /\ journal.state = "trash" /\ journal.pending = "none"
           /\ record # NoRecord /\ Whole("payload") /\ ~Present(Place(record.previous))
      [] At(c, "leave") -> Present("payload") /\ ~Present(Target(c))
      [] At(c, "arrive") -> Whole(Target(c)) /\ (CrossVolume => Present("payload"))
      [] pc[c] \in {"trash", "keep", "unkeep"} -> journal.state = "none" => Whole("hot")
      [] At(c, "keeping") ->
           /\ seen[c].state \in Placed \cup {"trash"} /\ seen[c].pending = "none"
           /\ Whole(Place(seen[c].state)) /\ (seen[c].state = "trash" => record # NoRecord)
           /\ call[c] = "keep" => ~pin
      [] OTHER -> TRUE

(* Where an exception of each step is handled; the others end the call. *)
Handler(c) ==
    CASE pc[c] \in {"build", "published"} -> "unarchive"
      [] pc[c] \in {"compare", "remove_hot"} -> "uncleaned"
      [] pc[c] \in {"extract", "extracted", "drop"} -> "unrestore"
      [] pc[c] = "resume_drop" -> "retract"
      [] pc[c] \in {"enter", "move", "note", "source"} -> "rollback"
      [] pc[c] \in {"rollback", "discard"} -> "untrash"
      [] pc[c] \in {"leave", "arrive", "tidy"} -> "undo"
      [] OTHER -> "fail"

(* Steps that cannot raise, or whose errors the journal's actions model. *)
Inert == {"idle", "ok", "fail", "expect", "acquire", "write", "release",
          "recover_lock", "unlink", "discovered",
          "unarchive", "uncleaned", "unrestore", "untrash"}

CheckedBefore == [compare |-> "remove_hot", extracted |-> "drop", enter |-> "move"]

Raise(c) ==
    /\ pc[c] \notin Inert
    /\ \/ ~Ready(c) /\ UNCHANGED faults
       \/ Fault("io")
    /\ Goto(c, Handler(c))
    /\ UNCHANGED <<journal, locked, log, local, files, calls>>

(* The removal of a directory raises after some of its files are gone. *)
Break(c, p) ==
    /\ \/ pc[c] \in {"remove_hot", "retract"} /\ p = "hot"
       \/ At(c, "source") /\ Home(c) = "hot" /\ p = "hot"
       \/ At(c, "discard") /\ Home(c) = "hot" /\ p = "payload"
       \/ At(c, "arrive") /\ CrossVolume /\ Target(c) = "hot" /\ p = "payload"
       \/ At(c, "undo") /\ Present("payload") /\ Target(c) = "hot" /\ p = "hot"
    /\ Ready(c) /\ Present(p) /\ Fault("part")
    /\ carrier' = [carrier EXCEPT ![p] = "part"]
    /\ record' \in IF At(c, "discard") THEN {record, NoRecord} ELSE {record}
    /\ Goto(c, Handler(c))
    /\ UNCHANGED <<journal, locked, log, local, pin, calls>>

Step(c, phase) == At(c, phase) /\ Ready(c)
Elsewhere == UNCHANGED <<journal, locked, faults, call, calls>>
Quiet == Elsewhere /\ UNCHANGED files
Local == UNCHANGED <<seen, operation>>
Put(p, what) == carrier' = [carrier EXCEPT ![p] = what] /\ UNCHANGED <<record, pin>>

RemoveTrash ==
    carrier' = [carrier EXCEPT !["payload"] = "none"] /\ record' = NoRecord /\ UNCHANGED pin

(* A step that only verifies: evidence and references, again, right before  *)
(* the step that destroys or moves something.                               *)
Check(c) ==
    /\ pc[c] \in DOMAIN CheckedBefore /\ Ready(c)
    /\ Goto(c, CheckedBefore[pc[c]])
    /\ Quiet /\ Local /\ UNCHANGED log

(* _failure in the exception handlers. *)
Fail(c) ==
    /\ \/ At(c, "unarchive") /\ LogFailure(c, "archive_failed", "archiving", "hot", "hot")
       \/ /\ At(c, "uncleaned")
          /\ LogFailure(c, "hot_cleanup_failed", "archived_duplicate", "archived_duplicate",
                        "archive")
       \/ /\ At(c, "untrash")
          /\ LogFailure(c, "trash_failed", seen[c].state, seen[c].state,
                        IF Present(Home(c)) THEN Home(c) ELSE "payload")
    /\ Quiet /\ Local

-----------------------------------------------------------------------------
(* archive *)
Archive(c) ==
    /\ Step(c, "archive") /\ journal.state # "none"
    /\ Look(c) /\ Goto(c, "bundle")
    /\ Quiet /\ UNCHANGED log

(* A bundle that is already there is never rewritten. *)
Bundle(c) ==
    /\ Step(c, "bundle")
    /\ \/ /\ seen[c].state = "hot" \/ ~Present("archive")
          /\ Log(c, "archive_started", "hot", "archiving", "hot",
                 IF Present("archive") THEN "existing" ELSE "build", "fail")
       \/ /\ seen[c].state # "hot" /\ Present("archive")
          /\ Goto(c, "existing")
          /\ UNCHANGED log
    /\ Quiet /\ Local

Verified(c) ==
    Log(c, "archive_verified", "archiving", "archived_duplicate", "archive", "cleanup", "fail")

Existing(c) ==
    /\ Step(c, "existing")
    /\ IF seen[c].state = "archived_duplicate" THEN Goto(c, "cleanup") /\ UNCHANGED log
                                               ELSE Verified(c)
    /\ Quiet /\ Local

Build(c) ==
    /\ Step(c, "build")
    /\ Put("archive", "whole")
    /\ Goto(c, "published")
    /\ Elsewhere /\ Local /\ UNCHANGED log

BundlePublished(c) ==
    /\ Step(c, "published")
    /\ Verified(c)
    /\ Quiet /\ Local

Cleanup(c) ==
    /\ At(c, "cleanup")
    /\ IF journal.state = "archived_duplicate"
       THEN Log(c, "hot_cleanup_started", "archived_duplicate", "archived_duplicate", "hot",
                "compare", "fail")
       ELSE Goto(c, "ok") /\ UNCHANGED log
    /\ Quiet /\ Local

RemoveHot(c) ==
    /\ Step(c, "remove_hot")
    /\ Put("hot", "none")
    /\ Log(c, "hot_cleanup_completed", "archived_duplicate", "archived", "archive", "ok", "fail")
    /\ Elsewhere /\ Local

-----------------------------------------------------------------------------
(* restore_hot and _resume_archive_restore *)
RestoreHot(c) ==
    /\ Step(c, "restore_hot")
    /\ Look(c)
    /\ IF Restoring THEN Goto(c, "resume") /\ UNCHANGED log
       ELSE Log(c, "archive_restore_started", "archived", "archiving", "archive", "extract", "fail")
    /\ Quiet

Extract(c) ==
    /\ Step(c, "extract")
    /\ Put("hot", "whole")
    /\ Goto(c, "extracted")
    /\ Elsewhere /\ Local /\ UNCHANGED log

RestoredHot(c) ==
    Log(c, "archive_restore_completed", "archiving", "hot", "hot", "ok", "fail")
BackToArchive(c) ==
    LogFailure(c, "archive_restore_failed", "archiving", "archived", "archive")

(* The archive is removed, by the restore or by the resumption of one. *)
Drop(c) ==
    /\ Step(c, "drop") \/ Step(c, "resume_drop")
    /\ Put("archive", "none")
    /\ RestoredHot(c)
    /\ Elsewhere /\ Local

RestoreFailed(c) ==
    /\ At(c, "unrestore")
    /\ IF Present("hot") /\ Present("archive")
       THEN Look(c) /\ Goto(c, "resume") /\ UNCHANGED log
       ELSE BackToArchive(c) /\ Local
    /\ Quiet

Resume(c) ==
    /\ Step(c, "resume")
    /\ \/ Present("hot") /\ Present("archive") /\ Goto(c, "resume_drop") /\ UNCHANGED log
       \/ Present("hot") /\ ~Present("archive") /\ RestoredHot(c)
       \/ ~Present("hot") /\ Present("archive") /\ BackToArchive(c)
    /\ Quiet /\ Local

(* The archive could not be removed: the hot duplicate is, instead. *)
Retract(c) ==
    /\ Step(c, "retract")
    /\ Put("hot", "none")
    /\ BackToArchive(c)
    /\ Elsewhere /\ Local

-----------------------------------------------------------------------------
(* trash and _resume_published_trash *)
Trash(c) ==
    /\ Step(c, "trash") /\ journal.state # "none"
    /\ Look(c)
    /\ Goto(c, IF journal.pending = "trash_started" THEN "resume_trash" ELSE "trashing")
    /\ Quiet /\ UNCHANGED log

Trashing(c) ==
    /\ Step(c, "trashing")
    /\ Log(c, "trash_started", seen[c].state, seen[c].state, "none", "enter", "fail")
    /\ Quiet /\ Local

(* _move_or_copy: a rename, or on another volume a copy that is published. *)
Transfer(from, to) ==
    /\ UNCHANGED <<record, pin>>
    /\ carrier' = [carrier EXCEPT ![to] = carrier[from],
                                 ![from] = IF CrossVolume THEN carrier[from] ELSE "none"]

Move(c) ==
    /\ Step(c, "move")
    /\ Transfer(Home(c), "payload")
    /\ Goto(c, "note")
    /\ Elsewhere /\ Local /\ UNCHANGED log

Trashed(c, named) == Log(c, "trashed", seen[c].state, "trash", named, "ok", "fail")

Note(c) ==
    /\ Step(c, "note")
    /\ record' = [previous |-> seen[c].state, operation |-> operation[c],
                  tail |-> journal.revision]
    /\ IF CrossVolume THEN Goto(c, "source") /\ UNCHANGED log ELSE Trashed(c, "none")
    /\ Elsewhere /\ UNCHANGED <<seen, operation, carrier, pin>>

Source(c) ==
    /\ Step(c, "source")
    /\ Put(Home(c), "none")
    /\ Trashed(c, "none")
    /\ Elsewhere /\ Local

(* Bug: the trash directory is removed before the payload is moved back. *)
RollbackDiscarding(c) ==
    /\ At(c, "rollback")
    /\ Goto(c, "discard")
    /\ Quiet /\ Local /\ UNCHANGED log

(* _rollback_trash_payload: the payload goes back where nothing is, and the *)
(* trash directory is removed once something is in its place.               *)
Rollback(c) ==
    /\ At(c, "rollback")
    /\ IF Present("payload") /\ ~Present(Home(c)) /\ ~CrossVolume
       THEN Transfer("payload", Home(c)) /\ Goto(c, "discard")
       ELSE Goto(c, IF Present(Home(c)) THEN "discard" ELSE "untrash") /\ UNCHANGED files
    /\ Elsewhere /\ Local /\ UNCHANGED log

Discard(c) ==
    /\ At(c, "discard")
    /\ RemoveTrash
    /\ Goto(c, "untrash")
    /\ Elsewhere /\ Local /\ UNCHANGED log

ResumeTrash(c) ==
    /\ Step(c, "resume_trash")
    /\ Trashed(c, "payload")
    /\ Quiet /\ Local

-----------------------------------------------------------------------------
(* restore_trash *)
RestoreTrash(c) ==
    /\ Step(c, "restore_trash")
    /\ seen' = [seen EXCEPT ![c] = [journal EXCEPT !.previous = record.previous]]
    /\ Goto(c, "leave")
    /\ Quiet /\ UNCHANGED <<log, operation>>

Leave(c) ==
    /\ Step(c, "leave")
    /\ Transfer("payload", Target(c))
    /\ Goto(c, "arrive")
    /\ Elsewhere /\ Local /\ UNCHANGED log

Arrive(c) ==
    /\ Step(c, "arrive")
    /\ IF CrossVolume THEN Put("payload", "none") ELSE UNCHANGED files
    /\ Log(c, "trash_restored", "trash", seen[c].previous, Target(c), "tidy", "undo")
    /\ Elsewhere /\ Local

Tidy(c) ==
    /\ At(c, "tidy")
    /\ RemoveTrash
    /\ Goto(c, "ok")
    /\ Elsewhere /\ Local /\ UNCHANGED log

(* The except clause: a duplicate is removed, an only copy is moved back. *)
Undo(c) ==
    /\ At(c, "undo")
    /\ carrier' = IF ~Present(Target(c)) THEN carrier
                  ELSE [carrier EXCEPT ![Target(c)] = "none",
                          !["payload"] = IF Present("payload") THEN @ ELSE carrier[Target(c)]]
    /\ Goto(c, "fail")
    /\ Elsewhere /\ UNCHANGED <<seen, operation, record, pin, log>>

-----------------------------------------------------------------------------
(* set_keep: the pin first, then the event. *)
Keep(c) ==
    /\ Step(c, "keep") \/ Step(c, "unkeep")
    /\ journal.state # "none"
    /\ Look(c) /\ Goto(c, "keeping")
    /\ Quiet /\ UNCHANGED log

Keeping(c) ==
    /\ Step(c, "keeping")
    /\ pin' = (call[c] = "keep")
    /\ Log(c, "keep_changed", seen[c].state, seen[c].state, Place(seen[c].state), "ok", "fail")
    /\ Elsewhere /\ UNCHANGED <<seen, operation, carrier, record>>

-----------------------------------------------------------------------------
(* A process is killed, in a call or while its lock file is left over. *)
Crash(c) ==
    /\ ~At(c, "idle") \/ locked = c
    /\ Fault("crash")
    /\ Abandoned(c)
    /\ Ended(c)
    /\ UNCHANGED <<journal, files, calls>>

Operate(c) ==
    \/ Return(c) \/ Expect(c) \/ Discover(c) \/ Discovered(c) \/ Check(c) \/ Fail(c)
    \/ Archive(c) \/ Bundle(c) \/ Existing(c) \/ Build(c) \/ BundlePublished(c)
    \/ Cleanup(c) \/ RemoveHot(c)
    \/ RestoreHot(c) \/ Extract(c) \/ Drop(c) \/ RestoreFailed(c) \/ Resume(c) \/ Retract(c)
    \/ Trash(c) \/ Trashing(c) \/ Move(c) \/ Note(c) \/ Source(c)
    \/ Rollback(c) \/ Discard(c) \/ ResumeTrash(c)
    \/ RestoreTrash(c) \/ Leave(c) \/ Arrive(c) \/ Tidy(c) \/ Undo(c)
    \/ Keep(c) \/ Keeping(c)

Record(c) ==
    /\ AppendEvent(c) \/ RecoverLock(c) \/ Unlink(c)
    /\ UNCHANGED <<files, call, seen, calls>>

Next ==
    \E c \in Callers :
       \/ \E o \in Operations : Call(c, o)
       \/ Operate(c) \/ Record(c)
       \/ Raise(c) \/ (\E p \in Places : Break(c, p)) \/ Crash(c)

Spec == Init /\ [][Next]_vars

-----------------------------------------------------------------------------
(* Each carrier is absent, complete or the rest of a removal, never a copy  *)
(* that is still being made, and the journal holds a head it can compute.   *)
TypeOK ==
    /\ journal \in LifecycleHead /\ seen \in [Callers -> LifecycleHead]
    /\ locked \in Callers \cup {Nobody, Dead}
    /\ carrier \in [Places -> {"none", "whole", "part"}]
    /\ record \in [previous : States, operation : Nat, tail : Nat]
    /\ pin \in BOOLEAN
    /\ call \in [Callers -> Operations \cup {"none"}]
    /\ operation \in [Callers -> Nat]
    /\ faults \in 0..MaxFaults /\ calls \in 0..MaxCalls

(* At any time there is at least one complete copy of the evidence. *)
Evidence == \E p \in Places : Whole(p)

(* What the operation of a call promises to have done. *)
Done(c) ==
    CASE call[c] = "archive" -> journal.state = "archived" /\ Whole("archive") /\ ~Present("hot")
      [] call[c] = "restore_hot" -> journal.state = "hot" /\ Whole("hot") /\ ~Present("archive")
      [] call[c] = "trash" -> journal.state = "trash" /\ Whole("payload")
      [] call[c] = "restore_trash" ->
           journal.state = seen[c].previous /\ Whole(Target(c)) /\ ~Present("payload")
      [] call[c] = "keep" -> journal.keep /\ pin
      [] call[c] = "unkeep" -> ~journal.keep /\ ~pin
      [] OTHER -> locked = Nobody

(* A call that answers has done what it says: the journal shows the new     *)
(* state, the evidence is complete in its new place and is not in the old.  *)
HonestAnswers == \A c \in Callers : At(c, "ok") => Done(c)

(* A run that is kept, by its journal or by its pin, never enters the trash. *)
KeptStays ==
    [][journal'.state = "trash" /\ journal.state # "trash" => ~journal.keep /\ ~pin]_vars

Storage == INSTANCE RunStorage WITH
    state <- journal.state, places <- {p \in Places : Whole(p)}

(* One operation after the other, with its failures, retries and kills,     *)
(* implements RunStorage: the journal moves only along the life cycle and   *)
(* only to a state whose complete evidence is in its place.                 *)
ImplementsRunStorage == Storage!Spec
==========================================================================
