------------------------ MODULE ConfigTransaction ------------------------
(***************************************************************************)
(* The configuration transaction engine of src/sqvm/web/                   *)
(* configuration_transactions.py, for one device.                          *)
(*                                                                         *)
(* A transaction is a bundle directory, published under its operation id   *)
(* by a rename that never replaces, and made current by replacing the head *)
(* file.  Clients (threads of processes that share the configuration root) *)
(* open the device, which imports generation zero when there is no head    *)
(* and refreshes the flat compatibility projection, and then commit under  *)
(* the device lock.  Any step may fail, a process may be killed between    *)
(* any two steps, and the machine may lose what was not flushed.           *)
(***************************************************************************)
EXTENDS Naturals, FiniteSets, Sequences

CONSTANTS
    Clients,      \* threads that call the configuration store
    Ops,          \* operation ids (UUID4) that callers choose and may reuse
    Imports,      \* operation ids that legacy imports generate
    NoTx,         \* no transaction: no head, no parent
    Contents,     \* what the device's configuration may say
    Legacy,       \* what it says before generation zero is imported
    AnyContent,   \* no particular content: not expected, or not changed
    Requests,     \* mutations: the content each expects, and the one it writes
    NoRequest,    \* the request of an import, and of a read
    NoClient,     \* holder of a free device lock
    Files,        \* the files of the projection, in the order they are written
    Faults,       \* the kinds of failure that may happen: a subset of FaultKinds
    MaxRequests,  \* bound on the mutations submitted
    MaxFaults     \* bound on the failures injected

FaultKinds == {"io", "flush", "crash", "power"}
TxIds == Ops \cup Imports

ASSUME TxAssumption ==
    /\ NoTx \notin TxIds
    /\ Legacy \in Contents /\ AnyContent \notin Contents
    /\ Requests \subseteq [expects: Contents \cup {AnyContent},
                           writes: Contents \cup {AnyContent}]
    /\ NoRequest \notin Requests
    /\ Ops \cap Imports = {}
    /\ NoClient \notin Clients
ASSUME BoundAssumption ==
    /\ Files \in Seq(STRING)
    /\ Faults \subseteq FaultKinds
    /\ MaxRequests \in Nat
    /\ MaxFaults \in Nat

VARIABLES
    head,         \* transaction the head file names
    headDisk,     \* the one it names after a power loss
    bundles,      \* published bundles: transaction -> manifest
    bundlesDisk,  \* bundles whose directory entry was flushed
    lock,         \* holder of the device lock
    pc,           \* where each client is
    op,           \* operation id of its request; NoTx for a read
    req,          \* its request
    mode,         \* which code path the client is in
    view,         \* the head it validated last
    target,       \* the transaction it is publishing
    at,           \* next projection file to write
    projection,   \* flat file -> transaction its content came from
    status,       \* transaction that projection-status says is complete
    replies,      \* history: what the callers were told
    requests,     \* mutations submitted
    faults,       \* failures injected
    abandoned     \* history: bundles whose publisher never came to their flush

store == <<head, headDisk, bundles, bundlesDisk>>
client == <<pc, op, req, mode, view, target, at>>
flat == <<projection, status>>
vars == <<store, lock, client, flat, replies, requests, faults, abandoned>>

Phases == {"idle", "open", "waiting", "holding", "prepared", "published",
           "ready", "replaced", "switched", "files"}
Modes == {"open", "import", "commit", "resume"}

(* The manifest: generation, parent, request hash, the configuration, and   *)
(* the idempotency catalog, whose rows name the bundles of their receipts.  *)
Manifest == [gen: Nat, parent: TxIds \cup {NoTx}, request: Requests \cup {NoRequest},
             content: Contents, entries: SUBSET TxIds]

Acks == {"committed", "replayed"}
Refusals == {"stale", "conflict"}
Reply == [tx: TxIds \cup {NoTx}, request: Requests \cup {NoRequest}, gen: Nat,
          kind: Acks \cup Refusals \cup {"aborted"},
          projection: {"complete", "pending"}]

-----------------------------------------------------------------------------
Published == DOMAIN bundles

Applied(h) == IF h \in Published THEN bundles[h].entries ELSE {}

(* committed_view: the head's bundle, its parents and the receipts its     *)
(* idempotency catalog names are all there. A head that is not readable is *)
(* refused without effect (configuration_recovery_required), a branch that *)
(* only a loss of power after a resumed orphan reaches; it is left out.     *)
Readable(h) == h \in Published /\ bundles[h].entries \subseteq Published

(* What the transform leaves in the workspace copied from the view. *)
NextContent(c) ==
    IF view[c] = NoTx THEN Legacy
    ELSE IF req[c].writes = AnyContent THEN bundles[view[c]].content
    ELSE req[c].writes

NextManifest(c) ==
    [gen     |-> IF view[c] = NoTx THEN 0 ELSE bundles[view[c]].gen + 1,
     parent  |-> view[c],
     request |-> IF view[c] = NoTx THEN NoRequest ELSE req[c],
     content |-> NextContent(c),
     entries |-> Applied(view[c]) \cup {target[c]}]

Init ==
    /\ head = NoTx /\ headDisk = NoTx
    /\ bundles = [t \in {} |-> {}] /\ bundlesDisk = {}
    /\ lock = NoClient
    /\ pc = [c \in Clients |-> "idle"]
    /\ op = [c \in Clients |-> NoTx]
    /\ req = [c \in Clients |-> NoRequest]
    /\ mode = [c \in Clients |-> "open"]
    /\ view = [c \in Clients |-> NoTx]
    /\ target = [c \in Clients |-> NoTx]
    /\ at = [c \in Clients |-> 1]
    /\ projection = [i \in 1..Len(Files) |-> NoTx]
    /\ status = NoTx
    /\ replies = {} /\ requests = 0 /\ faults = 0 /\ abandoned = {}

-----------------------------------------------------------------------------
Goto(c, phase) == pc' = [pc EXCEPT ![c] = phase]

(* The call ends: its locals are gone. *)
Return(c) ==
    /\ pc' = [pc EXCEPT ![c] = "idle"]
    /\ op' = [op EXCEPT ![c] = NoTx]
    /\ req' = [req EXCEPT ![c] = NoRequest]
    /\ mode' = [mode EXCEPT ![c] = "open"]
    /\ view' = [view EXCEPT ![c] = NoTx]
    /\ target' = [target EXCEPT ![c] = NoTx]
    /\ at' = [at EXCEPT ![c] = 1]

Unlock(c) == lock' = IF lock = c THEN NoClient ELSE lock

Tell(c, kind, gen, proj) ==
    replies' = replies \cup
        {[tx |-> target[c], request |-> req[c], kind |-> kind,
          gen |-> gen, projection |-> proj]}

(* A mutation or a read enters through _ensure_transaction_device. *)
Submit(c, o, r) ==
    /\ pc[c] = "idle" /\ requests < MaxRequests
    /\ op' = [op EXCEPT ![c] = o]
    /\ req' = [req EXCEPT ![c] = r]
    /\ target' = [target EXCEPT ![c] = o]
    /\ requests' = requests + 1
    /\ Goto(c, "open")
    /\ UNCHANGED <<store, lock, mode, view, at, flat, replies, faults, abandoned>>

Read(c) ==
    /\ pc[c] = "idle"
    /\ Goto(c, "open")
    /\ UNCHANGED <<store, lock, op, req, mode, view, target, at, flat, replies,
                   requests, faults, abandoned>>

(* ensure_imported, first half: with a head, validate it and refresh the   *)
(* projection, without the lock; otherwise queue for the lock.             *)
Materializing(c, m, h) ==
    /\ mode' = [mode EXCEPT ![c] = m]
    /\ view' = [view EXCEPT ![c] = h]
    /\ at' = [at EXCEPT ![c] = 1]
    /\ Goto(c, "files")

Open(c) ==
    /\ pc[c] = "open"
    /\ \/ /\ head = NoTx
          /\ mode' = [mode EXCEPT ![c] = "import"]
          /\ Goto(c, "waiting")
          /\ UNCHANGED <<op, req, view, target, at>>
       \/ /\ Readable(head)
          /\ Materializing(c, "open", head)
          /\ UNCHANGED <<op, req, target>>
    /\ UNCHANGED <<store, lock, flat, replies, requests, faults, abandoned>>

Lock(c) ==
    /\ pc[c] = "waiting" /\ lock = NoClient
    /\ lock' = c
    /\ Goto(c, "holding")
    /\ UNCHANGED <<store, op, req, mode, view, target, at, flat, replies, requests, faults, abandoned>>

(* Bug: the finally clause releases a lock that was never acquired. *)
LockTimeoutReleasing(c) ==
    /\ pc[c] = "waiting" /\ lock # NoClient
    /\ lock' = NoClient
    /\ Return(c)
    /\ UNCHANGED <<store, flat, replies, requests, faults, abandoned>>

(* configuration_transaction_busy *)
LockTimeout(c) ==
    /\ pc[c] = "waiting" /\ lock # NoClient
    /\ Return(c)
    /\ UNCHANGED <<store, lock, flat, replies, requests, faults, abandoned>>

-----------------------------------------------------------------------------
(* ensure_imported, second half: under the lock the head is looked for     *)
(* again before generation zero is prepared under a fresh id.              *)
ImportFound(c) ==
    /\ pc[c] = "holding" /\ mode[c] = "import" /\ Readable(head)
    /\ Materializing(c, "import", head)
    /\ UNCHANGED <<store, lock, op, req, target, flat, replies, requests, faults, abandoned>>

ImportPrepare(c) ==
    /\ pc[c] = "holding" /\ mode[c] = "import" /\ head = NoTx
    /\ \E i \in Imports \ Published : target' = [target EXCEPT ![c] = i]
    /\ view' = [view EXCEPT ![c] = NoTx]
    /\ Goto(c, "prepared")
    /\ UNCHANGED <<store, lock, op, req, mode, at, flat, replies, requests, faults, abandoned>>

(* execute, under the lock: _replay, _resume_or_reject_orphan, transform.   *)
Executing(c) == pc[c] = "holding" /\ mode[c] = "commit" /\ Readable(head)

(* Bug: a replay answers with the current generation. *)
ReplayCurrent(c) ==
    /\ Executing(c) /\ op[c] \in Applied(head)
    /\ IF bundles[op[c]].request = req[c]
       THEN Tell(c, "replayed", bundles[head].gen, "complete")
       ELSE Tell(c, "conflict", 0, "pending")
    /\ Unlock(c) /\ Return(c)
    /\ UNCHANGED <<store, flat, requests, faults, abandoned>>

Replay(c) ==
    /\ Executing(c) /\ op[c] \in Applied(head)
    /\ IF bundles[op[c]].request = req[c]
       THEN Tell(c, "replayed", bundles[op[c]].gen, "complete")
       ELSE Tell(c, "conflict", 0, "pending")
    /\ Unlock(c) /\ Return(c)
    /\ UNCHANGED <<store, flat, requests, faults, abandoned>>

Orphaned(c) == Executing(c) /\ op[c] \notin Applied(head) /\ op[c] \in Published

(* Bugs: the orphan's parent, or its request, is not compared. *)
ResumableAnyParent(c) == bundles[op[c]].request = req[c]
ResumableAnyRequest(c) == bundles[op[c]].parent = head

Resumable(c) == bundles[op[c]].request = req[c] /\ bundles[op[c]].parent = head

ResumeOrphan(c) ==
    /\ Orphaned(c) /\ Resumable(c)
    /\ mode' = [mode EXCEPT ![c] = "resume"]
    /\ view' = [view EXCEPT ![c] = head]
    /\ Goto(c, "ready")
    /\ UNCHANGED <<store, lock, op, req, target, at, flat, replies, requests, faults, abandoned>>

RejectOrphan(c) ==
    /\ Orphaned(c) /\ ~Resumable(c)
    /\ Tell(c, "conflict", 0, "pending")
    /\ Unlock(c) /\ Return(c)
    /\ UNCHANGED <<store, flat, requests, faults, abandoned>>

(* Bug: any content the device ever had passes for the expected one. *)
ExpectationHeld(c) ==
    req[c].expects \in {AnyContent} \cup {bundles[t].content : t \in Applied(head)}

(* expected_content_sha256 is the hash of the current content *)
ExpectationHolds(c) == req[c].expects \in {AnyContent, bundles[head].content}

Transform(c) ==
    /\ Executing(c) /\ op[c] \notin Applied(head) \cup Published
    /\ ExpectationHolds(c)
    /\ view' = [view EXCEPT ![c] = head]
    /\ Goto(c, "prepared")
    /\ UNCHANGED <<store, lock, op, req, mode, target, at, flat, replies, requests, faults, abandoned>>

(* The transform raises its own 409: nothing was published. *)
TransformRefuses(c) ==
    /\ Executing(c) /\ op[c] \notin Applied(head) \cup Published
    /\ ~ExpectationHolds(c)
    /\ Tell(c, "stale", 0, "pending")
    /\ Unlock(c) /\ Return(c)
    /\ UNCHANGED <<store, flat, requests, faults, abandoned>>

-----------------------------------------------------------------------------
(* _publish_bundle: rename the staged directory, never onto another one,   *)
(* then flush its parents, which makes every earlier entry durable too.    *)
PublishBundle(c) ==
    /\ pc[c] = "prepared" /\ target[c] \notin Published
    /\ bundles' = [t \in Published \cup {target[c]} |->
                      IF t = target[c] THEN NextManifest(c) ELSE bundles[t]]
    /\ Goto(c, "published")
    /\ UNCHANGED <<head, headDisk, bundlesDisk, lock, op, req, mode, view, target,
                   at, flat, replies, requests, faults, abandoned>>

(* Bug: the parents of the bundle are not flushed. *)
FlushBundleSkipped(c) ==
    /\ pc[c] = "published"
    /\ Goto(c, "ready")
    /\ UNCHANGED <<store, lock, op, req, mode, view, target, at, flat, replies,
                   requests, faults, abandoned>>

FlushBundle(c) ==
    /\ pc[c] = "published"
    /\ bundlesDisk' = Published
    /\ Goto(c, "ready")
    /\ UNCHANGED <<head, headDisk, bundles, lock, op, req, mode, view, target,
                   at, flat, replies, requests, faults, abandoned>>

(* _switch_head: replace the head file, then flush its directory; the new  *)
(* head is validated before the projection is refreshed from it.           *)
ReplaceHead(c) ==
    /\ pc[c] = "ready"
    /\ head' = target[c]
    /\ Goto(c, "replaced")
    /\ UNCHANGED <<headDisk, bundles, bundlesDisk, lock, op, req, mode, view, target,
                   at, flat, replies, requests, faults, abandoned>>

(* Bug: the directory of the head is not flushed. *)
FlushHeadSkipped(c) ==
    /\ pc[c] = "replaced"
    /\ Goto(c, "switched")
    /\ UNCHANGED <<store, lock, op, req, mode, view, target, at, flat, replies,
                   requests, faults, abandoned>>

FlushHead(c) ==
    /\ pc[c] = "replaced"
    /\ headDisk' = head
    /\ Goto(c, "switched")
    /\ UNCHANGED <<head, bundles, bundlesDisk, lock, op, req, mode, view, target,
                   at, flat, replies, requests, faults, abandoned>>

Reread(c) ==
    /\ pc[c] = "switched" /\ Readable(head)
    /\ Materializing(c, mode[c], head)
    /\ UNCHANGED <<store, lock, op, req, target, flat, replies, requests, faults, abandoned>>

(* Bug: files are skipped when projection-status names the generation. *)
MaterializeFileTrusting(c) ==
    /\ pc[c] = "files" /\ at[c] \in 1..Len(Files)
    /\ projection' = IF status = view[c] THEN projection
                     ELSE [projection EXCEPT ![at[c]] = view[c]]
    /\ at' = [at EXCEPT ![c] = at[c] + 1]
    /\ UNCHANGED <<store, lock, pc, op, req, mode, view, target, status, replies,
                   requests, faults, abandoned>>

(* materialize: one file at a time, and the status file last. *)
MaterializeFile(c) ==
    /\ pc[c] = "files" /\ at[c] \in 1..Len(Files)
    /\ projection' = [projection EXCEPT ![at[c]] = view[c]]
    /\ at' = [at EXCEPT ![c] = at[c] + 1]
    /\ UNCHANGED <<store, lock, pc, op, req, mode, view, target, status, replies,
                   requests, faults, abandoned>>

(* What follows materialize: a read or an import goes on whatever became   *)
(* of the projection, a commit answers with it.                            *)
AfterMaterialize(c, outcome) ==
    /\ Unlock(c)
    /\ \/ /\ mode[c] \in {"open", "import"} /\ op[c] # NoTx
          /\ mode' = [mode EXCEPT ![c] = "commit"]
          /\ view' = [view EXCEPT ![c] = NoTx]
          /\ target' = [target EXCEPT ![c] = op[c]]
          /\ at' = [at EXCEPT ![c] = 1]
          /\ Goto(c, "waiting")
          /\ UNCHANGED <<op, req, replies>>
       \/ /\ mode[c] \in {"open", "import"} /\ op[c] = NoTx
          /\ Return(c)
          /\ UNCHANGED replies
       \/ /\ mode[c] \in {"commit", "resume"}
          /\ Tell(c, "committed", bundles[view[c]].gen, outcome)
          /\ Return(c)
    /\ UNCHANGED <<store, projection, requests>>

MaterializeStatus(c) ==
    /\ pc[c] = "files" /\ at[c] = Len(Files) + 1
    /\ status' = view[c]
    /\ AfterMaterialize(c, "complete")
    /\ UNCHANGED <<faults, abandoned>>

-----------------------------------------------------------------------------
Fault(kind) == kind \in Faults /\ faults < MaxFaults /\ faults' = faults + 1

(* The call ends here; a bundle it published was not flushed. *)
Abandon(c) ==
    abandoned' = IF pc[c] = "published" THEN abandoned \cup {target[c]} ELSE abandoned

(* An error under the lock ends the call.  execute and ensure_imported     *)
(* report it as configuration_transaction_aborted; a resumed orphan lets   *)
(* the raw error escape.                                                   *)
FailUnderLock(c) ==
    /\ IF mode[c] = "resume" THEN UNCHANGED replies
                             ELSE Tell(c, "aborted", 0, "pending")
    /\ Unlock(c) /\ Return(c)
    /\ UNCHANGED <<store, flat, requests>>

IoError(c) ==
    /\ pc[c] \in {"prepared", "ready"} /\ Fault("io") /\ FailUnderLock(c)
    /\ UNCHANGED abandoned

(* The rename or the replace took effect; the flush after it failed. *)
FlushError(c) ==
    /\ pc[c] \in {"published", "replaced"} /\ Fault("flush") /\ FailUnderLock(c)
    /\ Abandon(c)

(* The head was switched and cannot be read back: only execute, which      *)
(* remembers that it committed, answers configuration_committed_recovery_  *)
(* pending instead of configuration_transaction_aborted.                   *)
RereadError(c) ==
    /\ pc[c] = "switched" /\ Fault("io")
    /\ IF mode[c] = "import" THEN Tell(c, "aborted", 0, "pending") ELSE UNCHANGED replies
    /\ Unlock(c) /\ Return(c)
    /\ UNCHANGED <<store, flat, requests, abandoned>>

MaterializeError(c) ==
    /\ pc[c] = "files" /\ Fault("io")
    /\ AfterMaterialize(c, "pending")
    /\ UNCHANGED <<status, abandoned>>

(* The process is killed: the operating system frees its lock. *)
Crash(c) ==
    /\ pc[c] # "idle" /\ Fault("crash")
    /\ Abandon(c)
    /\ Unlock(c) /\ Return(c)
    /\ UNCHANGED <<store, flat, replies, requests>>

(* The machine stops: an entry that was not flushed may or may not survive. *)
PowerLoss ==
    /\ Fault("power")
    /\ head' \in {head, headDisk} /\ headDisk' = head'
    /\ \E kept \in SUBSET Published :
          /\ bundlesDisk \subseteq kept
          /\ bundles' = [t \in kept |-> bundles[t]]
          /\ bundlesDisk' = kept
    /\ lock' = NoClient
    /\ pc' = [c \in Clients |-> "idle"]
    /\ op' = [c \in Clients |-> NoTx]
    /\ req' = [c \in Clients |-> NoRequest]
    /\ mode' = [c \in Clients |-> "open"]
    /\ view' = [c \in Clients |-> NoTx]
    /\ target' = [c \in Clients |-> NoTx]
    /\ at' = [c \in Clients |-> 1]
    /\ UNCHANGED <<flat, replies, requests, abandoned>>

-----------------------------------------------------------------------------
Work(c) ==
    \/ Open(c) \/ Lock(c) \/ LockTimeout(c)
    \/ ImportFound(c) \/ ImportPrepare(c)
    \/ Replay(c) \/ ResumeOrphan(c) \/ RejectOrphan(c)
    \/ Transform(c) \/ TransformRefuses(c)
    \/ PublishBundle(c) \/ FlushBundle(c) \/ ReplaceHead(c) \/ FlushHead(c)
    \/ Reread(c) \/ MaterializeFile(c) \/ MaterializeStatus(c)

Fail(c) ==
    \/ IoError(c) \/ FlushError(c) \/ RereadError(c) \/ MaterializeError(c) \/ Crash(c)

Next ==
    \/ \E c \in Clients :
          \/ \E o \in Ops, r \in Requests : Submit(c, o, r)
          \/ Read(c) \/ Work(c) \/ Fail(c)
    \/ PowerLoss

Spec == Init /\ [][Next]_vars

(* A running call goes on, and the configuration is opened again and again: *)
(* every page of the web interface and every API call opens it.             *)
FairSpec == Spec /\ \A c \in Clients : WF_vars(Work(c)) /\ WF_vars(Read(c))

-----------------------------------------------------------------------------
(* Every file of the store and every client holds what the code can leave   *)
(* there: manifests, head and status name transactions, phases are phases.  *)
TypeOK ==
    /\ head \in TxIds \cup {NoTx} /\ headDisk \in TxIds \cup {NoTx}
    /\ Published \subseteq TxIds /\ bundles \in [Published -> Manifest]
    /\ bundlesDisk \subseteq Published
    /\ lock \in Clients \cup {NoClient}
    /\ pc \in [Clients -> Phases]
    /\ op \in [Clients -> Ops \cup {NoTx}]
    /\ req \in [Clients -> Requests \cup {NoRequest}]
    /\ mode \in [Clients -> Modes]
    /\ view \in [Clients -> TxIds \cup {NoTx}]
    /\ target \in [Clients -> TxIds \cup {NoTx}]
    /\ at \in [Clients -> 1..(Len(Files) + 1)]
    /\ projection \in [1..Len(Files) -> TxIds \cup {NoTx}]
    /\ status \in TxIds \cup {NoTx}
    /\ replies \subseteq Reply
    /\ requests \in 0..MaxRequests /\ faults \in 0..MaxFaults
    /\ abandoned \subseteq TxIds

(* Between Lock and the end of the call: inside _device_lock. *)
Inside(c) ==
    \/ pc[c] \in {"holding", "prepared", "published", "ready", "replaced", "switched"}
    \/ pc[c] = "files" /\ mode[c] # "open"

(* The device lock is held by exactly the client inside it: two writers are *)
(* never inside, and no timeout, error, refusal or crash leaves it held or  *)
(* takes it from another.                                                   *)
LockHeldInside == \A c \in Clients : lock = c <=> Inside(c)

(* A caller that was told its transaction is committed finds it in every   *)
(* later state of the device, at the generation and with the request it    *)
(* was told, whatever failed, crashed or was resumed in between.           *)
AckedSurvive ==
    \A r \in replies : r.kind \in Acks =>
        /\ r.tx \in Applied(head)
        /\ bundles[r.tx].gen = r.gen /\ bundles[r.tx].request = r.request

(* A committed request that expected some content replaced exactly that     *)
(* content: no update is lost, not even to an orphan that is resumed when   *)
(* the content has changed and changed back.                                *)
NothingOverwritten ==
    \A t \in Applied(head) : bundles[t].request # NoRequest =>
        bundles[t].request.expects \in {AnyContent, bundles[bundles[t].parent].content}

(* An operation id refused for a request, because it is bound to another or *)
(* because its orphan has a parent that is gone, never acknowledges that    *)
(* request, before or after: the caller may take a new id.                  *)
ConflictIsFinal ==
    \A r, s \in replies :
        r.kind = "conflict" /\ s.kind \in Acks => <<r.tx, r.request>> # <<s.tx, s.request>>

(* The head only ever moves to a bundle whose parent is the head: readers   *)
(* that hold no lock see the next generation or the one they saw.           *)
HeadAdvances == [][head' # head => bundles'[head'].parent = head]_vars

(* One abstract ledger behind the files: what the head stands on, and what  *)
(* the callers were told.                                                   *)
Now(t) == [gen |-> bundles[t].gen, request |-> bundles[t].request, content |-> bundles[t].content]
History == [t \in Applied(head) |-> Now(t)]
Acked == {<<r.tx, r.request, r.gen>> : r \in {s \in replies : s.kind \in Acks}}

Ledger == INSTANCE ConfigLedger WITH
    Transactions <- TxIds, ledger <- History, acked <- Acked

(* execute and its retries amount to a history of commits, each made once   *)
(* and acknowledged with its own generation, after it is in the history.    *)
ImplementsLedger == Ledger!Spec

(* The files and the status beside them are those of the head. *)
ProjectionCurrent ==
    head = NoTx \/ (status = head /\ \A i \in DOMAIN projection : projection[i] = head)

(* Failures and requests over, opening the device again brings the whole    *)
(* compatibility projection to the head's generation.                       *)
ProjectionHeals == <>[]ProjectionCurrent

(* What the disk holds after a power loss is a device that can be opened:   *)
(* the head never becomes durable before the bundles it stands on, whoever  *)
(* retries, resumes, fails or is killed.  The exception is an orphan whose  *)
(* publisher never came to its flush and which a retry resumes: execute     *)
(* switches the head to it without flushing its directory entry.            *)
DiskHeadWhole ==
    (Applied(headDisk) \cup {headDisk}) \ {NoTx} \subseteq bundlesDisk \cup abandoned

=============================================================================
