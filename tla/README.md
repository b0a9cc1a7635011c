# Verification of the SQC virtual calibration platform

This directory holds TLA+ specifications of the parts of `src/src/sqvm` whose
correctness depends on the order in which things happen: who holds a lock, what is on the
disk when a process dies, what a caller was told, which authority a result was made under.
Of the numerical parts of the platform only the order of their steps and the versions of
their authorities are modelled, never their arithmetic. `PROJECT.json` is the index:
components, runs, the lines each definition stands for, hazards and theorems.

## 1. The system and its parts

The platform simulates a chip of two qubits and a coupler and calibrates it. A device
configuration is committed; a calibration workflow compiles circuits and hands them to a
batch; the batch runs them one by one and records each result; results become immutable
run directories, from which candidates and decisions are drawn; runs are archived, trashed
or restored; a web process projects them into an index. Everything is coordinated through
files: there is no database server and no daemon other than the web process.

| component | state it keeps | operations | correct when |
|---|---|---|---|
| Configuration transactions (`web/configuration_transactions.py`) | `head.json` per device, bundles (manifest, receipt, workspace), device lock, flat projection with `projection-status.json` | `ensure_imported`, `execute`, `committed_view`, `materialize` | an acknowledged mutation is in every later head, exactly once; a retry gets its own answer; the projection converges to the head |
| Platform configuration store (`web/configuration.py`, `calibration_config/`) | current configurations, snapshots, drafts with checkpoints, pins, active snapshot, audit | update, snapshot, apply, draft life cycle, activate, keep, delete, prune | nothing active, kept or referenced is deleted; a record names the run its value came from |
| Circuit batch (`runtime/batch.py`) | batch directory (request, `head.json`, point receipts), cancellation file, batch and resource locks | `run_circuit_batch`, `verify_circuit_batch`, `request_circuit_batch_cancellation` | one caller at a time on a batch and on a resource; a counted point is on the disk; a terminal answer is final |
| Circuit execution (`circuits.py`), calibration scan and model runtime | model run and circuit evidence of one point, its worker process, three authorities of its sources | one point of a batch, and the verification of one already there | a point gets circuit evidence only when all it was made with held together |
| Calibration workflows (`calibration/`) | staging and published scan directories, markers; published runs and decisions of a composite calibration | spectroscopy and Rabi scan; measuring, gates, decision, calibrated context | a retry after a stop resumes its batch and publishes once; a frequency in use comes from a run that passed its gates |
| QCIS compiler (`qcis/`) | cursors and frames of one compilation | one instruction after the other | earliest schedule under the barriers; phases in the right frame; arrays within the budget |
| Experiment runner (`runtime/`, `runtime_v02/`) | run directories, event journal, run, resource and recovery locks, cancellation request, run index | `run_experiment`, `request_run_cancellation`, both recoveries, `rebuild_run_catalog` | one run per resource; a run is published or quarantined, never both; an indexed run stays indexed |
| Storage journal (`storage/lifecycle.py`) | chained lifecycle events of a run, O_EXCL lock file | `append_event`, `read_head`, `recover_stale_lock` | the events form one chain; at most one operation is pending |
| Storage operations (`storage/operations.py`) | hot directory, `.sqrun` archive, trash payload with record, pin | `archive`, `restore_hot`, `trash`, `restore_trash`, `set_keep` | one verified carrier always exists; the journal says where it is |
| Storage catalog (`storage/catalog.py`, storage service of `web/server.py`) | derived SQLite file, revision ledger, rebuild lock, token and flags of the service | `rebuild_catalog`, `publish_trash_catalog`, refresh | a revision number is never used for two contents; a catalog taken for current is |
| Registrar (`web/registrar.py`) | inbox events, event locks | `enqueue_published_run` | one event per published run, whoever enqueues it |
| Coordinator and index (`web/coordinator.py`, `index.py`, `read_model.py`) | read model, quarantine | `run_once`, `reconcile_experiments`, `project_experiment_path` | every published run is projected in the end |
| Candidate protocol (`candidate_protocol.py`) | none | pure functions | covered as part of the configuration store |
| Archive format, device, Hamiltonian, spectrum, control arithmetic, evolution, experiments | none | byte layout, numerics and artifact writing | numerical and golden-file tests; not modelled |

How they meet: the configuration store runs each mutation as the transform of a
transaction. The workflow calls the batch, again with the same operation when it stopped;
the batch calls the circuit runner for each point. A published run is announced by the
registrar and projected by the coordinator; storage operations move it between carriers and
the coordinator follows their catalog; what the configuration names may not go to the trash.
What is hard in all of them is the same: a process may be killed between any two file
operations, a flush may fail after the rename it belongs to, a caller may retry what already
happened, two processes may do it at once, and what was compared is old when it is used.
Section 7 gives the hazards, and `PROJECT.json` lists each one at its line.

## 2. Modules

| module | what it is |
|---|---|
| `ConfigLedger` | what a device configuration promises: a history of commits, each acknowledged only when it is in the history |
| `ConfigTransaction` | the store of one device, step by step, with its faults; implements `ConfigLedger` |
| `ConfigurationStore` | what the transactions do: configurations, snapshots, candidates, pruning, and the drafts outside them |
| `BatchProgress` | what a batch promises: bound to one request, one more point at a time, completed or cancelled at most once |
| `CircuitBatch` | `run_circuit_batch` step by step, several callers and batches, cancellation and faults; implements `BatchProgress` |
| `PointExecution` | extends `CircuitBatch`: the steps by which one point is made or verified, under upgrades of the authorities |
| `CalibrationScan` | a scan under one operation id around a batch: staging, documents, verification, publication, retries |
| `CalibrationDecision` | the composite calibration: runs, gates, candidates, decisions and the contexts they lead to |
| `PulseSchedule` | the pass of the QCIS compiler over a program |
| `RunEvidence` | what a directory of a run says, and when the verifier of either schema accepts it |
| `ExperimentRun` | owners, recoveries and index of the runs of one resource, over `RunEvidence` |
| `RunStorage` | what the storage of a run promises: complete evidence is copied, moved and removed but never all of it, and the journal moves only to a state whose evidence is in its place |
| `StorageJournal` | the lifecycle journal of a run: head, transition table, lock file, append, recovery of a lock |
| `StorageOperations` | archive, restore, trash, restore from trash and keep over that journal, step by step; implements `RunStorage` for one caller |
| `StorageCatalog` | the catalog of all runs, its ledger and lock, and the service that caches it |
| `WebProjection` | extends `StorageCatalog`: registrars, inbox, coordinator and index |
| `MC...` | the small instances of each |
| `...Proofs` | the theorems about each (section 4) |

### ConfigTransaction

`head` is `head.json`, `bundles` the published bundle directories with what their manifests
say; `headDisk` and `bundlesDisk` are what a loss of power would leave of them, so that the
rename (`ReplaceHead`, `PublishBundle`) and the flush (`FlushHead`, `FlushBundle`) are
separate steps. `abandoned` is history: the published bundles whose publisher failed or died before their flush. `lock` is the operating system's lock on the device file, which a killed
process gives up. Each client is a thread of its own process with a program counter through
`execute`: `Submit` or `Read`, `Open` (is there a head?), `Lock` or `LockTimeout`, the branches
under the lock (`Replay`, `ResumeOrphan`, `RejectOrphan`, `Transform` or `TransformRefuses`),
publication, head, reread, projection file by file, status, answer. An import of the legacy
files takes the same steps as a transaction without a parent (`ImportFound`,
`ImportPrepare`). `replies` is a history variable: what the callers were told.

A configuration is a member of `Contents`, and a mutation a record of the content it
expects and the one it writes: `expected_content_sha256` hashes the editable content only, so
that a content can come back, and the instance has an update, the one that undoes it, and a
mutation that leaves the content alone. The `entries` of a manifest stand for the rows of its
idempotency catalog, each of which names a receipt. That a refusal for a stale expectation
need not be final follows from contents that return; a refusal for a reused operation id is
final, and `ConflictIsFinal` says so.

### ConfigurationStore

A transaction here is one step: that it is atomic is what `ConfigTransaction` shows. `store` is
what the transactions change: current configuration, snapshots, pins, active pointer. `draft`
holds the directory of each draft, which an editor changes file by file (`pc`, `work`), without
the device lock except while it copies the draft for its publication (`device`); two editors
may load, compare and write the same draft at once, and a kill may leave it half written.
A run is the set of candidates it proposes, and a calibration record its value and the run
it is attributed to. `overlapped` is history: the drafts two editors wrote at once, of which
`AttributionTrue` says nothing.

### CircuitBatch

`made`, `request`, `head`, `receipts`, `model` and `evidence` are the files of a batch and of
its points, `cancellation` the cancellation file (created empty, then written), `stale` the
batches in whose directory a kill left a head temporary. A caller takes the batch lock, then
the resource lock, each with a timeout, then replays, refuses, creates or resumes the batch,
and runs it point by point; `local` is its copy of the head, which the exception handlers
save over the one on the disk. `ResourceOf` gives the resource of a request.
The generation of a head is its number of completed points and is not a variable of its own;
the attempt counter is left out.

### PointExecution

`authority` has for each of the three kinds (model, control, physics) the version of its
sources and the version approved; an upgrade changes one and then the other. A caller
resolves the model authority (`known`), hands it to its worker (`asked`), which builds the
artifact (`draft`) and verifies it in the staging directory, publishes it and verifies it
again (`seen`). `held` is history: the kinds that held when the artifact was
published. `Coherent` says that circuit evidence is only written over an artifact for which
all three held then and whose recorded, worker and resolved authority are one.
`Stuck` names the reasons for which a batch can never be continued (section 6).

### CalibrationScan

`staging` and `target` are the two directories of an operation id, `marker`, `uncertain` and
`cancellation` the files beside them. A document that was torn is one whose successor
was never written. The batch inside is abstracted to its request and number of points: what
it promises is `BatchProgress`. A caller goes through `run_*_scan` with failures of every
step, and is called again with the same or another request. `answers` is what the callers were given.

### CalibrationDecision

`runs` and `decisions` are the published directories, each written once. A caller measures a
coarse, a refined and a confirming scan, publishes a run with the gates it passed or failed,
and another decides which of its candidates are accepted; a decision over a parent makes the
context the next calibration starts from. Peaks are integers on an axis.

### PulseSchedule

The compiler keeps one cursor per lane and one frame per qubit. `events` is what lies on the lanes
and, as history, what each event was put `after` and how far its effect `reaches`, `turns` how far each
instruction turns the qubits; `EarliestStart` and `PhaseTrue` compare the cursors and frames with these.

### RunEvidence and ExperimentRun

`at` and `tree` are the directories of a run in staging, runs and quarantine with their journals and
documents, `stream` the journal file its owner has open (which a recovery may move away). The owner of a
run, operators that recover it, release its resource or rebuild the index, and a cancellation are
programs of their own. `version` chooses one of the two generations of the runner, whose orders of
events and of failures differ. `hasty` is history: the runs an operator recovered while their owner lived, which
the code does not check.

### StorageJournal and StorageOperations

`journal` is what `read_head` computes from the event files of the run, `locked` the lock file, which
outlives its process (`Dead`) until `recover_stale_lock` removes it. `carrier` is what is in the
hot directory, the archive and the trash payload: nothing, complete evidence, or the rest of a removal that
stopped half way (`"part"`, which is there but does not verify). `record` is the trash record,
`pin` the file of the manual keep. An operation is a program counter and the head it read (`seen`).

Every event takes the same steps: `Log` puts it in `log[c]` with the phase that follows and the one its
failure leads to, `Expect` is the head read by `_event`, then `Acquire`, `Write`, `Release` in `StorageJournal`. Between
two events an operation holds no lock, as in the code. `Ready` collects what each step verifies and would
raise for; `Handler` says where the `except` clause around each step goes, so that `Raise`, the failure of
any step, and `Break`, a removal that stops half way, need one action each.

Operation ids are random in the code; here an operation is named after the revision of the event that
started it, which is as unique, and `restore_trash` and `keep`, whose ids nothing looks at again, have
none. Of the hashes in a trash record the three that
`_resume_published_trash` can find changed are kept: operation, previous state and tail. The pin is one of the
references of the reference graph; any other reference, and a scan that is incomplete, is a verification that
raises (`"io"`). The graph that `trash` reads before its head is taken to be read with the check that uses it (`Trashing`).

### StorageCatalog and WebProjection

`carrier` is where each run is. `newer` says that a carrier root was changed since the catalog file
was written, which the code reads from modification times. `catalog`, `ledger` and `lockFile` are the files of
the catalog; `service` is what the storage service of the web server remembers (the token of its last
agreement, its flags), `job` the mutation, refresh or build that holds its lock. A refresh scans, reserves a
revision and publishes in separate steps. `missed` is history: runs published by another process
while a scan was under way.

`WebProjection` adds the registrars with the lock file of each event, the `inbox`, and the
coordinator, which finds an event, reads its run, projects it, and unlinks it or sets it aside
(`quarantine`); a run that was moved between being found and being read, or that cannot be read, gives a row of what is not there
(`ghosts`), and its event, which is valid, is quarantined (`index.py:472`, `:791`, `coordinator.py:173`). `ProjectionFails` has one disjunct for each
place where a read or write of the coordinator fails: only a failure of the read model, or of removing the event, keeps the event
in the inbox (`EventKept`). A reconciliation is taken in the steps scan, list, apply; `ServerKilled` kills all of it.

## 3. Runs

A property is checked by one run; every run finishes without an error. Counts are distinct states.

| run | instance | states | shows |
|---|---|---|---|
| `config_faults` | 2 clients, 2 operation ids, 2 imports, 3 requests with contents that recur, 1 fault (error, failed flush, kill) | 868 903 | `LockHeldInside`, `NothingOverwritten`, `ConflictIsFinal`, `DiskHeadWhole`, `HeadAdvances`, and that commits implement `ConfigLedger` |
| `config_heals` | 2 clients, 1 operation id, 3 imports, 1 request, 2 projected files, 1 fault (error, kill, loss of power) | 130 437 | `AckedSurvive`; under fairness, `ProjectionHeals` |
| `config_store` | 1 record with 2 values, 2 runs whose proposals undo each other, 1 draft, 2 editors, 4 snapshots, 2 checkpoints of a draft, 1 kill | 657 873 | `AuthorityPresent`, `AttributionTrue`, `EvidenceStays`, `SavedIsEffective` |
| `batch_exclusive` | 2 callers, 2 batches of one resource, 2 requests, 1 point, every fault, 2 faults | 475 218 | `Exclusive`, `HeadBacked`, and that each batch implements `BatchProgress` |
| `batch_settles` | 1 caller, 1 batch, 2 points, 2 faults, 1 upgrade of an authority with 2 versions | 140 456 | `Coherent`; under fairness, `Settles` |
| `calibration_scan` | 2 callers, 2 requests, both workflows, 2 points, 2 calls of the other caller, 3 faults of every kind | 626 599 | `PublishedSound`, `AnswersTrue`, `ProgressKept`; under fairness, `Settles` |
| `calibration_decision` | 2 callers, 2 qubits, 2 runs, 2 decisions, coarse axis 2..5 | 362 447 | `Traceable`, `Lineage` |
| `pulse_schedule` | 2 qubits and a coupler, programs of up to 4 instructions, 7 samples | 731 700 | `EarliestStart`, `PhaseTrue`, `ArraysHold` |
| `experiment_run` | 2 runs of one resource, 1 operator, both schemas, 1 point, 2 faults of every kind | 2 023 550 | `ResourceExclusive`, `PublishedSound`, `RecordTrue`, `IndexedStays`, `LockOutlivesRun` |
| `storage_serial` | 1 caller, all seven operations, every fault, 2 faults, 6 calls | 225 368 | `HonestAnswers`, `KeptStays`, and that the operations implement `RunStorage` |
| `storage_processes` | 2 callers that archive and trash across volumes, 4 calls, 1 fault (failing step, failing flush, kill) | 133 514 | `Evidence` |
| `web_shown` | 1 run on the disk in any carrier, 1 published, 2 registrars of it, 1 move, 2 faults | 593 233 | `TypeOK`, `EnqueuedIsKnown`, `CatalogTrue`, `RevisionsRise`; under fairness, `Heals` |

Bounds. Two clients, callers or processes are enough for every pair of steps to interleave. Two operation
ids give a retry, a reuse and an orphan behind a newer head; two imports a race for generation zero. One
fault reaches every orphan and every half-written projection, a second hits the handling of the first, a
third the retry after that. A batch of two points has a first, a last and one in between to stop at. The
two runs of `config_store` propose the change and its reversal, so that a value comes back with another attribution; its four
snapshots exceed the one automatic snapshot that is kept. The axis of `calibration_decision` leaves two inner points as valid peaks. Four instructions
suffice for a composite gate between barriers and placed pulses. Six calls of `storage_serial` make a life cycle with a
retry (discover and keep, archive, trash, restore, restore to hot).

Every bound is a constant named `Max...` in the guards, or one of four constraints in the MC modules, each of which says there
what it leaves out: `OneContention` (of a second batch or a second request, one at a time),
`Bounds` and `Apart` of `MCConfigurationStore` (two editors before the first snapshot only; a transaction happens
between two steps of an editor only when it touches what the editor touches), `Bounds` of
`MCCalibrationDecision` and of `MCWebProjection`. No constraint is used with a liveness property except `Bounds` of
`web_shown`. A state that violates one of its clauses is always entered by a step from outside the service: a mutation that is asked for, a registrar
that begins, a run that is published, or a failure or kill. No step of the service, of the coordinator or of what heals leads there, so fairness is never
met by a step the constraint cuts off. The clauses: a run that starts trashed is moved before the other is published, one that starts archived before
that or not at all; no registrar is at work where there is both a mutation and a fault; the second registrar comes only where nothing is moved, the first run is hot and
no rebuild was killed, and after a fault only when it left the event lock or the event was set aside; the second fault happens without a mutation, and before the first registrar or
after its event was consumed. Symmetry is used only in runs without liveness properties and over identifiers the definitions treat alike.
Deadlock is not checked where the system may rest: when the calls are used up
(storage, web), when every run has ended, when a program is compiled, and in `config_store` and
`calibration_decision`, whose identities are used up.

Fairness.
* `ConfigTransaction`: a client in the middle of a call goes on (weak fairness of its steps), and devices are
  opened again and again. Nothing is assumed of who gets the lock.
* `CircuitBatch` and `PointExecution`: a caller in a call and the point it executes go on, a cancellation in the middle of its write ends, an
  upgrade that began ends; the workflow calls again the batch it is bound to (strong fairness, because
  a call of another request may come in between). Polling for an operating system lock is not fair, so `Settles` is checked with one caller.
* `CalibrationScan`: each caller in a call goes on, and the `Retrier` calls again until its
  operation has ended, as an operator who wants the scan does.
* `WebProjection`: the job that holds the lock of the service goes on, a back-off ends, a stopped server is started
  again; the loop of the coordinator and the scan of its reconciliation come again and again (strong fairness: the loop is a thread that is disabled while a
  mutation holds the lock).
* A failure is never fair, and nothing is assumed of calls an operator may make.

Three liveness properties name what they do not promise, since the code does not (section 6): `Settles` of the batch exempts `Stuck`,
`Settles` of the scan a half-written staging directory, and `Heals` a rebuild lock left by a kill and a projection that
stays paused (both: a hot run is shown, but its row may tell an earlier carrier), a run trashed from the archive, and ghosts. The pause takes two
failures, which is why `web_shown` has two: without its exemption TLC finds `Heals` violated.

## 4. Theorems

Each holds for every value of the constants, under the `ASSUME`s of the modules: identifiers are distinct, bounds are natural
numbers, sets of callers finite where something is counted. TLC evaluates them in every run.

| module | theorem | states |
|---|---|---|
| `ConfigTransactionProofs` | `LockExclusive` | types and `LockHeldInside` |
| | `AcknowledgedSurvive`, `NoUpdateLost`, `HeadMovesToChild`, `RefusalStands` | `AckedSurvive`, `NothingOverwritten`, `HeadAdvances`, `ConflictIsFinal`, without a loss of power |
| | `LedgerImplemented` | `ImplementsLedger`, without a loss of power |
| | `DurableAnswers` | `AckedSurvive` with losses of power, without kill and failed flush |
| | `DurableHead` | `DiskHeadWhole`, under every failure, kill and loss of power |
| `ConfigurationStoreProofs` | `AuthorityKept`, `AttributionsSound`, `EvidenceKept`, `SavesEffective` | `AuthorityPresent`, `AttributionTrue`, `EvidenceStays`, `SavedIsEffective` |
| `BatchProofs` | `ExclusiveCallers`, `BatchSafe`, `ProgressImplemented` | types and `Exclusive`; `HeadBacked` and that answers stand; `ImplementsProgress` |
| | `PointsCoherent` | `Coherent` of `PointExecution` |
| `CalibrationProofs` | `ScanSound`, `AnswersSound`, `PointsKept` | types and `PublishedSound`; `AnswersTrue`; `ProgressKept` |
| | `CalibrationsSound`, `LineageKept` | types and `Traceable`; `Lineage` |
| `PulseScheduleProofs` | `ScheduleSound`, `ArraysWhole`, `PhasesTrue` | types and `EarliestStart`; `ArraysHold`; `PhaseTrue` |
| `ExperimentRunProofs` | `ResourceSafe`, `RecordsSound`, `CatalogKept`, `LockStays` | `ResourceExclusive`, `RecordTrue`, `IndexedStays`, `LockOutlivesRun` |
| | `PublishedRunsSound` | `PublishedSound` |
| `StorageOperationsProofs` | `AnswersHonest`, `KeptRunsStay`, `RunStorageImplemented`, `EvidenceStaysWhole` | `HonestAnswers`, `KeptStays`, `ImplementsRunStorage`, `Evidence`, for one caller (`Serial`) |
| | `EvidenceUnderProcesses` | `Evidence`, for any number of processes that restore nothing and recover no lock (`Concurrent`) |
| `WebProjectionProofs` | `TypesKept`, `EventsKept`, `CatalogSound`, `RevisionsNeverReturn` | `TypeOK`, `EnqueuedIsKnown`, `CatalogTrue`, `RevisionsRise` |

The arguments, each checked by TLC as an invariant of a small instance before it was proved:

* Transactions. `TypeInv` (types and the lock) is inductive as it stands. `SafeInv` adds that bundles name only published
  parents and carry the entries of their parent and their own (`BundleInv`), and that what the lock
  holder is about to make the head is a child of the head it validated: an acknowledgement is given several steps after
  the head was chosen. `ConflictInv` ties a refusal to an entry of the head it was read from, and entries stay. `CountInv` gives each bundle
  its place in the ledger, so that replacing the head appends one entry. For a loss of power `DiskInv` says that
  whoever is behind a flush has put on the disk what it flushed. A loss of power after a kill or a failed flush may take an answered update back
  (section 6), so neither assumption on `Faults` of `DurableAnswers` can be dropped. `DurableHead` needs none: by `WholeInv` a bundle that is
  not on the disk is the one its publisher is about to flush, or was abandoned there, and an orphan is taken up under the lock, where nobody is about to flush.
  So what is behind the durable head is durable, or an orphan that was abandoned and then resumed, which `configuration_transactions.py:993` does not flush.
* Configuration store. `StoreInv`: a snapshot that pruning or a deletion removes is nobody's parent and nobody's base, so a record leads from
  parent to parent to the snapshot that lists its candidate (`Traced`; the least snapshot that has the record from the run decides), and what is retained of
  the candidates of the current configuration is true of its values (`SourceTrue`). `DraftInv` says the same of a draft that no two editors wrote at
  once, with the exception of the moment between the two files of an applied candidate: then its payload is not valid, and a publication that copies it
  refuses. `Moves` is what a transaction does to all of it, one lemma for each. `EvidenceKept` does not use that the scan is complete: what
  may not fit, a current configuration made from older files or a half-written draft, is not where the run of a published record is found.
* Batch. The lock of a batch and that of a resource are held by exactly the caller inside. The copy of the head a caller
  holds is the one on the disk or one step ahead of it at each of its program points; a handler that saves it again
  cannot lower the count or leave a state somebody was told of. That is also the step refinement of `BatchProgress`.
* Point. Versions only grow. What an artifact was made with is never ahead of the authorities, and one that did not hold
  at publication was ahead of the artifact already and stays so; hence a verification after the publication that finds them equal says
  something of the moment of publication (`FlightInv`, `PointInv`).
* Scan. A dataset is created only once, under a name that must not exist, so a published directory belongs to the attempt that bound the batch without a
  lock around the scan. `Inv` says at each step of a caller what the two directories must hold.
* Decision. Directories are written once and name what they were made from; every frequency in use is followed back to the run that
  measured it. `Lineage` follows from the same invariant: no history is needed.
* Schedule. `CursorsTight`: a cursor is the end of the last event of its lane, or of a barrier that binds it. Then the place of an appended pulse
  is the largest end among the events it has to come after, which is the earliest start.
* Phases. `PhaseInv`: a frame is the sum of the turns so far, and the phase of a gate was made with the sum of those before it. That
  such a sum exists and that there is one only is extended by one instruction at a time with the program, as part of the invariant:
  a sum over a sequence would otherwise need an induction over data.
* Runs. `IInv`: where the directories of a run are follows from where its owner is and who moved them. A run whose journal was moved to
  quarantine has a staging directory without its first events, which never verifies, so it is not published. What an operator found of its run
  cannot be changed by another operator, because recovery locks keep their jobs apart, and while `hasty` is empty the owner is gone. A rebuild holds the
  lock of the index, so its scan has every run whose caller was told.
* Published runs. `JournalInv`: while the journal of a run is open in its staging directory, it tells the phase the owner is in, how
  far its points are and how the run ended; one that was moved away is never published. The failure path can append a second end to a
  journal (`runner.py:206`), with a recovery or without; such a journal fails the verification, since an end is only accepted as the last event. So a
  published run ended once, with the status it tells, and completed as many points as got a response.
* Storage, one caller. `Inv`: an append is bound by the event its caller chose, and several steps pass until it is written or refused. At each of them
  the invariant promises what the caller finds afterwards: if the event applies, the new head is lawful and the next steps may rely on what they
  verified (`Known`), and if it does not, the handler finds carriers it can roll back (`Promise`). `RunStorage` follows step by step. Two
  assumptions (`Serial`): with a second caller a restore can remove what another restored, and a removal across volumes that stops half way is
  rolled back over the only complete copy. Section 6 names the lines of both.
* Storage, several processes. `ProcessInv`: the lock is held for single events, so what keeps processes apart is the journal. An operation that
  destroys evidence has its started event there, which another process can end only towards the trash, from where none of these
  operations starts. So at most one process is in the steps of a trash, at most one in a cleanup, never both, and
  what it verified before a removal still holds at the removal. Restores are left out (`Concurrent`) because with them it is false. The recovery of a
  lock is left out because the model takes the check of the head and the write of an event as one step, which is right only while the lock is kept.
* Catalog and projection. The catalog is current when no carrier root is newer or the token equals the carriers; a mutation begins in such a
  state and moves a carrier away from the token; what a rebuild's scan missed was published after it, differs from what the
  scan started with and makes a root newer, unless its publication was taken for seen (`missed`, `FreshInv`, `ScanInv`). One that
  was published late in a scan is known to be missing: no token has it (`LateInv`). A job that reserved a revision has the ledger's, above the highest
  published. An event is in the inbox until the coordinator that consumes it has projected its run, whichever registrar or
  retry put it there (`EventInv`), or sets it aside, which it does only after a move or a failure (`Calm`).

Every safety invariant and action property of the runs is stated by one of these theorems. Only model-checked:
* Liveness (`ProjectionHeals`, both `Settles`, `Heals`), which is out of the prover's reach.
* `AckedSurvive` for a loss of power among callers that could also be killed, within the one fault of `config_heals`: a kill that is followed by a
  loss of power can take an answered update back (section 6).

The type invariants of the modules with proofs are theorems and, except for `WebProjection`, not checked by a run of their own. Of
`ConfigurationStore` the proof carries the types it needs in `StoreInv` and `DraftTypes`, without the bounds of the instance.

## 5. What the models leave out

Everywhere:
* Hashes, canonical JSON and path checks: a file that was written whole verifies. Corruption of a file
  at rest is not modelled.
* Staging directories, except where a later step looks at them.
* Two threads of one process that share the process's fate: a caller is a process, except in the web service, which is one server.

By component:
* Transactions: bootstrap of a device that has no legacy configuration.
* Configuration store: validation of editable documents, the content of the control section beyond whether it differs from the parent's,
  views and diffs, `resolve_active_context`; a candidate's units and paths.
* Batch: compilation and validation of the circuits, which happen before the locks and change
  nothing. A deadline is positive and is modelled to pass only after a point was run in the same attempt.
* Point: versions of the authorities only grow; policy files, environment snapshots, the frozen model configuration and idle flux; reads of the
  physics authority that follow each other are one read; a source snapshot vouches for the files on the disk.
* Scans: fits and other numerics, the rabi phase scan, the preflight refusal of the control, static checks before the batch. A deadline is a
  failing point. Recommendation ids that nothing names are used again.
* Decision: an abandoned step stands for every refusal and kill before its rename.
* Compiler: samples, amplitudes, carriers and detunings, admission of templates, bindings, settings and authorities (which only
  refuse: `Refuse` stands for every refusal), flux mappers; one XY setting, one composite duration.
* Runner: payloads of events, data arrays, the environment and source snapshots a verification compares, the backends. Checking and creating a
  cancellation is one step, as are the three terminal documents, the lock and scan of an index rebuild, and the index entry of a recovery. One resource.
* Storage of a run: events nobody writes (purge, staging recovery, failed reference scan), a half-written event file, staging directories a kill
  leaves behind, the retention policy.
* Catalog: the content of a scanned directory, the quarantine of a corrupt catalog file.
* Projection: malformed events, identity conflicts, the keep of a run in the web service, what a row shows besides run and carrier; an event
  file and its temporary are one; archives of other workflows than the spectroscopy, which `experiment_detail` refuses (`web/server.py:603`).
* Not modelled at all: the byte layout of archives, device and Hamiltonian models, spectrum, experiment definitions, HTTP routing and
  rendering. They keep no state between calls, and what can go wrong in them is a matter of numbers and formats.

The map covers less than a quarter of the implementation's lines: validators, numerics, views and document formats make up most of the rest.

## 6. Known disagreements with the documents

They were met while modelling. The models contain the steps that lead to them, and no property asks for the contrary: where one would, it names the exception. Documents are under
`src/docs/`.

Transactions and configuration store:
* `configuration_transactions.py:1170`: a flush that fails after the head was replaced is answered `aborted` although the head moved (07_1_11:60).
* `configuration_transactions.py:955`: a replay answers `durability_status: committed` for a head that was replaced
  and never flushed (kill between the two); a loss of power then takes an answered update back.
* `configuration_transactions.py:993`: an orphan is resumed without flushing its directory entry, so that the head can
  be durable before its bundle (`abandoned` exempts it from `DiskHeadWhole`). To do harm both need a kill or a failed flush, and then a loss of power.
* `configuration_transactions.py:956`: a replay answers `projection_status: complete` whatever the files say.
* `configuration_transactions.py:116`: an open materializes without the lock from a view that may be old; until the next
  open, the status can say complete over files of an older generation.
* 07_1_5:38 and 07_1_2:203 keep ten automatic snapshots; each snapshot names its predecessor, so none of a chain is ever pruned, and with the default root,
  under `output`, nothing is.
* `update_draft` writes `{}` when no candidate is left, and a current configuration that was made from older files has no source: either makes the
  reference scan incomplete, which keeps every run out of the trash. So does a draft a kill left half written, which no operation can delete.
* An apply reads a run that may be in the trash already, and one between the last reference check and the move trashes a referenced run.
* A kill between the two writes of `apply_candidates_to_draft`, and two editors of one draft (both pass the comparison; `validate_draft` can
  revert an update), lead to a record that names a run which did not propose its value. `AttributionTrue` excludes these drafts.
* A save makes a snapshot without calibration active (`configuration.py:1337`), which `set_active` refuses (`:406`).

Batch and points:
* `batch.py:438`: after a kill between the receipt of a point and the head every later run raises `point receipt already exists outside the batch head`; 07_1_12:149 and
  :108 say that it is adopted.
* After an upgrade of an authority a point published and not yet in the head can never be adopted, and a point whose second verification
  fails keeps its model evidence without circuit evidence. Both block the batch for ever (07_1_12:105); `Stuck` names them.
* `batch.py:612`: points before the head are reopened by their receipts alone, and the request does not name the authorities: a batch resumed after an upgrade can
  complete with points of two versions (07_1_6:51).
* `batch.py:259`: a head temporary left by a kill makes the batch unverifiable, also when it completes later.
* `batch.py:488`: a failed flush after the completed head was saved is answered by saving it as interrupted.

Scans, decisions, compiler:
* A kill or failed write between the dataset and the last terminal document leaves a staging directory that no retry can finish
  (`spectroscopy_run.py:817`; 07_1_12:138, 07_1_13:612).
* On a retry the recovery markers are cleared before the verification, outside the `try`: a failure then leaves no record (07_1_8:84).
* Of two callers of one operation the loser's recovery record can be published with the scan, whose exact-root verification then fails for
  ever; and a caller between its two looks can run every circuit again after the publication. `PublishedSound` leaves the record out.
* 07_1_1 section 22 publishes a run whatever gate fails; an invalid refined peak raises instead (`spectroscopy_workflow.py:635`, `:698`).
* A flush that fails after the rename tells the caller that the publication failed. Nothing prevents two contradictory decisions on one recommendation. A root parent without values fits
  any context, so `Lineage` speaks of calibrated parents only.
* `docs/designs/07_qcis_compiler_design.md:392` contradicts `:27` and the code about absolute placement.

Runner:
* `runner.py:158`: an exhausted budget raises after `point_started`, outside the clause that writes `point_failed`; the run is not published, and staging and locks
  stay (06_experiment_runtime_plan:119).
* `runner.py:206`: when closing the journal fails after `run_completed`, `run_failed` is appended, and no verifier accepts the run.
* `runtime_v02`: a failure between `run_prepared` and `run_started` leaves a journal its own verifier refuses.
* Design 06:264 keeps both locks when the publication does not complete; `runner.py:194` releases them.
* A recovery of a published run, or a second one, raises and leaves the recovery lock (design 06:463 calls it retryable). Whether the owner lives is
  not checked: its run can be published while its first directory is in quarantine.

Storage:
* `operations.py:188` and `:353`: the design (07_1_8, section 9.1)
  holds the lock of a run from the first step of an operation to the last; the code holds it for each event. Two
  processes that both restore a run, to hot or from the trash, can leave it without a complete carrier; one
  that trashes it can miss a keep made after its last look at the references; one that resumes a trash can finish it while its owner rolls it back.
  `storage_processes` therefore has the operations for which complete evidence does survive.
* `operations.py:693` with `:309`: with the trash on another volume, a removal of the source that fails half way is followed by a rollback that removes
  the only complete copy.
* `operations.py:359`: a failure after `trash_restored` was written moves the carrier back into the trash, while the
  journal says that it was restored.
* `operations.py:164`: a removal of the hot directory that stops half way leaves `archived_duplicate` with a hot directory that
  no longer verifies, and a retry of the archive refuses it; section 9.1 asks for idempotent retries.
* `operations.py:123`, `:274`, `:353`: a kill right after `archive_started` or `trash_started`, or in the middle of a restore from the trash, leaves a
  state that no operation accepts again.
* `operations.py:309`: a kill before the source of a copied trash is removed leaves a resumed trash with its source, and a restore from the trash is then refused.
* `lifecycle.py:312`: an error while the lock file is written leaves the lock to nobody until the process dies.
* `lifecycle.py:125`: the comment says that a lock of a new owner is never removed; between the comparison and the `unlink` it can be.

Catalog and projection:
* A kill inside a rebuild or a publication leaves `.catalog.sqlite.rebuild.lock` for ever (07_1_8:874, :1043).
* `server.py:919`: a run published by another process during a trash publication is taken as seen (against `server.py:342`), and the same is lost by a
  restart, which compares modification times. These are the "missed" runs of `missed`, which `CatalogTrue` exempts.
* A registrar can raise a conflict although its event is enqueued.
* A run trashed from the archive without an active row is projected by nothing.
* After a failed refresh followed by a synchronous first build the error stays set (`server.py:363`, `:523`), and the projection is paused until a carrier changes;
  `Heals` exempts it (`Paused`).
* A valid event of a run that is moved while it is read, or cannot be read, is quarantined (`coordinator.py:173`), although the comment at `:188` keeps
  events through storage failures; and a row of something that is not there stays until a
  reconciliation with another digest (`index.py:441`; against docs/designs/07_1_9:289).

## 7. Hazards and what covers them

`PROJECT.json` lists 40 hazards, each at its line, with the properties that would be violated if it went wrong. Two have none:
`lifecycle.py:125` (a lock removed by name after its bytes were compared: the model has both steps, but takes the inside of an append as one step, so
it does not show what two appends without a lock do to each other, and recoveries are left out where there are several callers) and `batch.py:612` (points of two authority versions in a batch, which the code permits).
By kind: kills and partial failures of every commit, publication and removal; two processes on one batch, resource, run, draft or catalog; values that
are stale when used (the expected content, the head of a journal, the authority of a point, the scan of a catalog); retries of what already
happened; budgets and boundaries of the compiler; and what must happen in the end (projections, batches, scans, the index).

## 8. Plan

1. `AckedSurvive` after a loss of power with kills, for the clients a kill does not concern.
2. `Evidence` for several processes when at most one of them restores.
