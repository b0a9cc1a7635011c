--------------------------- MODULE StorageCatalog ---------------------------
(***************************************************************************)
(* The catalog of the experiment storage and the web service in front of   *)
(* it: src/sqvm/storage/catalog.py and the storage service of              *)
(* src/sqvm/web/server.py.                                                 *)
(*                                                                         *)
(* The carriers of the runs are directories and files; the catalog is a    *)
(* database file derived from them, replaced as a whole by a rebuild, or   *)
(* by a publication of what a trash operation changed.  A revision ledger  *)
(* and a lock file lie beside it.  The service remembers a token, the      *)
(* carriers as they were when the catalog was last seen to agree, and      *)
(* refreshes the catalog in the background when they differ.  Calibration  *)
(* processes publish new runs at any moment.                               *)
(*                                                                         *)
(* What holds the lock of the service is one job at a time: a refresh, the *)
(* first build, or a mutation with the catalog update that ends it.        *)
(***************************************************************************)
EXTENDS Integers, FiniteSets, FiniteSetsExt

CONSTANTS
    Runs,       \* run ids
    OnDisk,     \* runs that are there from the start
    NoToken,    \* the token of a service that knows of no agreement
    MaxMoves,   \* bound on the mutations
    MaxFaults   \* bound on the failures, the kills and the losses

ASSUME CatalogAssumption ==
    OnDisk \subseteq Runs /\ MaxMoves \in Nat /\ MaxFaults \in Nat

(* Where a run has its carrier; a trashed run is restored to where it was. *)
Places == {"none", "hot", "archived", "trashed hot", "trashed archived"}
Trashed == {"trashed hot", "trashed archived"}

ASSUME TokenAssumption == NoToken \notin [Runs -> Places]

VARIABLES
    carrier,   \* run -> its place
    newer,     \* did a carrier root change since the catalog file was written
    catalog,   \* the catalog file: its revision, 0 when there is none, and its rows
    ledger,    \* the revision reserved last
    lockFile,  \* "free", "held", or "left" by a process that was killed
    service,   \* the token of the service and its flags
    job,       \* what holds the lock of the service
    highest,   \* history: the highest revision ever published
    missed,    \* history: runs published unseen, run -> "no", "late" or "missed"
    moves, faults

storage == <<carrier, newer, catalog, ledger, lockFile, service, job, highest, missed, moves,
             faults>>

NoRows == [r \in Runs |-> "none"]
NoJob == [kind |-> "none", phase |-> "none", before |-> NoToken, rows |-> NoRows, rev |-> 0,
          newer |-> FALSE, batch |-> {}, done |-> {}]
FreshService == [token |-> NoToken, required |-> FALSE, error |-> "none"]

StorageInit ==
    /\ carrier \in [Runs -> Places] /\ OnDisk = {r \in Runs : carrier[r] # "none"}
    /\ newer = TRUE
    /\ catalog = [rev |-> 0, rows |-> NoRows] /\ ledger = 0 /\ lockFile = "free"
    /\ service = FreshService /\ job = NoJob
    /\ highest = 0 /\ missed = [r \in Runs |-> "no"]
    /\ moves = 0 /\ faults = 0

Max2(m, n) == IF m > n THEN m ELSE n

Busy == job.kind # "none"
Refreshing == job.kind = "refresh"
Starting(kind, batch) ==
    [NoJob EXCEPT !.kind = kind, !.batch = batch,
                  !.phase = IF batch = {} THEN "lock" ELSE "move"]

-----------------------------------------------------------------------------
(* A calibration process publishes a run. *)
Publish(r) ==
    /\ carrier[r] = "none"
    /\ carrier' = [carrier EXCEPT ![r] = "hot"]
    /\ newer' = TRUE
    /\ missed' = [missed EXCEPT ![r] =
                    IF job.kind = "trash" THEN "missed"
                    ELSE IF job.phase = "scanned" THEN "late" ELSE "no"]
    /\ job' = [job EXCEPT !.newer = job.phase = "reserved"]
    /\ UNCHANGED <<catalog, ledger, lockFile, service, highest, moves, faults>>

(* The cache is deleted: the catalog is derived and may be built again. *)
LoseCatalog ==
    /\ faults < MaxFaults /\ ~ Busy /\ catalog.rev # 0
    /\ catalog' = [rev |-> 0, rows |-> NoRows]
    /\ faults' = faults + 1
    /\ UNCHANGED <<carrier, newer, ledger, lockFile, service, job, highest, missed, moves>>

-----------------------------------------------------------------------------
(* _ensure_catalog, which every request and every pass of the coordinator calls first:    *)
(* what it does when it may go on.                                                        *)
Resting == service.error = "backoff"
Trusting == service.token = NoToken /\ ~ service.required /\ ~ newer
Settled == catalog.rev # 0 /\ (Trusting \/ service.token = carrier)

Ensured ==
    IF Resting \/ Settled
    THEN /\ service' = IF ~ Resting /\ Trusting THEN [service EXCEPT !.token = carrier]
                       ELSE service
         /\ UNCHANGED job
    ELSE /\ job' = Starting(IF catalog.rev = 0 THEN "first" ELSE "refresh", {})
         /\ service' = IF catalog.rev = 0 THEN service ELSE [service EXCEPT !.error = "none"]

(* overview: a request that reads. *)
Look ==
    /\ ~ Busy /\ ~ Resting /\ Ensured
    /\ UNCHANGED <<carrier, newer, catalog, ledger, lockFile, highest, missed, moves, faults>>

(* The time after which a failed refresh may be tried again is over. *)
BackOffOver ==
    /\ Resting
    /\ service' = [service EXCEPT !.error = "retry"]
    /\ UNCHANGED <<carrier, newer, catalog, ledger, lockFile, job, highest, missed, moves,
                   faults>>

-----------------------------------------------------------------------------
(* Mutations act on the catalog the caller has seen, and only while it is settled.        *)
From(kind) ==
    CASE kind = "archive" -> {"hot"}
      [] kind = "restore-hot" -> {"archived"}
      [] kind = "trash" -> {"hot", "archived"}
      [] kind = "restore" -> Trashed

Moved(kind, place) ==
    CASE kind = "archive" -> "archived"
      [] kind = "restore-hot" -> "hot"
      [] kind = "trash" -> IF place = "hot" THEN "trashed hot" ELSE "trashed archived"
      [] kind = "restore" -> IF place = "trashed hot" THEN "hot" ELSE "archived"

(* mutate, or batch_trash for several runs. *)
Mutate(kind, batch) ==
    /\ ~ Busy /\ ~ Resting /\ Settled /\ moves + Cardinality(batch) <= MaxMoves
    /\ batch # {} /\ \A r \in batch : catalog.rows[r] \in From(kind)
    /\ kind # "trash" => Cardinality(batch) = 1
    /\ job' = Starting(kind, batch)
    /\ service' = [service EXCEPT !.token = carrier]
    /\ UNCHANGED <<carrier, newer, catalog, ledger, lockFile, highest, missed, moves, faults>>

(* The operation on the next carrier. *)
Move ==
    /\ job.phase = "move"
    /\ \E r \in job.batch \ job.done :
         /\ carrier[r] \in From(job.kind)
         /\ carrier' = [carrier EXCEPT ![r] = Moved(job.kind, @)]
         /\ job' = [job EXCEPT !.done = @ \cup {r},
                              !.phase = IF job.batch = job.done \cup {r} THEN "lock" ELSE @]
    /\ newer' = TRUE /\ moves' = moves + 1
    /\ UNCHANGED <<catalog, ledger, lockFile, service, highest, missed, faults>>

(* The operation refuses or fails: what was done before is still published. *)
MoveFails ==
    /\ job.phase = "move" /\ faults < MaxFaults
    /\ faults' = faults + 1
    /\ job' = IF job.done = {} THEN NoJob
              ELSE [job EXCEPT !.batch = job.done, !.phase = "lock"]
    /\ UNCHANGED <<carrier, newer, catalog, ledger, lockFile, service, highest, missed, moves>>

-----------------------------------------------------------------------------
(* rebuild_catalog and publish_trash_catalog, up to the file they prepare.                *)

(* What the service keeps of an update that failed. *)
AfterFailure ==
    CASE job.kind = "refresh" -> [token |-> NoToken, required |-> TRUE, error |-> "backoff"]
      [] job.kind = "trash" -> [service EXCEPT !.token = NoToken, !.required = TRUE]
      [] OTHER -> service

UpdateFails(released) ==
    /\ job' = NoJob /\ service' = AfterFailure
    /\ lockFile' = IF released THEN "free" ELSE lockFile
    /\ UNCHANGED <<carrier, newer, catalog, ledger, highest, missed, moves>>

AcquireLock ==
    /\ job.phase = "lock" /\ lockFile = "free"
    /\ lockFile' = "held"
    /\ job' = [job EXCEPT !.phase = "locked", !.before = carrier]
    /\ UNCHANGED <<carrier, newer, catalog, ledger, service, highest, missed, moves, faults>>

Conflict ==
    /\ job.phase = "lock" /\ lockFile # "free"
    /\ UpdateFails(FALSE) /\ UNCHANGED faults

(* The rows of the next catalog: a scan of every carrier, or the rows of the catalog with  *)
(* those of the trashed runs changed.                                                     *)
Scan ==
    /\ job.phase = "locked"
    /\ job' = [job EXCEPT !.phase = "scanned", !.batch = {}, !.done = {},
                 !.rev = Max2(catalog.rev, ledger) + 1,
                 !.rows = IF job.kind = "trash"
                          THEN [r \in Runs |-> IF r \in job.batch
                                               THEN Moved("trash", catalog.rows[r])
                                               ELSE catalog.rows[r]]
                          ELSE carrier]
    /\ UNCHANGED <<carrier, newer, catalog, ledger, lockFile, service, highest, missed, moves,
                   faults>>

(* Bug: the ledger is left for a later rebuild. *)
WriteLedgerNever ==
    /\ job.phase = "scanned" /\ job.rev > ledger
    /\ job' = [job EXCEPT !.phase = "reserved"]
    /\ UNCHANGED <<carrier, newer, catalog, ledger, lockFile, service, highest, missed, moves,
                   faults>>

(* The file is complete, with the time by which a restarted service will date the catalog, *)
(* and _write_ledger_revision reserves its revision.                                       *)
WriteLedger ==
    /\ job.phase = "scanned" /\ job.rev > ledger
    /\ ledger' = job.rev
    /\ job' = [job EXCEPT !.phase = "reserved"]
    /\ UNCHANGED <<carrier, newer, catalog, lockFile, service, highest, missed, moves, faults>>

Replace ==
    /\ job.phase = "reserved"
    /\ catalog' = [rev |-> job.rev, rows |-> job.rows]
    /\ highest' = Max2(highest, job.rev)
    /\ newer' = job.newer
    /\ missed' = [r \in Runs |-> IF job.rows[r] = "none" THEN missed[r] ELSE "no"]
    /\ job' = [job EXCEPT !.phase = "replaced", !.newer = FALSE,
                          !.rows = NoRows, !.rev = 0]
    /\ UNCHANGED <<carrier, ledger, lockFile, service, moves, faults>>

StepFails ==
    /\ job.phase \in {"locked", "scanned", "reserved"} /\ faults < MaxFaults
    /\ faults' = faults + 1
    /\ UpdateFails(TRUE)

(* The token after an update: of a rebuild only when no carrier changed under it; of a    *)
(* publication, whatever is there by now.                                                 *)
AfterRebuild ==
    IF job.before = carrier THEN [service EXCEPT !.token = carrier, !.required = FALSE]
    ELSE [service EXCEPT !.token = NoToken, !.required = TRUE]

(* Bug: the token is taken after the rebuild only. *)
AfterUpdateUncompared == [token |-> carrier, required |-> FALSE, error |-> "none"]

AfterUpdate ==
    IF job.kind = "trash" THEN [token |-> carrier, required |-> FALSE, error |-> "none"]
    ELSE AfterRebuild

Finish ==
    /\ job.phase = "replaced"
    /\ lockFile' = "free" /\ job' = NoJob /\ service' = AfterUpdate
    /\ UNCHANGED <<carrier, newer, catalog, ledger, highest, missed, moves, faults>>

-----------------------------------------------------------------------------
(* The server is killed: the lock file stays; a new service knows nothing. *)
ServiceKilled ==
    /\ faults < MaxFaults /\ faults' = faults + 1
    /\ job' = NoJob /\ service' = FreshService
    /\ lockFile' = IF lockFile = "held" THEN "left" ELSE lockFile
    /\ missed' = [r \in Runs |-> IF missed[r] = "late" THEN "missed" ELSE missed[r]]
    /\ UNCHANGED <<carrier, newer, catalog, ledger, highest, moves>>

Request ==
    \/ Look \/ LoseCatalog
    \/ \E kind \in {"archive", "restore-hot", "trash", "restore"}, batch \in SUBSET Runs :
         Mutate(kind, batch)

JobStep ==
    \/ Move \/ MoveFails \/ AcquireLock \/ Conflict \/ Scan \/ WriteLedger
    \/ Replace \/ StepFails \/ Finish

-----------------------------------------------------------------------------
StorageTypeOK ==
    /\ carrier \in [Runs -> Places] /\ newer \in BOOLEAN
    /\ catalog.rev \in Nat /\ ledger \in Nat /\ catalog.rows \in [Runs -> Places]
    /\ lockFile \in {"free", "held", "left"}
    /\ lockFile = "held" <=> job.phase \in {"locked", "scanned", "reserved", "replaced"}
    /\ service.token \in [Runs -> Places] \cup {NoToken}
    /\ job.done \subseteq job.batch /\ job.batch \subseteq Runs

(* A revision is never published twice: what a caller has seen under a revision is what   *)
(* its mutation is checked against, although the catalog may be lost and built again, and *)
(* kills and failures fall between the ledger and the replacement of the file.            *)
RevisionsRise ==
    [][ catalog'.rev # 0 /\ catalog' # catalog => catalog'.rev > highest ]_storage

(* While the service takes its catalog for current and nothing runs, every row tells where *)
(* the carrier is, but for runs another process published during a publication of trashed *)
(* runs, or in the window of a rebuild whose service was then killed.                      *)
CatalogTrue ==
    (~ Busy /\ catalog.rev # 0 /\ service.token = carrier) =>
        \A r \in Runs : missed[r] # "missed" => catalog.rows[r] = carrier[r]
=============================================================================
