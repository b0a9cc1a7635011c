--------------------------- MODULE WebProjection ---------------------------
(***************************************************************************)
(* How a published run comes to be shown: src/sqvm/web/registrar.py,       *)
(* coordinator.py, index.py and read_model.py over the storage catalog of  *)
(* module StorageCatalog.                                                  *)
(*                                                                         *)
(* The process that publishes a run puts an event for it in the inbox,     *)
(* under a lock file of the event; a failure to do so is ignored.  In the  *)
(* server the coordinator consumes the events, copies the carrier states   *)
(* of the catalog into the read model, and from time to time reconciles    *)
(* the read model with the hot directories it finds.                       *)
(*                                                                         *)
(* A directory is found first and read afterwards, without a lock that     *)
(* keeps a mutation from moving it in between.  What is read of a run that *)
(* was moved, or whose documents cannot be read, is not the run: a row     *)
(* nobody published, a ghost, enters the read model, and an event that led *)
(* to it is quarantined.                                                   *)
(***************************************************************************)
EXTENDS StorageCatalog

CONSTANTS
    Registrars,  \* processes that put an event in the inbox
    Retries,     \* those of them that come later and find the run published
    RunOf,       \* registrar -> the run whose event it puts there
    Nobody       \* holder of an event lock when there is none

ASSUME RegistrarAssumption == RunOf \in [Registrars -> Runs] /\ Nobody \notin Registrars
                              /\ Retries \subseteq Registrars

VARIABLES
    inbox,      \* runs with an event in the inbox
    eventLock,  \* run -> the registrar whose lock file is there
    registrar,  \* registrar -> where it is
    quarantine, \* runs whose event was set aside
    readModel,  \* run -> its row
    ghosts,     \* runs with an active row of what was read in place of them
    digest,     \* what the last reconciliation found, or nothing yet
    coord,      \* the coordinator: where it is, its list, its rows, the run it works on
    enqueued,   \* history: runs a registrar was told are enqueued
    projected   \* history: runs the read model has ever known

projection == <<inbox, quarantine, eventLock, registrar, readModel, ghosts, digest, coord,
                enqueued, projected>>
vars == <<storage, projection>>

NoRow == [active |-> FALSE, carrier |-> "none"]
HotRow == [active |-> TRUE, carrier |-> "hot"]
Idle == [at |-> "sync again", todo |-> {}, rows |-> NoRows, run |-> {}, place |-> "none",
         ghosts |-> {}]
Down == [Idle EXCEPT !.at = "down"]

Hot == {r \in Runs : carrier[r] = "hot"}

Init ==
    /\ StorageInit
    /\ inbox = {} /\ quarantine = {} /\ ghosts = {} /\ eventLock = [r \in Runs |-> Nobody]
    /\ registrar = [p \in Registrars |-> "start"]
    /\ readModel = [r \in Runs |-> NoRow] /\ digest = {}
    /\ coord = [Idle EXCEPT !.at = "first scan"]
    /\ enqueued = {} /\ projected = {}

-----------------------------------------------------------------------------
(* enqueue_published_run, by the process that published the run or a later one. *)
server == <<quarantine, readModel, ghosts, digest, coord, projected>>

Become(p, phase) == registrar' = [registrar EXCEPT ![p] = phase]

(* _release_event_lock, with the end of what was done under the lock. *)
Leave(p) == Become(p, "end") /\ eventLock' = [eventLock EXCEPT ![RunOf[p]] = Nobody]
Told(p) == enqueued' = enqueued \cup {RunOf[p]}

Publishing(p) ==
    /\ registrar[p] = "start" /\ p \notin Retries /\ Publish(RunOf[p])
    /\ Become(p, "identify")
    /\ UNCHANGED <<inbox, eventLock, enqueued, server>>

Again(p) ==
    /\ registrar[p] = "start" /\ p \in Retries /\ carrier[RunOf[p]] # "none"
    /\ Become(p, "identify")
    /\ UNCHANGED <<storage, inbox, eventLock, enqueued, server>>

(* _published_identity is of the documents in the directory, and raises without them. *)
Identify(p) ==
    /\ registrar[p] = "identify"
    /\ Become(p, IF carrier[RunOf[p]] = "hot" THEN "lock" ELSE "end")
    /\ UNCHANGED <<storage, inbox, eventLock, enqueued, server>>

(* The event is there already, before the lock is tried or when it is taken. *)
Found(p) ==
    /\ registrar[p] = "lock" /\ RunOf[p] \in inbox
    /\ Become(p, "end") /\ Told(p)
    /\ UNCHANGED <<storage, inbox, eventLock, server>>

(* _acquire_event_lock *)
TakeEventLock(p) ==
    /\ registrar[p] = "lock" /\ eventLock[RunOf[p]] = Nobody
    /\ eventLock' = [eventLock EXCEPT ![RunOf[p]] = p]
    /\ Become(p, "write")
    /\ UNCHANGED <<storage, inbox, enqueued, server>>

(* Bug: the lock waited for is taken for stale and removed. *)
EventLockTimeoutStale(p) ==
    /\ registrar[p] = "lock" /\ eventLock[RunOf[p]] # Nobody
    /\ Leave(p)
    /\ UNCHANGED <<storage, inbox, enqueued, server>>

EventLockTimeout(p) ==
    /\ registrar[p] = "lock" /\ eventLock[RunOf[p]] # Nobody
    /\ Become(p, "end")
    /\ UNCHANGED <<storage, inbox, eventLock, enqueued, server>>

(* Under the lock: the event is there by now, or the write fails, or it is put there. *)
WriteEvent(p) ==
    /\ registrar[p] = "write"
    /\ \/ /\ RunOf[p] \in inbox /\ Leave(p) /\ Told(p) /\ UNCHANGED <<inbox, faults>>
       \/ /\ RunOf[p] \notin inbox /\ faults < MaxFaults
          /\ faults' = faults + 1 /\ Leave(p) /\ UNCHANGED <<inbox, enqueued>>
       \/ /\ RunOf[p] \notin inbox
          /\ inbox' = inbox \cup {RunOf[p]} /\ Become(p, "verify")
          /\ UNCHANGED <<faults, eventLock, enqueued>>
    /\ UNCHANGED <<carrier, newer, catalog, ledger, lockFile, service, job, highest, missed,
                   moves, server>>

(* The event is read back; it may have been consumed already, which passes for a conflict. *)
VerifyEvent(p) ==
    /\ registrar[p] = "verify" /\ Leave(p)
    /\ IF RunOf[p] \in inbox THEN Told(p) ELSE UNCHANGED enqueued
    /\ UNCHANGED <<storage, inbox, server>>

RegistrarKilled(p) ==
    /\ registrar[p] \notin {"start", "end"} /\ faults < MaxFaults
    /\ faults' = faults + 1 /\ Become(p, "end")
    /\ UNCHANGED <<carrier, newer, catalog, ledger, lockFile, service, job, highest, missed,
                   moves, inbox, eventLock, enqueued, server>>

Register(p) ==
    \/ Publishing(p) \/ Again(p) \/ Identify(p) \/ Found(p) \/ TakeEventLock(p)
    \/ EventLockTimeout(p) \/ WriteEvent(p) \/ VerifyEvent(p) \/ RegistrarKilled(p)

-----------------------------------------------------------------------------
(* The coordinator, one pass after the other.                              *)
registration == <<eventLock, registrar, enqueued>>

Row(r, row) ==
    readModel' = [readModel EXCEPT ![r] = row] /\ projected' = projected \cup {r}

NoChange == UNCHANGED <<readModel, projected>>

(* _project_experiment of a directory that was moved since it was found: nothing can be    *)
(* read, or what was read lacks the identity of the documents.                            *)
Ghost(r, found) == IF carrier[r] = found THEN {} ELSE {r}

(* _acknowledge_inbox_identity *)
Acknowledge(r) == inbox' = inbox \ {r}

Syncing == coord.at \in {"sync", "sync again"}

(* The pass before is over: of its two synchronisations the second follows a scan. *)
StartPass ==
    /\ Syncing /\ coord.todo = {}
    /\ coord' = [coord EXCEPT !.at = "events", !.todo = inbox]
    /\ NoChange /\ UNCHANGED <<storage, registration, inbox, quarantine, ghosts, digest>>

(* _consume_inbox: the run of an event is projected from its hot directory and only then   *)
(* is the event removed; an event whose run is elsewhere, or cannot be read, stays.        *)
(* Bug: the event of a run that is elsewhere is removed. *)
FindEventOnce ==
    /\ coord.at = "events"
    /\ \E r \in coord.todo :
         coord' = [coord EXCEPT !.at = IF r \in Hot THEN "read" ELSE "unlink",
                                !.todo = @ \ {r}, !.run = {r}]
    /\ NoChange /\ UNCHANGED <<storage, registration, inbox, quarantine, ghosts, digest>>

FindEvent ==
    /\ coord.at = "events"
    /\ \E r \in coord.todo :
         coord' = IF r \in Hot THEN [coord EXCEPT !.at = "read", !.todo = @ \ {r}, !.run = {r}]
                  ELSE [coord EXCEPT !.todo = @ \ {r}]
    /\ NoChange /\ UNCHANGED <<storage, registration, inbox, quarantine, ghosts, digest>>

ProjectEvent ==
    /\ coord.at = "read"
    /\ \E r \in coord.run :
         /\ ghosts' = ghosts \cup Ghost(r, "hot")
         /\ IF r \in Hot THEN Row(r, HotRow) ELSE NoChange
         /\ coord' = [coord EXCEPT !.at = IF r \in Hot THEN "unlink" ELSE "set aside"]
    /\ UNCHANGED <<storage, registration, inbox, quarantine, digest>>

UnlinkEvent ==
    /\ coord.at \in {"unlink", "set aside"}
    /\ inbox' = inbox \ coord.run
    /\ quarantine' = IF coord.at = "unlink" THEN quarantine ELSE quarantine \cup coord.run
    /\ coord' = [coord EXCEPT !.at = "events", !.run = {}]
    /\ NoChange /\ UNCHANGED <<storage, registration, ghosts, digest>>

(* projection_rows: nothing while the catalog is refreshed or after a refresh that failed; *)
(* otherwise it waits for the job that holds the lock, and builds a catalog that is not    *)
(* there before it reads it.                                                               *)
Second == coord.at \in {"rows again", "building again"}
ReadingRows(rows) ==
    coord' = [coord EXCEPT !.at = IF Second THEN "sync again" ELSE "sync", !.rows = rows,
                           !.todo = {r \in Runs : rows[r] # "none"}]

ReadRows ==
    /\ coord.at = "rows again" \/ (coord.at = "events" /\ coord.todo = {})
    /\ \/ Refreshing /\ ReadingRows(NoRows) /\ UNCHANGED <<service, job>>
       \/ /\ ~ Busy /\ Ensured
          /\ \/ /\ catalog.rev = 0
                /\ coord' = [coord EXCEPT !.at = IF Second THEN "building again" ELSE "building"]
             \/ /\ catalog.rev # 0
                /\ ReadingRows(IF service.error = "none" /\ Settled THEN catalog.rows ELSE NoRows)
    /\ NoChange
    /\ UNCHANGED <<carrier, newer, catalog, ledger, lockFile, highest, missed, moves, faults,
                   registration, inbox, quarantine, ghosts, digest>>

RowsBuilt ==
    /\ coord.at \in {"building", "building again"} /\ ~ Busy
    /\ ReadingRows(IF service.error = "none" THEN catalog.rows ELSE NoRows)
    /\ NoChange /\ UNCHANGED <<storage, registration, inbox, quarantine, ghosts, digest>>

(* The rows come in the order of their run ids. *)
NextRow == IF coord.todo = {} THEN {} ELSE {CHOOSE r \in coord.todo : TRUE}
After(r) == [coord EXCEPT !.todo = @ \ {r}, !.rows[r] = "none"]

(* What mark_carrier_state and upsert_projected_detail store: trash has one name. *)
State(place) == IF place \in Trashed THEN "trash" ELSE place

(* mark_carrier_state on an active row, then the events of the run are acknowledged. *)
Mark(r) ==
    /\ readModel[r].active
    /\ Row(r, [HotRow EXCEPT !.carrier = State(coord.rows[r])])
    /\ Acknowledge(r)

(* projection_directory and experiment_detail wait for the job that holds the lock, but   *)
(* for a refresh.                                                                          *)
MayRead == Busy => Refreshing \/ Resting

(* The directory that projection_directory finds for the run in the catalog of now. *)
DirectoryFound(r) ==
    /\ service.error = "none" /\ ~ Refreshing /\ Settled
    /\ catalog.rows[r] \in {"hot", "trashed hot"} /\ carrier[r] = catalog.rows[r]

ArchiveFound(r) == catalog.rows[r] = "archived" /\ carrier[r] = "archived"

ArchivedRow == [HotRow EXCEPT !.carrier = "archived"]
Aside == UNCHANGED <<storage, registration, quarantine, digest>>

(* Bug: a run that is not in the read model is left to the reconciliation. *)
SyncRowMarkOnly ==
    /\ Syncing
    /\ \E r \in NextRow :
         /\ coord' = After(r)
         /\ \/ Mark(r)
            \/ ~ readModel[r].active /\ NoChange /\ UNCHANGED inbox
    /\ UNCHANGED ghosts /\ Aside

(* _sync_storage_projections for one row.  A run without an active row is projected from   *)
(* its archive, or from its directory and marked in the steps that follow.                 *)
SyncRow ==
    /\ Syncing /\ coord.run = {}
    /\ \E r \in NextRow :
         \/ /\ Mark(r) /\ coord' = After(r)
         \/ /\ ~ readModel[r].active /\ State(coord.rows[r]) \in {"hot", "trash"}
            /\ MayRead /\ NoChange /\ UNCHANGED inbox
            /\ coord' = IF DirectoryFound(r)
                        THEN [coord EXCEPT !.run = {r}, !.place = carrier[r]] ELSE After(r)
         \/ /\ ~ readModel[r].active /\ coord.rows[r] = "archived"
            /\ MayRead /\ coord' = After(r)
            /\ IF ArchiveFound(r) THEN Row(r, ArchivedRow) /\ Acknowledge(r)
               ELSE NoChange /\ UNCHANGED inbox
    /\ UNCHANGED ghosts /\ Aside

ProjectDirectory ==
    /\ Syncing /\ coord.place # "none"
    /\ \E r \in coord.run :
         /\ ghosts' = ghosts \cup Ghost(r, coord.place)
         /\ IF carrier[r] = coord.place
            THEN Row(r, HotRow) /\ coord' = [coord EXCEPT !.place = "none"]
            ELSE NoChange /\ coord' = [After(r) EXCEPT !.run = {}, !.place = "none"]
    /\ UNCHANGED inbox /\ Aside

MarkProjected ==
    /\ Syncing /\ coord.place = "none"
    /\ \E r \in coord.run : Mark(r) /\ coord' = [After(r) EXCEPT !.run = {}]
    /\ UNCHANGED ghosts /\ Aside

(* reconcile_experiments: the hot directories are listed, and read one after the other; *)
ScanHot ==
    /\ coord.at = "first scan" \/ (coord.at = "sync" /\ coord.todo = {})
    /\ coord' = [coord EXCEPT !.at = IF @ = "sync" THEN "listed" ELSE "first listed",
                              !.todo = Hot]
    /\ NoChange /\ UNCHANGED <<storage, registration, inbox, quarantine, ghosts, digest>>

ReadHot ==
    /\ coord.at \in {"listed", "first listed"}
    /\ coord' = [coord EXCEPT !.at = IF @ = "listed" THEN "apply" ELSE "first apply",
                              !.todo = @ \cap Hot, !.ghosts = coord.todo \ Hot]
    /\ NoChange /\ UNCHANGED <<storage, registration, inbox, quarantine, ghosts, digest>>

(* and the read model is made to agree, unless they are those of the last time: rows with  *)
(* another carrier keep it, hot rows that were not found become inactive, ghosts as well.  *)
Reconciled(r, found) ==
    IF r \in found
    THEN [active |-> TRUE,
          carrier |-> IF readModel[r].carrier = "none" THEN "hot" ELSE readModel[r].carrier]
    ELSE IF readModel[r].carrier = "hot" THEN [readModel[r] EXCEPT !.active = FALSE]
    ELSE readModel[r]

Scanned == [found |-> coord.todo, ghosts |-> coord.ghosts]

ApplyScan ==
    /\ coord.at \in {"apply", "first apply"}
    /\ IF digest = {Scanned} THEN NoChange /\ UNCHANGED <<ghosts, digest>>
       ELSE /\ readModel' = [r \in Runs |-> Reconciled(r, coord.todo)]
            /\ projected' = projected \cup coord.todo
            /\ ghosts' = coord.ghosts
            /\ digest' = {Scanned}
    /\ coord' = [Idle EXCEPT !.at = IF coord.at = "apply" THEN "rows again" ELSE "sync again"]
    /\ UNCHANGED <<storage, registration, inbox, quarantine>>

-----------------------------------------------------------------------------
(* One read or one write of the coordinator fails.                         *)
Fault ==
    /\ faults < MaxFaults /\ faults' = faults + 1
    /\ UNCHANGED <<carrier, newer, catalog, ledger, lockFile, service, job, highest, missed, moves>>

(* An event that cannot be read is set aside. *)
EventUnread ==
    /\ coord.at = "events" /\ Fault
    /\ \E r \in coord.todo :
         coord' = [coord EXCEPT !.at = "set aside", !.todo = @ \ {r}, !.run = {r}]
    /\ NoChange /\ UNCHANGED <<registration, inbox, quarantine, ghosts, digest>>

(* The documents of a run cannot be read: what is stored instead is a ghost, and the event *)
(* or the row that led to the run does not match it.                                       *)
RunUnread ==
    /\ coord.at = "read" /\ Fault
    /\ ghosts' = ghosts \cup coord.run
    /\ coord' = [coord EXCEPT !.at = "set aside"]
    /\ NoChange /\ UNCHANGED <<registration, inbox, quarantine, digest>>

DirectoryUnread ==
    /\ Syncing /\ coord.place # "none" /\ Fault
    /\ ghosts' = ghosts \cup coord.run
    /\ \E r \in coord.run : coord' = [After(r) EXCEPT !.run = {}, !.place = "none"]
    /\ NoChange /\ UNCHANGED <<registration, inbox, quarantine, digest>>

HotUnread ==
    /\ coord.at \in {"listed", "first listed"} /\ Fault
    /\ \E r \in coord.todo \cap Hot :
         coord' = [coord EXCEPT !.at = IF @ = "listed" THEN "apply" ELSE "first apply",
                                !.todo = (@ \cap Hot) \ {r},
                                !.ghosts = (coord.todo \ Hot) \cup {r}]
    /\ NoChange /\ UNCHANGED <<registration, inbox, quarantine, ghosts, digest>>

(* The read model cannot be written, or the event cannot be removed or set aside: the      *)
(* event stays for a later pass.                                                           *)
EventKept ==
    /\ coord.at \in {"read", "unlink", "set aside"} /\ Fault
    /\ coord' = [coord EXCEPT !.at = "events", !.run = {}]
    /\ NoChange /\ UNCHANGED <<registration, inbox, quarantine, ghosts, digest>>

(* The catalog cannot be queried: this synchronisation is over. *)
RowsUnread ==
    /\ coord.at \in {"rows again", "building", "building again"}
       \/ (coord.at = "events" /\ coord.todo = {})
    /\ ~ Busy /\ Fault /\ ReadingRows(NoRows)
    /\ NoChange /\ UNCHANGED <<registration, inbox, quarantine, ghosts, digest>>

(* A row is not marked, or is marked and its events are not all acknowledged.  Of a row    *)
(* that is active already only a missing row is caught: anything else ends the pass.       *)
SyncFails ==
    /\ Syncing /\ Fault
    /\ \E r \in NextRow :
         /\ \/ NoChange /\ UNCHANGED inbox
            \/ /\ coord.place = "none"
               /\ readModel[r].active \/ (coord.rows[r] = "archived" /\ MayRead /\ ArchiveFound(r))
               /\ Row(r, [HotRow EXCEPT !.carrier = State(coord.rows[r])])
               /\ inbox' \in {inbox, inbox \ {r}}
         /\ coord' = IF coord.run = {} /\ readModel[r].active
                     THEN [coord EXCEPT !.todo = {}, !.rows = NoRows]
                     ELSE [After(r) EXCEPT !.run = {}, !.place = "none"]
    /\ UNCHANGED <<registration, quarantine, ghosts, digest>>

(* The reconciliation fails: the read model stays as it was. *)
ApplyFails ==
    /\ coord.at = "apply" /\ Fault
    /\ coord' = [Idle EXCEPT !.at = "rows again"]
    /\ NoChange /\ UNCHANGED <<registration, inbox, quarantine, ghosts, digest>>

ProjectionFails ==
    \/ EventUnread \/ RunUnread \/ DirectoryUnread \/ HotUnread
    \/ EventKept \/ RowsUnread \/ SyncFails \/ ApplyFails

-----------------------------------------------------------------------------
(* The server is killed and started again; a read model that is corrupt is started anew.   *)
ServerKilled ==
    /\ coord.at # "down" /\ ServiceKilled /\ coord' = Down
    /\ NoChange /\ UNCHANGED <<registration, inbox, quarantine, ghosts, digest>>

ServerStarts ==
    /\ coord.at = "down"
    /\ coord' = [Idle EXCEPT !.at = "first scan"]
    /\ \/ UNCHANGED <<readModel, ghosts, digest>>
       \/ readModel' = [r \in Runs |-> NoRow] /\ ghosts' = {} /\ digest' = {}
    /\ UNCHANGED <<storage, registration, inbox, quarantine, projected>>

Coordinate ==
    \/ StartPass \/ FindEvent \/ ProjectEvent \/ UnlinkEvent \/ ReadRows \/ RowsBuilt
    \/ SyncRow \/ ProjectDirectory \/ MarkProjected \/ ScanHot \/ ReadHot \/ ApplyScan

-----------------------------------------------------------------------------
Serve == coord.at # "down" /\ (Request \/ JobStep \/ BackOffOver) /\ UNCHANGED projection

Next ==
    \/ \E p \in Registrars : Register(p)
    \/ Serve
    \/ Coordinate \/ ProjectionFails \/ ServerKilled \/ ServerStarts

(* The threads of the server run and get the locks they wait for, the timer of the         *)
(* reconciliation fires again and again, a server that was killed is started.  Nothing is  *)
(* assumed of the registrars.                                                              *)
Fairness ==
    /\ WF_vars(coord.at # "down" /\ JobStep /\ UNCHANGED projection)
    /\ WF_vars(coord.at # "down" /\ BackOffOver /\ UNCHANGED projection)
    /\ SF_vars(Coordinate) /\ SF_vars(ScanHot)
    /\ WF_vars(ServerStarts)

Spec == Init /\ [][Next]_vars /\ Fairness

-----------------------------------------------------------------------------
TypeOK ==
    /\ StorageTypeOK
    /\ inbox \subseteq Runs
    /\ eventLock \in [Runs -> Registrars \cup {Nobody}]
    /\ \A p \in Registrars :
         registrar[p] \in {"write", "verify"} => eventLock[RunOf[p]] = p
    /\ readModel \in [Runs -> [active: BOOLEAN, carrier: {"none", "hot", "archived", "trash"}]]
    /\ coord.todo \subseteq Runs /\ Cardinality(coord.run) <= 1
    /\ enqueued \cup projected \cup quarantine \cup ghosts \subseteq Runs

(* A registrar that was told its run is enqueued can rely on it: the event waits in the    *)
(* inbox until the read model has known the run, unless it was set aside; and none is set  *)
(* aside where nothing is moved and nothing fails.                                         *)
EnqueuedIsKnown ==
    /\ enqueued \subseteq inbox \cup projected \cup quarantine
    /\ moves = 0 /\ faults = 0 => quarantine = {}

(* A run is shown where it is. *)
Shown(r) ==
    /\ readModel[r].active /\ readModel[r].carrier = State(carrier[r])

(* The projection is paused: a refresh failed, and the catalog that was lost afterwards    *)
(* was built by a request, which leaves the error of the refresh until the next one.       *)
Paused == service.error = "retry" /\ Settled

(* Whatever was lost on the way, the read model comes to show every published run with the *)
(* carrier it has, beside any ghost that was left.  When a killed rebuild left its lock    *)
(* file, or the projection stays paused, only that hot runs are shown can be relied on; a  *)
(* run that was trashed from the archive is projected by nothing.                          *)
Heals ==
    <>[](\A r \in Runs :
            \/ carrier[r] \in {"none", "trashed archived"}
            \/ (lockFile = "left" \/ Paused) /\ (carrier[r] = "hot" => readModel[r].active)
            \/ Shown(r))
=============================================================================
