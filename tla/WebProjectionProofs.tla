------------------------ MODULE WebProjectionProofs ------------------------
(***************************************************************************)
(* Theorems about module WebProjection: its types, that a revision is      *)
(* never published twice, that the catalog the service takes for current   *)
(* tells where the carriers are, and that an event a registrar was told of *)
(* is not lost.                                                            *)
(*                                                                         *)
(* The argument for the catalog: a catalog file is current when no carrier *)
(* root is newer than it or the token is the carriers of now.  A mutation  *)
(* begins in such a state and moves a carrier away from the token, so      *)
(* neither is true again before the update that ends it.  A rebuild sees   *)
(* every carrier but those published after its scan; those differ from the *)
(* carriers it began with, so its token is not taken, and the file is      *)
(* older than their root unless they were published between the scan and   *)
(* the time the file was given, which the history calls late.  While the   *)
(* service lives it knows of a late run: it takes no token of the rebuild, *)
(* and requires another.                                                   *)
(***************************************************************************)
EXTENDS WebProjection, FiniteSetTheorems, TLAPS

Tables == [Runs -> Places]
Mutations == {"archive", "restore-hot", "trash", "restore"}
JobKinds == Mutations \cup {"none", "first", "refresh"}
JobPhases == {"none", "move", "lock", "locked", "scanned", "reserved", "replaced"}

StorageTypes ==
    /\ carrier \in Tables /\ newer \in BOOLEAN
    /\ catalog \in [rev: Nat, rows: Tables] /\ ledger \in Nat
    /\ lockFile \in {"free", "held", "left"}
    /\ service \in [token: Tables \cup {NoToken}, required: BOOLEAN,
                    error: {"none", "backoff", "retry"}]
    /\ job \in [kind: JobKinds, phase: JobPhases, before: Tables \cup {NoToken}, rows: Tables,
                rev: Nat, newer: BOOLEAN, batch: SUBSET Runs, done: SUBSET Runs]
    /\ highest \in Nat /\ missed \in [Runs -> {"no", "late", "missed"}]
    /\ moves \in Nat /\ faults \in Nat

(* What a job has at each of its phases. *)
InLock == job.phase \in {"locked", "scanned", "reserved", "replaced"}

JobInv ==
    /\ job.kind = "none" <=> job.phase = "none"
    /\ lockFile = "held" <=> InLock
    /\ job.done \subseteq job.batch
    /\ job.phase = "move" => job.kind \in Mutations /\ job.done # job.batch
    /\ job.kind = "trash" /\ job.phase \in {"lock", "locked"} => job.done = job.batch
    /\ job.phase \notin {"scanned", "reserved"} => job.rows = NoRows
    /\ job.newer => job.phase = "reserved"
    /\ InLock => job.before # NoToken

(* The revision of a job that reserved it is above every revision published. *)
RevInv ==
    /\ highest <= ledger
    /\ job.phase = "reserved" => job.rev = ledger /\ highest < job.rev

(* No run is in a table before it is published, and none is that was published unseen. *)
There(table) == \A r \in Runs : table[r] # "none" => carrier[r] # "none"
PlaceInv ==
    /\ There(catalog.rows) /\ There(job.rows)
    /\ service.token # NoToken => There(service.token)
    /\ job.before # NoToken => There(job.before)
    /\ \A r \in Runs : missed[r] # "no" =>
         catalog.rows[r] = "none" /\ (job.kind = "trash" => job.rows[r] = "none")

Sound == \A r \in Runs : missed[r] = "no" => catalog.rows[r] = carrier[r]

(* Either sign that the catalog is current means that it is. *)
FreshInv ==
    catalog.rev # 0 /\ job.phase # "replaced" /\ (service.token = carrier \/ ~ newer) => Sound

(* Runs yet to be moved are where the token has them; the rows a publication of trashed    *)
(* runs will change are those of the runs it moved.                                        *)
Trashing == job.kind = "trash" /\ job.phase \in {"move", "lock", "locked"}
BatchInv ==
    \A r \in Runs :
      /\ job.phase = "move" /\ r \in job.batch \ job.done =>
           service.token # NoToken /\ service.token[r] = carrier[r]
      /\ job.phase = "move" /\ r \in job.batch => catalog.rows[r] # "none"
      /\ Trashing /\ r \in job.batch => catalog.rows[r] \in {"hot", "archived"}
      /\ Trashing /\ r \in job.done => carrier[r] = Moved("trash", catalog.rows[r])
      /\ Trashing /\ r \notin job.done => (missed[r] = "no" => catalog.rows[r] = carrier[r])

(* What a scan did not see was published after it. *)
Seen(r) ==
    \/ job.rows[r] = carrier[r]
    \/ /\ job.rows[r] = "none" /\ carrier[r] = "hot" /\ job.before[r] = "none"
       /\ missed[r] # "no" \/ (job.phase = "reserved" /\ job.newer)

ScanInv ==
    /\ job.phase \in {"scanned", "reserved"} =>
         IF job.kind = "trash" THEN \A r \in Runs : missed[r] = "no" => job.rows[r] = carrier[r]
         ELSE \A r \in Runs : Seen(r)
    /\ job.phase = "replaced" =>
         ((job.kind = "trash" \/ job.before = carrier \/ ~ newer) => Sound)

StorageInv ==
    StorageTypes /\ JobInv /\ RevInv /\ PlaceInv /\ FreshInv /\ BatchInv /\ ScanInv

(* The steps of the storage under those of the projection. *)
Consult ==
    /\ ~ Busy /\ Ensured
    /\ UNCHANGED <<carrier, newer, catalog, ledger, lockFile, highest, missed, moves, faults>>

Failure ==
    /\ faults' = faults + 1
    /\ UNCHANGED <<carrier, newer, catalog, ledger, lockFile, service, job, highest, missed,
                   moves>>

StorageStep ==
    \/ \E r \in Runs : Publish(r)
    \/ LoseCatalog \/ Consult \/ BackOffOver \/ Failure
    \/ \E kind \in Mutations, batch \in SUBSET Runs : Mutate(kind, batch)
    \/ Move \/ MoveFails \/ AcquireLock \/ Conflict \/ Scan \/ WriteLedger
    \/ Replace \/ StepFails \/ Finish
    \/ ServiceKilled

-----------------------------------------------------------------------------
(* The values the storage starts from have their types. *)
LEMMA Blank ==
    /\ NoRows \in Tables /\ (\A r \in Runs : NoRows[r] = "none")
    /\ \A table \in Tables : table # NoToken
    /\ FreshService.token = NoToken /\ FreshService.error = "none"
    /\ FreshService \in [token: Tables \cup {NoToken}, required: BOOLEAN,
                         error: {"none", "backoff", "retry"}]
    /\ NoJob \in [kind: JobKinds, phase: JobPhases, before: Tables \cup {NoToken}, rows: Tables,
                rev: Nat, newer: BOOLEAN, batch: SUBSET Runs, done: SUBSET Runs]
    /\ NoJob.kind = "none" /\ NoJob.phase = "none" /\ NoJob.before = NoToken
    /\ NoJob.rows = NoRows /\ NoJob.newer = FALSE /\ NoJob.batch = {} /\ NoJob.done = {}
  BY TokenAssumption DEF NoRows, NoJob, FreshService, Tables, Places, JobKinds, JobPhases, Mutations

(* A publication: the run was nowhere, so no table tells of it, and the token is not the   *)
(* carriers any more.                                                                      *)
LEMMA PublishKeeps ==
  ASSUME StorageInv, NEW p \in Runs, Publish(p)
  PROVE  StorageInv'
<1>1. /\ carrier[p] = "none" /\ carrier' = [carrier EXCEPT ![p] = "hot"] /\ newer'
      /\ carrier \in Tables /\ carrier' \in Tables
      /\ \A r \in Runs : carrier'[r] = IF r = p THEN "hot" ELSE carrier[r]
  BY DEF StorageInv, StorageTypes, Publish, Tables, Places
<1>2. /\ job \in [kind: JobKinds, phase: JobPhases, before: Tables \cup {NoToken}, rows: Tables,
                  rev: Nat, newer: BOOLEAN, batch: SUBSET Runs, done: SUBSET Runs]
      /\ job' = [job EXCEPT !.newer = (job.phase = "reserved")]
  BY DEF StorageInv, StorageTypes, Publish
<1>3. /\ job'.kind = job.kind /\ job'.phase = job.phase /\ job'.before = job.before
      /\ job'.rows = job.rows /\ job'.rev = job.rev /\ job'.batch = job.batch
      /\ job'.done = job.done /\ job'.newer = (job.phase = "reserved")
  BY <1>2
<1>4. UNCHANGED <<catalog, ledger, lockFile, service, highest, moves, faults>>
  BY DEF Publish
<1>5. /\ missed \in [Runs -> {"no", "late", "missed"}]
      /\ missed' \in [Runs -> {"no", "late", "missed"}]
      /\ \A r \in Runs : r # p => missed'[r] = missed[r]
      /\ missed'[p] = IF job.kind = "trash" THEN "missed"
                      ELSE IF job.phase = "scanned" THEN "late" ELSE "no"
  BY DEF StorageInv, StorageTypes, Publish
<1>6. \A table : There(table) => There(table)'
  BY <1>1 DEF There
<1>7. \A table : There(table) => table[p] = "none"
  BY <1>1 DEF There
<1>8. catalog.rows[p] = "none" /\ job.rows[p] = "none"
  BY <1>7 DEF StorageInv, PlaceInv
<1>9. service.token # carrier'
  <2> SUFFICES ASSUME service.token = carrier' PROVE FALSE
    OBVIOUS
  <2>1. service.token # NoToken
    BY <1>1, Blank
  <2> QED BY <2>1, <1>1, <1>7 DEF StorageInv, PlaceInv
<1>10. job.before # carrier'
  <2> SUFFICES ASSUME job.before = carrier' PROVE FALSE
    OBVIOUS
  <2>1. job.before # NoToken
    BY <1>1, Blank
  <2> QED BY <2>1, <1>1, <1>7 DEF StorageInv, PlaceInv
<1>11. StorageTypes'
  BY <1>1, <1>2, <1>4, <1>5 DEF StorageInv, StorageTypes
<1>12. JobInv'
  BY <1>3, <1>4 DEF StorageInv, JobInv, InLock
<1>13. RevInv'
  BY <1>3, <1>4 DEF StorageInv, RevInv
<1>14. PlaceInv'
  BY <1>3, <1>4, <1>5, <1>6, <1>8 DEF StorageInv, PlaceInv, There
<1>15. FreshInv'
  BY <1>1, <1>4, <1>9 DEF FreshInv
<1>16. BatchInv'
  <2> SUFFICES ASSUME NEW r \in Runs
               PROVE  /\ job.phase = "move" /\ r \in job.batch \ job.done =>
                           service.token # NoToken /\ service.token[r] = carrier'[r]
                      /\ job.phase = "move" /\ r \in job.batch => catalog.rows[r] # "none"
                      /\ Trashing /\ r \in job.batch => catalog.rows[r] \in {"hot", "archived"}
                      /\ Trashing /\ r \in job.done => carrier'[r] = Moved("trash", catalog.rows[r])
                      /\ Trashing /\ r \notin job.done =>
                           (missed'[r] = "no" => catalog.rows[r] = carrier'[r])
    BY <1>3, <1>4 DEF BatchInv, Trashing, Moved
  <2>1. CASE r = p
    BY <2>1, <1>1, <1>5, <1>8 DEF StorageInv, BatchInv, JobInv, Trashing
  <2>2. CASE r # p
    BY <2>2, <1>1, <1>5 DEF StorageInv, BatchInv
  <2> QED BY <2>1, <2>2
<1>17. ScanInv'
  <2>1. ASSUME job.phase \in {"scanned", "reserved"}, job.kind = "trash", NEW r \in Runs,
               missed'[r] = "no"
        PROVE  job.rows[r] = carrier'[r]
    BY <2>1, <1>1, <1>5 DEF StorageInv, ScanInv
  <2>2. ASSUME job.phase \in {"scanned", "reserved"}, job.kind # "trash", NEW r \in Runs
        PROVE  Seen(r)'
    <3>1. Seen(r)
      BY <2>2 DEF StorageInv, ScanInv
    <3>2. job.before[p] = "none"
      BY <2>2, <1>7 DEF StorageInv, PlaceInv, JobInv, InLock
    <3>3. CASE r # p
      <4>1. carrier'[r] = carrier[r] /\ missed'[r] = missed[r]
        BY <3>3, <1>1, <1>5
      <4> QED BY <2>2, <3>1, <4>1, <1>3 DEF Seen
    <3>4. CASE r = p
      <4>1. job'.rows[r] = "none" /\ carrier'[r] = "hot" /\ job'.before[r] = "none"
        BY <3>4, <3>2, <1>1, <1>3, <1>8
      <4>2. missed'[r] # "no" \/ (job'.phase = "reserved" /\ job'.newer)
        BY <2>2, <3>4, <1>3, <1>5
      <4> QED BY <4>1, <4>2 DEF Seen
    <3> QED BY <3>3, <3>4
  <2>3. ASSUME job.phase = "replaced", job.kind = "trash" PROVE Sound'
    BY <2>3, <1>1, <1>4, <1>5 DEF StorageInv, ScanInv, Sound
  <2> QED BY <2>1, <2>2, <2>3, <1>1, <1>3, <1>10 DEF ScanInv
<1> QED BY <1>11, <1>12, <1>13, <1>14, <1>15, <1>16, <1>17 DEF StorageInv

(* The steps that leave carriers and catalog alone keep what is said of them. *)
Quiet == UNCHANGED <<carrier, newer, catalog, ledger, highest, missed, moves>>

LEMMA Started ==
  \A kind \in JobKinds, batch \in SUBSET Runs :
     /\ Starting(kind, batch) \in
           [kind: JobKinds, phase: JobPhases, before: Tables \cup {NoToken}, rows: Tables,
            rev: Nat, newer: BOOLEAN, batch: SUBSET Runs, done: SUBSET Runs]
     /\ Starting(kind, batch).kind = kind
     /\ Starting(kind, batch).phase = IF batch = {} THEN "lock" ELSE "move"
     /\ Starting(kind, batch).before = NoToken /\ Starting(kind, batch).rows = NoRows
     /\ Starting(kind, batch).newer = FALSE
     /\ Starting(kind, batch).batch = batch /\ Starting(kind, batch).done = {}
<1> TAKE kind \in JobKinds, batch \in SUBSET Runs
<1> DEFINE phase == IF batch = {} THEN "lock" ELSE "move"
<1>1. phase \in JobPhases
  BY DEF JobPhases
<1>2. Starting(kind, batch) = [NoJob EXCEPT !.kind = kind, !.batch = batch, !.phase = phase]
  BY DEF Starting
<1> HIDE DEF phase
<1>3. /\ Starting(kind, batch) \in
           [kind: JobKinds, phase: JobPhases, before: Tables \cup {NoToken}, rows: Tables,
            rev: Nat, newer: BOOLEAN, batch: SUBSET Runs, done: SUBSET Runs]
      /\ Starting(kind, batch).kind = kind /\ Starting(kind, batch).phase = phase
      /\ Starting(kind, batch).batch = batch
  <2>1. NoJob \in [kind: JobKinds, phase: JobPhases, before: Tables \cup {NoToken}, rows: Tables,
                   rev: Nat, newer: BOOLEAN, batch: SUBSET Runs, done: SUBSET Runs]
    BY Blank
  <2> QED BY <1>1, <1>2, <2>1
<1>4. /\ Starting(kind, batch).before = NoToken /\ Starting(kind, batch).rows = NoRows
      /\ Starting(kind, batch).newer = FALSE /\ Starting(kind, batch).done = {}
  BY <1>2, Blank
<1> QED BY <1>3, <1>4 DEF phase

LEMMA ConsultKeeps ==
  ASSUME StorageInv, Consult
  PROVE  StorageInv'
<1>1. /\ job.kind = "none" /\ job.phase = "none" /\ job.rows = NoRows /\ job.newer = FALSE
      /\ job \in [kind: JobKinds, phase: JobPhases, before: Tables \cup {NoToken}, rows: Tables,
                  rev: Nat, newer: BOOLEAN, batch: SUBSET Runs, done: SUBSET Runs]
      /\ carrier \in Tables
      /\ service \in [token: Tables \cup {NoToken}, required: BOOLEAN,
                      error: {"none", "backoff", "retry"}]
  BY DEF StorageInv, StorageTypes, JobInv, Consult, Busy
<1>2. Quiet /\ UNCHANGED <<lockFile, faults>>
  BY DEF Consult, Quiet
<1>3. \/ service' = service
      \/ service' = [service EXCEPT !.token = carrier] /\ ~ newer
      \/ service' = [service EXCEPT !.error = "none"]
  BY DEF Consult, Ensured, Trusting
<1>4. /\ service' \in [token: Tables \cup {NoToken}, required: BOOLEAN,
                       error: {"none", "backoff", "retry"}]
      /\ service'.token = service.token \/ (service'.token = carrier /\ ~ newer)
  BY <1>1, <1>3
<1>5. job' = job \/ \E kind \in {"first", "refresh"} : job' = Starting(kind, {})
  BY DEF Consult, Ensured
<1>6. /\ job' \in [kind: JobKinds, phase: JobPhases, before: Tables \cup {NoToken}, rows: Tables,
                   rev: Nat, newer: BOOLEAN, batch: SUBSET Runs, done: SUBSET Runs]
      /\ \/ job' = job
         \/ /\ job'.kind \in {"first", "refresh"} /\ job'.phase = "lock" /\ job'.before = NoToken
            /\ job'.rows = NoRows /\ job'.newer = FALSE /\ job'.batch = {} /\ job'.done = {}
  <2>1. CASE job' = job
    BY <1>1, <2>1
  <2>2. ASSUME NEW kind \in {"first", "refresh"}, job' = Starting(kind, {})
        PROVE  /\ job' \in [kind: JobKinds, phase: JobPhases, before: Tables \cup {NoToken},
                            rows: Tables, rev: Nat, newer: BOOLEAN, batch: SUBSET Runs,
                            done: SUBSET Runs]
               /\ job'.kind \in {"first", "refresh"} /\ job'.phase = "lock"
               /\ job'.before = NoToken /\ job'.rows = NoRows /\ job'.newer = FALSE
               /\ job'.batch = {} /\ job'.done = {}
    <3>1. kind \in JobKinds /\ {} \in SUBSET Runs
      BY DEF JobKinds
    <3>2. /\ Starting(kind, {}) \in
                [kind: JobKinds, phase: JobPhases, before: Tables \cup {NoToken}, rows: Tables,
                 rev: Nat, newer: BOOLEAN, batch: SUBSET Runs, done: SUBSET Runs]
          /\ Starting(kind, {}).kind = kind /\ Starting(kind, {}).phase = "lock"
          /\ Starting(kind, {}).before = NoToken /\ Starting(kind, {}).rows = NoRows
          /\ Starting(kind, {}).newer = FALSE
          /\ Starting(kind, {}).batch = {} /\ Starting(kind, {}).done = {}
      BY <3>1, Started
    <3> QED BY <2>2, <3>2
  <2> QED BY <1>5, <2>1, <2>2
<1>7. StorageTypes'
  BY <1>2, <1>4, <1>6 DEF StorageInv, StorageTypes, Quiet
<1>8. JobInv'
  BY <1>1, <1>2, <1>6 DEF StorageInv, JobInv, InLock, Mutations
<1>9. RevInv'
  BY <1>1, <1>2, <1>6 DEF StorageInv, RevInv, Quiet
<1>10. PlaceInv'
  BY <1>1, <1>2, <1>4, <1>6 DEF StorageInv, PlaceInv, There, Quiet
<1>11. FreshInv'
  BY <1>1, <1>2, <1>4 DEF StorageInv, FreshInv, Sound, Quiet
<1>12. BatchInv' /\ ScanInv'
  BY <1>1, <1>6 DEF BatchInv, ScanInv, Trashing
<1> QED BY <1>7, <1>8, <1>9, <1>10, <1>11, <1>12 DEF StorageInv

(* The cache is lost, the time to wait is over, or a fault of the projection. *)
LEMMA AsideKeeps ==
  ASSUME StorageInv, LoseCatalog \/ BackOffOver \/ Failure
  PROVE  StorageInv'
<1>1. /\ UNCHANGED <<carrier, newer, ledger, lockFile, job, highest, missed, moves>>
      /\ catalog' = catalog \/ (catalog' = [rev |-> 0, rows |-> NoRows] /\ job.kind = "none")
      /\ service' \in [token: Tables \cup {NoToken}, required: BOOLEAN,
                       error: {"none", "backoff", "retry"}]
      /\ service'.token = service.token
      /\ catalog \in [rev: Nat, rows: Tables] /\ faults' \in Nat
  BY DEF StorageInv, StorageTypes, LoseCatalog, BackOffOver, Failure, Busy
<1>2. StorageTypes'
  BY <1>1, Blank DEF StorageInv, StorageTypes
<1>3. JobInv' /\ RevInv'
  BY <1>1 DEF StorageInv, JobInv, RevInv, InLock
<1>4. PlaceInv'
  BY <1>1, Blank DEF StorageInv, PlaceInv, There
<1>5. FreshInv'
  BY <1>1 DEF StorageInv, FreshInv, Sound
<1>6. BatchInv'
  BY <1>1 DEF StorageInv, BatchInv, Trashing, JobInv
<1>7. ScanInv'
  BY <1>1 DEF StorageInv, ScanInv, Sound, Seen, JobInv
<1> QED BY <1>2, <1>3, <1>4, <1>5, <1>6, <1>7 DEF StorageInv

(* A mutation begins while the catalog is current. *)
LEMMA MutateKeeps ==
  ASSUME StorageInv, NEW kind \in Mutations, NEW batch \in SUBSET Runs, Mutate(kind, batch)
  PROVE  StorageInv'
<1>1. /\ job.kind = "none" /\ job.phase = "none" /\ carrier \in Tables
      /\ service \in [token: Tables \cup {NoToken}, required: BOOLEAN,
                      error: {"none", "backoff", "retry"}]
  BY DEF StorageInv, StorageTypes, JobInv, Mutate, Busy
<1>2. Quiet /\ UNCHANGED <<lockFile, faults>>
  BY DEF Mutate, Quiet
<1>3. /\ service' \in [token: Tables \cup {NoToken}, required: BOOLEAN,
                       error: {"none", "backoff", "retry"}]
      /\ service'.token = carrier /\ carrier # NoToken
  BY <1>1, Blank DEF Mutate
<1>4. /\ job' \in [kind: JobKinds, phase: JobPhases, before: Tables \cup {NoToken}, rows: Tables,
                   rev: Nat, newer: BOOLEAN, batch: SUBSET Runs, done: SUBSET Runs]
      /\ job'.kind = kind /\ job'.phase = "move" /\ job'.before = NoToken
      /\ job'.rows = NoRows /\ job'.newer = FALSE /\ job'.batch = batch /\ job'.done = {}
      /\ batch # {}
  <2>1. job' = Starting(kind, batch) /\ batch # {} /\ kind \in JobKinds
    BY DEF Mutate, JobKinds
  <2>2. /\ Starting(kind, batch) \in
              [kind: JobKinds, phase: JobPhases, before: Tables \cup {NoToken}, rows: Tables,
               rev: Nat, newer: BOOLEAN, batch: SUBSET Runs, done: SUBSET Runs]
        /\ Starting(kind, batch).kind = kind
        /\ Starting(kind, batch).phase = IF batch = {} THEN "lock" ELSE "move"
        /\ Starting(kind, batch).before = NoToken /\ Starting(kind, batch).rows = NoRows
        /\ Starting(kind, batch).newer = FALSE
        /\ Starting(kind, batch).batch = batch /\ Starting(kind, batch).done = {}
    BY <2>1, Started
  <2> QED BY <2>1, <2>2
<1>5. /\ \A r \in batch : catalog.rows[r] # "none"
      /\ kind = "trash" => \A r \in batch : catalog.rows[r] \in {"hot", "archived"}
  BY DEF Mutate, From, Mutations, Trashed
<1>6. Sound
  <2>1. catalog.rev # 0 /\ (service.token = carrier \/ ~ newer)
    BY DEF Mutate, Settled, Trusting
  <2> QED BY <2>1, <1>1 DEF StorageInv, FreshInv
<1>7. StorageTypes'
  BY <1>2, <1>3, <1>4 DEF StorageInv, StorageTypes, Quiet
<1>8. JobInv'
  BY <1>1, <1>2, <1>4 DEF StorageInv, JobInv, InLock, Mutations
<1>9. RevInv'
  BY <1>2, <1>4 DEF StorageInv, RevInv, Quiet
<1>10. PlaceInv'
  BY <1>1, <1>2, <1>3, <1>4, Blank DEF StorageInv, PlaceInv, There, Quiet
<1>11. FreshInv'
  BY <1>2, <1>6 DEF FreshInv, Sound, Quiet
<1>12. BatchInv'
  BY <1>2, <1>3, <1>4, <1>5, <1>6 DEF BatchInv, Trashing, Sound, Quiet
<1>13. ScanInv'
  BY <1>4 DEF ScanInv
<1> QED BY <1>7, <1>8, <1>9, <1>10, <1>11, <1>12, <1>13 DEF StorageInv

(* A carrier is moved: the token is not the carriers any more. *)
LEMMA MoveKeeps ==
  ASSUME StorageInv, NEW m \in job.batch \ job.done, job.phase = "move",
         carrier[m] \in From(job.kind),
         carrier' = [carrier EXCEPT ![m] = Moved(job.kind, @)],
         job' = [job EXCEPT !.done = @ \cup {m},
                            !.phase = IF job.batch = job.done \cup {m} THEN "lock" ELSE @],
         newer' = TRUE, moves' = moves + 1,
         UNCHANGED <<catalog, ledger, lockFile, service, highest, missed, faults>>
  PROVE  StorageInv'
<1>1. /\ job \in [kind: JobKinds, phase: JobPhases, before: Tables \cup {NoToken}, rows: Tables,
                  rev: Nat, newer: BOOLEAN, batch: SUBSET Runs, done: SUBSET Runs]
      /\ m \in Runs /\ carrier \in Tables /\ job.kind \in Mutations
      /\ job.rows = NoRows /\ job.newer = FALSE /\ job.done \subseteq job.batch
  BY DEF StorageInv, StorageTypes, JobInv
<1>2. /\ job'.kind = job.kind /\ job'.before = job.before /\ job'.rows = job.rows
      /\ job'.newer = job.newer /\ job'.rev = job.rev /\ job'.batch = job.batch
      /\ job'.done = job.done \cup {m}
      /\ job'.phase = IF job.batch = job.done \cup {m} THEN "lock" ELSE "move"
      /\ job' \in [kind: JobKinds, phase: JobPhases, before: Tables \cup {NoToken}, rows: Tables,
                   rev: Nat, newer: BOOLEAN, batch: SUBSET Runs, done: SUBSET Runs]
  BY <1>1 DEF JobPhases
<1>3. /\ Moved(job.kind, carrier[m]) \in Places
      /\ Moved(job.kind, carrier[m]) # "none" /\ Moved(job.kind, carrier[m]) # carrier[m]
      /\ carrier[m] # "none"
  BY <1>1 DEF Moved, From, Mutations, Places, Trashed
<1>4. /\ carrier' \in Tables
      /\ \A r \in Runs : r # m => carrier'[r] = carrier[r]
      /\ carrier'[m] = Moved(job.kind, carrier[m])
  BY <1>1, <1>3 DEF Tables
<1>5. service.token # NoToken /\ service.token[m] = carrier[m]
  BY <1>1 DEF StorageInv, BatchInv
<1>6. service.token # carrier'
  BY <1>3, <1>4, <1>5
<1>7. StorageTypes'
  <2>1. moves' \in Nat
    BY DEF StorageInv, StorageTypes
  <2> QED BY <2>1, <1>2, <1>4 DEF StorageInv, StorageTypes
<1>8. JobInv'
  BY <1>1, <1>2 DEF StorageInv, JobInv, InLock, Mutations
<1>9. RevInv'
  BY <1>2 DEF StorageInv, RevInv
<1>10. PlaceInv'
  <2>1. \A table : There(table) => There(table)'
    BY <1>3, <1>4 DEF There
  <2> QED BY <2>1, <1>2 DEF StorageInv, PlaceInv
<1>11. FreshInv'
  BY <1>6 DEF FreshInv
<1>12. BatchInv'
  <2> SUFFICES ASSUME NEW r \in Runs
               PROVE  /\ job.phase = "move" /\ r \in job.batch \ (job.done \cup {m}) =>
                           service.token # NoToken /\ service.token[r] = carrier'[r]
                      /\ job.phase = "move" /\ r \in job.batch => catalog.rows[r] # "none"
                      /\ Trashing /\ r \in job.batch => catalog.rows[r] \in {"hot", "archived"}
                      /\ Trashing /\ r \in job.done \cup {m} =>
                           carrier'[r] = Moved("trash", catalog.rows[r])
                      /\ Trashing /\ r \notin job.done \cup {m} =>
                           (missed[r] = "no" => catalog.rows[r] = carrier'[r])
    <3>1. (job'.phase = "move" => job.phase = "move") /\ (Trashing' => Trashing)
      BY <1>2 DEF Trashing
    <3>2. /\ job'.batch = job.batch /\ job'.done = job.done \cup {m}
          /\ UNCHANGED <<catalog, service, missed>>
      BY <1>2
    <3> QED BY <3>1, <3>2 DEF BatchInv
  <2>1. CASE r # m
    BY <2>1, <1>1, <1>4 DEF StorageInv, BatchInv, Trashing
  <2>2. CASE r = m
    <3>1. missed[m] = "no"
      BY <1>1 DEF StorageInv, BatchInv, PlaceInv
    <3>2. Trashing => catalog.rows[m] = carrier[m]
      BY <1>1, <3>1 DEF StorageInv, BatchInv
    <3> QED BY <2>2, <3>2, <1>1, <1>4 DEF StorageInv, BatchInv, Trashing
  <2> QED BY <2>1, <2>2
<1>13. ScanInv'
  BY <1>2 DEF ScanInv
<1> QED BY <1>7, <1>8, <1>9, <1>10, <1>11, <1>12, <1>13 DEF StorageInv

(* The operation on a carrier fails: without a move the mutation is over. *)
LEMMA MoveFailsKeeps ==
  ASSUME StorageInv, MoveFails
  PROVE  StorageInv'
<1>1. /\ job \in [kind: JobKinds, phase: JobPhases, before: Tables \cup {NoToken}, rows: Tables,
                  rev: Nat, newer: BOOLEAN, batch: SUBSET Runs, done: SUBSET Runs]
      /\ job.phase = "move" /\ job.kind \in Mutations
      /\ job.rows = NoRows /\ job.newer = FALSE /\ job.done \subseteq job.batch
  BY DEF StorageInv, StorageTypes, JobInv, MoveFails
<1>2. Quiet /\ UNCHANGED <<lockFile, service>> /\ faults' \in Nat
  BY DEF MoveFails, Quiet, StorageInv, StorageTypes
<1>3. CASE job' = NoJob
  <2>1. StorageTypes'
    BY <1>2, <1>3, Blank DEF StorageInv, StorageTypes, Quiet
  <2>2. JobInv'
    BY <1>1, <1>2, <1>3, Blank DEF StorageInv, JobInv, InLock
  <2>3. RevInv' /\ BatchInv' /\ ScanInv'
    BY <1>2, <1>3, Blank DEF StorageInv, RevInv, BatchInv, ScanInv, Trashing, Quiet
  <2>4. PlaceInv'
    BY <1>2, <1>3, Blank DEF StorageInv, PlaceInv, There, Quiet
  <2>5. FreshInv'
    BY <1>1, <1>2 DEF StorageInv, FreshInv, Sound, Quiet
  <2> QED BY <2>1, <2>2, <2>3, <2>4, <2>5 DEF StorageInv
<1>4. CASE job' = [job EXCEPT !.batch = job.done, !.phase = "lock"]
  <2>1. /\ job'.kind = job.kind /\ job'.before = job.before /\ job'.rows = job.rows
        /\ job'.newer = job.newer /\ job'.rev = job.rev /\ job'.batch = job.done
        /\ job'.done = job.done /\ job'.phase = "lock"
        /\ job' \in [kind: JobKinds, phase: JobPhases, before: Tables \cup {NoToken},
                     rows: Tables, rev: Nat, newer: BOOLEAN, batch: SUBSET Runs,
                     done: SUBSET Runs]
    BY <1>1, <1>4 DEF JobPhases
  <2>2. StorageTypes'
    BY <1>2, <2>1 DEF StorageInv, StorageTypes, Quiet
  <2>3. JobInv' /\ RevInv' /\ ScanInv'
    BY <1>1, <1>2, <2>1 DEF StorageInv, JobInv, RevInv, ScanInv, InLock, Mutations, Quiet
  <2>4. PlaceInv'
    BY <1>2, <2>1 DEF StorageInv, PlaceInv, There, Quiet
  <2>5. FreshInv'
    BY <1>1, <1>2 DEF StorageInv, FreshInv, Sound, Quiet
  <2>6. BatchInv'
    <3>1. Trashing' => Trashing
      BY <1>1, <2>1 DEF Trashing
    <3>2. job'.phase # "move" /\ job'.batch \subseteq job.batch /\ job'.done = job.done
      BY <1>1, <2>1
    <3>3. UNCHANGED <<catalog, carrier, missed>>
      BY <1>2 DEF Quiet
    <3>4. ASSUME NEW r \in Runs, Trashing'
          PROVE  /\ r \in job'.batch => catalog'.rows[r] \in {"hot", "archived"}
                 /\ r \in job'.done => carrier'[r] = Moved("trash", catalog'.rows[r])
                 /\ r \notin job'.done => (missed'[r] = "no" => catalog'.rows[r] = carrier'[r])
      BY <3>1, <3>2, <3>3, <3>4 DEF StorageInv, BatchInv
    <3> QED BY <3>2, <3>4 DEF BatchInv
  <2> QED BY <2>2, <2>3, <2>4, <2>5, <2>6 DEF StorageInv
<1> QED BY <1>3, <1>4 DEF MoveFails

(* The lock is taken, and the carriers are noted. *)
LEMMA AcquireKeeps ==
  ASSUME StorageInv, AcquireLock
  PROVE  StorageInv'
<1>1. /\ job \in [kind: JobKinds, phase: JobPhases, before: Tables \cup {NoToken}, rows: Tables,
                  rev: Nat, newer: BOOLEAN, batch: SUBSET Runs, done: SUBSET Runs]
      /\ job.phase = "lock" /\ carrier \in Tables /\ carrier # NoToken
      /\ job.rows = NoRows /\ job.newer = FALSE
  BY Blank DEF StorageInv, StorageTypes, JobInv, AcquireLock
<1>2. /\ Quiet /\ UNCHANGED <<service, faults>> /\ lockFile' = "held"
      /\ job' = [job EXCEPT !.phase = "locked", !.before = carrier]
  BY DEF AcquireLock, Quiet
<1>3. /\ job'.kind = job.kind /\ job'.phase = "locked" /\ job'.before = carrier
      /\ job'.rows = job.rows /\ job'.newer = job.newer /\ job'.rev = job.rev
      /\ job'.batch = job.batch /\ job'.done = job.done
      /\ job' \in [kind: JobKinds, phase: JobPhases, before: Tables \cup {NoToken}, rows: Tables,
                   rev: Nat, newer: BOOLEAN, batch: SUBSET Runs, done: SUBSET Runs]
  BY <1>1, <1>2 DEF JobPhases
<1>4. StorageTypes'
  BY <1>2, <1>3 DEF StorageInv, StorageTypes, Quiet
<1>5. JobInv' /\ RevInv' /\ ScanInv'
  BY <1>1, <1>2, <1>3 DEF StorageInv, JobInv, RevInv, ScanInv, InLock, Quiet
<1>6. PlaceInv'
  BY <1>2, <1>3 DEF StorageInv, PlaceInv, There, Quiet
<1>7. FreshInv'
  BY <1>1, <1>2 DEF StorageInv, FreshInv, Sound, Quiet
<1>8. BatchInv'
  BY <1>1, <1>2, <1>3 DEF StorageInv, BatchInv, Trashing, Moved, Quiet
<1> QED BY <1>4, <1>5, <1>6, <1>7, <1>8 DEF StorageInv

(* However a job ends, what remains is the token the service keeps. *)
LEMMA JobEnds ==
  ASSUME StorageInv, job' = NoJob,
         UNCHANGED <<carrier, newer, catalog, ledger, highest, moves>>,
         service' \in [token: Tables \cup {NoToken}, required: BOOLEAN,
                       error: {"none", "backoff", "retry"}],
         service'.token \in {service.token, carrier, NoToken},
         lockFile' \in {"free", "left"}, faults' \in Nat,
         missed' \in [Runs -> {"no", "late", "missed"}],
         \A r \in Runs : missed'[r] = "no" <=> missed[r] = "no",
         catalog.rev # 0 /\ (service'.token = carrier \/ ~ newer) => Sound
  PROVE  StorageInv'
<1>1. StorageTypes'
  BY Blank DEF StorageInv, StorageTypes
<1>2. JobInv' /\ RevInv' /\ BatchInv' /\ ScanInv'
  BY Blank DEF StorageInv, JobInv, RevInv, BatchInv, ScanInv, InLock, Trashing
<1>3. PlaceInv'
  BY Blank DEF StorageInv, PlaceInv, There
<1>4. FreshInv'
  BY DEF FreshInv, Sound
<1> QED BY <1>1, <1>2, <1>3, <1>4 DEF StorageInv

LEMMA UpdateFailsKeeps ==
  ASSUME StorageInv, Conflict \/ StepFails
  PROVE  StorageInv'
<1>1. /\ job' = NoJob /\ UNCHANGED <<carrier, newer, catalog, ledger, highest, moves, missed>>
      /\ service' = AfterFailure /\ lockFile' \in {"free", "left"} /\ faults' \in Nat
      /\ job.phase # "replaced" /\ carrier \in Tables /\ carrier # NoToken
      /\ service \in [token: Tables \cup {NoToken}, required: BOOLEAN,
                      error: {"none", "backoff", "retry"}]
      /\ missed \in [Runs -> {"no", "late", "missed"}]
  BY Blank DEF StorageInv, StorageTypes, JobInv, InLock, Conflict, StepFails, UpdateFails
<1>2. /\ service' \in [token: Tables \cup {NoToken}, required: BOOLEAN,
                       error: {"none", "backoff", "retry"}]
      /\ service'.token \in {service.token, NoToken}
  BY <1>1 DEF AfterFailure
<1>3. catalog.rev # 0 /\ (service'.token = carrier \/ ~ newer) => Sound
  BY <1>1, <1>2 DEF StorageInv, FreshInv
<1> QED BY <1>1, <1>2, <1>3, JobEnds

LEMMA FinishKeeps ==
  ASSUME StorageInv, Finish
  PROVE  StorageInv'
<1>1. /\ job' = NoJob /\ UNCHANGED <<carrier, newer, catalog, ledger, highest, moves, missed>>
      /\ service' = AfterUpdate /\ lockFile' = "free" /\ faults' \in Nat
      /\ job.phase = "replaced" /\ carrier \in Tables /\ carrier # NoToken
      /\ service \in [token: Tables \cup {NoToken}, required: BOOLEAN,
                      error: {"none", "backoff", "retry"}]
      /\ missed \in [Runs -> {"no", "late", "missed"}]
  BY Blank DEF StorageInv, StorageTypes, Finish
<1>2. /\ service' \in [token: Tables \cup {NoToken}, required: BOOLEAN,
                       error: {"none", "backoff", "retry"}]
      /\ service'.token \in {carrier, NoToken}
      /\ service'.token = carrier => job.kind = "trash" \/ job.before = carrier
  BY <1>1 DEF AfterUpdate, AfterRebuild
<1>3. catalog.rev # 0 /\ (service'.token = carrier \/ ~ newer) => Sound
  BY <1>1, <1>2 DEF StorageInv, ScanInv
<1> QED BY <1>1, <1>2, <1>3, JobEnds

(* After a kill only the age of the catalog file can make it pass for current. *)
LEMMA KilledKeeps ==
  ASSUME StorageInv, ServiceKilled
  PROVE  StorageInv'
<1>1. /\ job' = NoJob /\ UNCHANGED <<carrier, newer, catalog, ledger, highest, moves>>
      /\ service' = FreshService /\ lockFile' \in {"free", "left"} /\ faults' \in Nat
      /\ carrier \in Tables /\ carrier # NoToken
  BY Blank DEF StorageInv, StorageTypes, ServiceKilled
<1>2. /\ missed' \in [Runs -> {"no", "late", "missed"}]
      /\ \A r \in Runs : missed'[r] = "no" <=> missed[r] = "no"
  BY DEF StorageInv, StorageTypes, ServiceKilled
<1>3. /\ service' \in [token: Tables \cup {NoToken}, required: BOOLEAN,
                       error: {"none", "backoff", "retry"}]
      /\ service'.token = NoToken
  BY <1>1, Blank
<1>4. catalog.rev # 0 /\ (service'.token = carrier \/ ~ newer) => Sound
  BY <1>1, <1>3 DEF StorageInv, FreshInv, ScanInv
<1> QED BY <1>1, <1>2, <1>3, <1>4, JobEnds

(* The rows of the next catalog are those of the carriers. *)
LEMMA ScanKeeps ==
  ASSUME StorageInv, Scan
  PROVE  StorageInv'
<1> DEFINE rows == IF job.kind = "trash"
                   THEN [r \in Runs |-> IF r \in job.batch THEN Moved("trash", catalog.rows[r])
                                        ELSE catalog.rows[r]]
                   ELSE carrier
            rev == Max2(catalog.rev, ledger) + 1
<1>1. /\ job \in [kind: JobKinds, phase: JobPhases, before: Tables \cup {NoToken}, rows: Tables,
                  rev: Nat, newer: BOOLEAN, batch: SUBSET Runs, done: SUBSET Runs]
      /\ job.phase = "locked" /\ job.newer = FALSE /\ carrier \in Tables
      /\ catalog \in [rev: Nat, rows: Tables] /\ ledger \in Nat /\ rev \in Nat
      /\ job.kind = "trash" => job.done = job.batch
  BY DEF StorageInv, StorageTypes, JobInv, Scan, Max2
<1>2. rows \in Tables
  BY <1>1 DEF Tables, Moved, Places
<1>3. /\ Quiet /\ UNCHANGED <<service, faults, lockFile>>
      /\ job' = [job EXCEPT !.phase = "scanned", !.batch = {}, !.done = {},
                   !.rev = rev, !.rows = rows]
  BY DEF Scan, Quiet
<1>4. /\ job'.kind = job.kind /\ job'.phase = "scanned" /\ job'.before = job.before
      /\ job'.rows = rows /\ job'.newer = FALSE /\ job'.batch = {} /\ job'.done = {}
      /\ job' \in [kind: JobKinds, phase: JobPhases, before: Tables \cup {NoToken}, rows: Tables,
                   rev: Nat, newer: BOOLEAN, batch: SUBSET Runs, done: SUBSET Runs]
  <2> HIDE DEF rows, rev
  <2> QED BY <1>1, <1>2, <1>3 DEF JobPhases
<1>5. \A r \in Runs : rows[r] # "none" => carrier[r] # "none"
  BY <1>1 DEF StorageInv, PlaceInv, There, BatchInv, Trashing
<1>6. ASSUME job.kind = "trash", NEW r \in Runs
      PROVE  /\ missed[r] = "no" => rows[r] = carrier[r]
             /\ missed[r] # "no" => rows[r] = "none"
  <2>1. Trashing /\ job.done = job.batch
    BY <1>1, <1>6 DEF Trashing
  <2>2. CASE r \in job.batch
    <3>1. catalog.rows[r] \in {"hot", "archived"} /\ carrier[r] = Moved("trash", catalog.rows[r])
      BY <2>1, <2>2 DEF StorageInv, BatchInv
    <3>2. missed[r] = "no" /\ rows[r] = Moved("trash", catalog.rows[r])
      BY <1>6, <2>2, <3>1 DEF StorageInv, PlaceInv
    <3> QED BY <3>1, <3>2
  <2>3. CASE r \notin job.batch
    BY <1>6, <2>1, <2>3 DEF StorageInv, BatchInv, PlaceInv
  <2> QED BY <2>2, <2>3
<1>7. job.kind # "trash" => rows = carrier
  OBVIOUS
<1> HIDE DEF rows, rev
<1>8. StorageTypes'
  BY <1>3, <1>4 DEF StorageInv, StorageTypes, Quiet
<1>9. JobInv' /\ RevInv'
  BY <1>1, <1>3, <1>4 DEF StorageInv, JobInv, RevInv, InLock, Quiet
<1>10. PlaceInv'
  BY <1>3, <1>4, <1>5, <1>6 DEF StorageInv, PlaceInv, There, Quiet
<1>11. FreshInv'
  BY <1>1, <1>3 DEF StorageInv, FreshInv, Sound, Quiet
<1>12. BatchInv'
  BY <1>4 DEF BatchInv, Trashing
<1>13. ScanInv'
  BY <1>3, <1>4, <1>6, <1>7 DEF ScanInv, Seen, Quiet
<1> QED BY <1>8, <1>9, <1>10, <1>11, <1>12, <1>13 DEF StorageInv

(* A revision is reserved: it is above every other. *)
LEMMA LedgerKeeps ==
  ASSUME StorageInv, WriteLedger
  PROVE  StorageInv'
<1>1. /\ job \in [kind: JobKinds, phase: JobPhases, before: Tables \cup {NoToken}, rows: Tables,
                  rev: Nat, newer: BOOLEAN, batch: SUBSET Runs, done: SUBSET Runs]
      /\ job.phase = "scanned" /\ job.newer = FALSE /\ ledger \in Nat /\ highest \in Nat
      /\ job.rev > ledger
  BY DEF StorageInv, StorageTypes, JobInv, WriteLedger
<1>2. /\ UNCHANGED <<carrier, newer, catalog, lockFile, service, highest, missed, moves, faults>>
      /\ ledger' = job.rev /\ job' = [job EXCEPT !.phase = "reserved"]
  BY DEF WriteLedger
<1>3. /\ job'.kind = job.kind /\ job'.phase = "reserved" /\ job'.before = job.before
      /\ job'.rows = job.rows /\ job'.newer = FALSE /\ job'.rev = job.rev
      /\ job'.batch = job.batch /\ job'.done = job.done
      /\ job' \in [kind: JobKinds, phase: JobPhases, before: Tables \cup {NoToken}, rows: Tables,
                   rev: Nat, newer: BOOLEAN, batch: SUBSET Runs, done: SUBSET Runs]
  BY <1>1, <1>2 DEF JobPhases
<1>4. StorageTypes'
  BY <1>1, <1>2, <1>3 DEF StorageInv, StorageTypes
<1>5. JobInv' /\ RevInv'
  BY <1>1, <1>2, <1>3 DEF StorageInv, JobInv, RevInv, InLock
<1>6. PlaceInv'
  BY <1>2, <1>3 DEF StorageInv, PlaceInv, There
<1>7. FreshInv'
  BY <1>1, <1>2 DEF StorageInv, FreshInv, Sound
<1>8. BatchInv'
  BY <1>3 DEF BatchInv, Trashing
<1>9. ScanInv'
  BY <1>1, <1>2, <1>3 DEF StorageInv, ScanInv, Seen
<1> QED BY <1>4, <1>5, <1>6, <1>7, <1>8, <1>9 DEF StorageInv

(* The file is replaced: what the scan did not see is newer than it or was missed. *)
LEMMA ReplaceKeeps ==
  ASSUME StorageInv, Replace
  PROVE  StorageInv'
<1>1. /\ job \in [kind: JobKinds, phase: JobPhases, before: Tables \cup {NoToken}, rows: Tables,
                  rev: Nat, newer: BOOLEAN, batch: SUBSET Runs, done: SUBSET Runs]
      /\ job.phase = "reserved" /\ ledger \in Nat /\ highest \in Nat
      /\ missed \in [Runs -> {"no", "late", "missed"}]
  BY DEF StorageInv, StorageTypes, Replace
<1>2. /\ UNCHANGED <<carrier, ledger, lockFile, service, moves, faults>>
      /\ catalog' = [rev |-> job.rev, rows |-> job.rows] /\ highest' = Max2(highest, job.rev)
      /\ newer' = job.newer
      /\ job' = [job EXCEPT !.phase = "replaced", !.newer = FALSE, !.rows = NoRows, !.rev = 0]
  BY DEF Replace
<1>3. /\ missed' \in [Runs -> {"no", "late", "missed"}]
      /\ \A r \in Runs : missed'[r] = IF job.rows[r] = "none" THEN missed[r] ELSE "no"
  BY <1>1 DEF Replace
<1>4. /\ job'.kind = job.kind /\ job'.phase = "replaced" /\ job'.before = job.before
      /\ job'.rows = NoRows /\ job'.newer = FALSE
      /\ job'.batch = job.batch /\ job'.done = job.done
      /\ job' \in [kind: JobKinds, phase: JobPhases, before: Tables \cup {NoToken}, rows: Tables,
                   rev: Nat, newer: BOOLEAN, batch: SUBSET Runs, done: SUBSET Runs]
  BY <1>1, <1>2, Blank DEF JobPhases
<1>5. catalog'.rev = job.rev /\ catalog'.rows = job.rows /\ catalog' \in [rev: Nat, rows: Tables]
  BY <1>1, <1>2
<1>6. StorageTypes'
  BY <1>1, <1>2, <1>3, <1>4, <1>5 DEF StorageInv, StorageTypes, Max2
<1>7. JobInv'
  BY <1>1, <1>2, <1>4 DEF StorageInv, JobInv, InLock
<1>8. RevInv'
  BY <1>1, <1>2, <1>4 DEF StorageInv, RevInv, Max2
<1>9. PlaceInv'
  BY <1>2, <1>3, <1>4, <1>5, Blank DEF StorageInv, PlaceInv, There
<1>10. FreshInv' /\ BatchInv'
  BY <1>4 DEF FreshInv, BatchInv, Trashing
<1>11. ScanInv'
  <2>1. ASSUME job.kind = "trash", NEW r \in Runs, missed'[r] = "no"
        PROVE  job.rows[r] = carrier[r]
    BY <2>1, <1>1, <1>3 DEF StorageInv, ScanInv, PlaceInv
  <2>2. ASSUME job.kind # "trash", job.before = carrier \/ ~ job.newer, NEW r \in Runs,
               missed'[r] = "no"
        PROVE  job.rows[r] = carrier[r]
    <3>1. Seen(r)
      BY <2>2, <1>1 DEF StorageInv, ScanInv
    <3> QED BY <2>2, <3>1, <1>3 DEF Seen
  <2> QED BY <2>1, <2>2, <1>2, <1>4, <1>5 DEF ScanInv, Sound
<1> QED BY <1>6, <1>7, <1>8, <1>9, <1>10, <1>11 DEF StorageInv

-----------------------------------------------------------------------------
LEMMA StorageKeeps ==
  ASSUME StorageInv, StorageStep
  PROVE  StorageInv'
<1>1. ASSUME NEW r \in Runs, Publish(r) PROVE StorageInv'
  BY <1>1, PublishKeeps
<1>2. CASE LoseCatalog \/ BackOffOver \/ Failure
  BY <1>2, AsideKeeps
<1>3. CASE Consult
  BY <1>3, ConsultKeeps
<1>4. ASSUME NEW kind \in Mutations, NEW batch \in SUBSET Runs, Mutate(kind, batch)
      PROVE  StorageInv'
  BY <1>4, MutateKeeps
<1>5. CASE Move
  <2>1. PICK m \in job.batch \ job.done :
          /\ carrier[m] \in From(job.kind)
          /\ carrier' = [carrier EXCEPT ![m] = Moved(job.kind, @)]
          /\ job' = [job EXCEPT !.done = @ \cup {m},
                               !.phase = IF job.batch = job.done \cup {m} THEN "lock" ELSE @]
    BY <1>5 DEF Move
  <2> QED BY <1>5, <2>1, MoveKeeps DEF Move
<1>6. CASE MoveFails
  BY <1>6, MoveFailsKeeps
<1>7. CASE AcquireLock
  BY <1>7, AcquireKeeps
<1>8. CASE Conflict \/ StepFails
  BY <1>8, UpdateFailsKeeps
<1>9. CASE Scan
  BY <1>9, ScanKeeps
<1>10. CASE WriteLedger
  BY <1>10, LedgerKeeps
<1>11. CASE Replace
  BY <1>11, ReplaceKeeps
<1>12. CASE Finish
  BY <1>12, FinishKeeps
<1>13. CASE ServiceKilled
  BY <1>13, KilledKeeps
<1> QED
  BY <1>1, <1>2, <1>3, <1>4, <1>5, <1>6, <1>7, <1>8, <1>9, <1>10, <1>11, <1>12, <1>13
     DEF StorageStep

LEMMA StorageStarts ==
  ASSUME StorageInit
  PROVE  StorageInv
<1>1. StorageTypes
  BY Blank DEF StorageInit, StorageTypes, Tables
<1>2. JobInv /\ RevInv /\ BatchInv /\ ScanInv
  BY Blank DEF StorageInit, JobInv, RevInv, BatchInv, ScanInv, InLock, Trashing
<1>3. PlaceInv
  BY Blank DEF StorageInit, PlaceInv, There
<1>4. FreshInv
  BY DEF StorageInit, FreshInv
<1> QED BY <1>1, <1>2, <1>3, <1>4 DEF StorageInv

(* The storage under the projection takes its own steps or none. *)
LEMMA StepsOfStorage ==
  ASSUME Next
  PROVE  StorageStep \/ UNCHANGED storage
<1>1. ASSUME NEW p \in Registrars, Register(p)
      PROVE  StorageStep \/ UNCHANGED storage
  <2>1. CASE Publishing(p)
    BY <2>1, RegistrarAssumption DEF Publishing, StorageStep
  <2>2. CASE WriteEvent(p)
    BY <2>2 DEF WriteEvent, Leave, StorageStep, Failure, storage
  <2>3. CASE RegistrarKilled(p)
    BY <2>3 DEF RegistrarKilled, StorageStep, Failure
  <2>4. CASE \/ Again(p) \/ Identify(p) \/ Found(p) \/ TakeEventLock(p)
             \/ EventLockTimeout(p) \/ VerifyEvent(p)
    BY <2>4 DEF Again, Identify, Found, TakeEventLock, EventLockTimeout, VerifyEvent
  <2> QED BY <1>1, <2>1, <2>2, <2>3, <2>4 DEF Register
<1>2. CASE Serve
  BY <1>2 DEF Serve, Request, JobStep, Look, Consult, StorageStep, Mutations
<1>3. CASE ReadRows
  BY <1>3 DEF ReadRows, StorageStep, Consult, storage
<1>4. CASE \/ StartPass \/ FindEvent \/ ProjectEvent \/ UnlinkEvent \/ RowsBuilt
           \/ SyncRow \/ ProjectDirectory \/ MarkProjected \/ ScanHot \/ ReadHot \/ ApplyScan
           \/ ServerStarts
  BY <1>4 DEF StartPass, FindEvent, ProjectEvent, UnlinkEvent, RowsBuilt, SyncRow, Aside,
     ProjectDirectory, MarkProjected, ScanHot, ReadHot, ApplyScan, ServerStarts
<1>5. CASE ProjectionFails
  BY <1>5 DEF ProjectionFails, EventUnread, RunUnread, DirectoryUnread, HotUnread, EventKept,
     RowsUnread, SyncFails, ApplyFails, Fault, StorageStep, Failure
<1>6. CASE ServerKilled
  BY <1>6 DEF ServerKilled, StorageStep
<1> QED BY <1>1, <1>2, <1>3, <1>4, <1>5, <1>6 DEF Next, Coordinate

LEMMA StorageStutters ==
  ASSUME StorageInv, UNCHANGED storage
  PROVE  StorageInv'
<1>1. StorageTypes' /\ JobInv' /\ RevInv'
  BY DEF storage, StorageInv, StorageTypes, JobInv, RevInv, InLock
<1>2. PlaceInv' /\ FreshInv'
  BY DEF storage, StorageInv, PlaceInv, FreshInv, There, Sound
<1>3. BatchInv' /\ ScanInv'
  BY DEF storage, StorageInv, BatchInv, ScanInv, Trashing, Seen, Sound
<1> QED BY <1>1, <1>2, <1>3 DEF StorageInv

LEMMA StorageAlways == Spec => []StorageInv
<1>1. Init => StorageInv
  BY StorageStarts DEF Init
<1>2. StorageInv /\ [Next]_vars => StorageInv'
  <2>1. CASE Next
    BY <2>1, StepsOfStorage, StorageKeeps, StorageStutters
  <2>2. CASE UNCHANGED vars
    BY <2>2, StorageStutters DEF vars
  <2> QED BY <2>1, <2>2
<1> QED BY <1>1, <1>2, PTL DEF Spec

(* Under a revision there is one catalog, whatever is lost, killed or refused: a catalog   *)
(* that comes into being has a revision above every one published before (rebuild_catalog, *)
(* publish_trash_catalog and the ledger beside the file).                                  *)
THEOREM RevisionsNeverReturn == Spec => RevisionsRise
<1> DEFINE Rise == catalog'.rev # 0 /\ catalog' # catalog => catalog'.rev > highest
<1>1. StorageInv /\ [Next]_vars => [Rise]_storage
  <2> SUFFICES ASSUME StorageInv, [Next]_vars PROVE Rise \/ UNCHANGED storage
    OBVIOUS
  <2>1. CASE StorageStep
    <3>1. CASE Replace
      BY <3>1 DEF Replace, StorageInv, StorageTypes, RevInv
    <3>2. CASE LoseCatalog
      BY <3>2 DEF LoseCatalog
    <3>3. CASE ~ Replace /\ ~ LoseCatalog
      <4>1. catalog' = catalog
        BY <2>1, <3>3 DEF StorageStep, Publish, Consult, BackOffOver, Failure, Mutate, Move,
           MoveFails, AcquireLock, Conflict, UpdateFails, Scan, WriteLedger, StepFails, Finish, ServiceKilled
      <4> QED BY <4>1
    <3> QED BY <3>1, <3>2, <3>3
  <2>2. CASE UNCHANGED storage
    BY <2>2
  <2>3. CASE UNCHANGED vars
    BY <2>3 DEF vars
  <2> QED BY <2>1, <2>2, <2>3, StepsOfStorage
<1> QED BY <1>1, StorageAlways, PTL DEF Spec, RevisionsRise

(* A run that is late is known to be missing: the token is without it, and so is what its  *)
(* rebuild began with, which then asks for another.                                        *)
LateInv ==
    \A r \in Runs : missed[r] = "late" =>
      /\ carrier[r] # "none" /\ job.kind # "trash"
      /\ service.token = NoToken \/ service.token[r] = "none"
      /\ IF job.phase = "replaced" THEN job.before[r] = "none" ELSE newer \/ service.required

LEMMA LateStutters ==
  ASSUME LateInv, UNCHANGED storage
  PROVE  LateInv'
  BY DEF LateInv, storage

LEMMA LateKeeps ==
  ASSUME StorageInv, LateInv, StorageStep
  PROVE  LateInv'
<1>a. /\ carrier \in Tables /\ carrier # NoToken /\ missed \in [Runs -> {"no", "late", "missed"}]
      /\ service \in [token: Tables \cup {NoToken}, required: BOOLEAN,
                      error: {"none", "backoff", "retry"}]
      /\ job \in [kind: JobKinds, phase: JobPhases, before: Tables \cup {NoToken}, rows: Tables,
                  rev: Nat, newer: BOOLEAN, batch: SUBSET Runs, done: SUBSET Runs]
  BY Blank DEF StorageInv, StorageTypes
<1>b. job.kind = "none" <=> job.phase = "none"
  BY DEF StorageInv, JobInv
<1>1. ASSUME NEW p \in Runs, Publish(p) PROVE LateInv'
  <2>1. /\ carrier'[p] = "hot" /\ newer' /\ carrier[p] = "none"
        /\ \A r \in Runs : r # p => carrier'[r] = carrier[r] /\ missed'[r] = missed[r]
        /\ missed'[p] = "late" => job.kind # "trash" /\ job.phase = "scanned"
        /\ job'.kind = job.kind /\ job'.phase = job.phase /\ job'.before = job.before
        /\ service' = service
    BY <1>1, <1>a DEF Publish, Tables
  <2>2. service.token = NoToken \/ service.token[p] = "none"
    BY <2>1 DEF StorageInv, PlaceInv, There
  <2> QED BY <2>1, <2>2 DEF LateInv
<1>2. CASE LoseCatalog \/ BackOffOver \/ Failure
  <2>1. /\ UNCHANGED <<carrier, newer, job, missed>>
        /\ service'.token = service.token /\ service'.required = service.required
    BY <1>2, <1>a DEF LoseCatalog, BackOffOver, Failure
  <2> QED BY <2>1 DEF LateInv
<1>3. ASSUME NEW r \in Runs, missed[r] = "late", job.kind = "none" PROVE ~ Trusting /\ ~ Settled
  <2>1. newer \/ service.required
    BY <1>3, <1>b DEF LateInv
  <2>2. service.token # carrier
    BY <1>3, <1>a DEF LateInv
  <2> QED BY <2>1, <2>2 DEF Trusting, Settled
<1>4. CASE Consult
  <2>1. UNCHANGED <<carrier, newer, missed>> /\ job.kind = "none"
    BY <1>4 DEF Consult, Busy
  <2>2. ASSUME NEW r \in Runs, missed[r] = "late"
        PROVE  /\ service'.token = service.token /\ service'.required = service.required
               /\ job'.kind # "trash" /\ job'.phase # "replaced"
    <3>1. \/ service' = service \/ service' = [service EXCEPT !.error = "none"]
      BY <1>3, <1>4, <2>1, <2>2 DEF Consult, Ensured
    <3>2. job' = job \/ job' = Starting("first", {}) \/ job' = Starting("refresh", {})
      BY <1>4 DEF Consult, Ensured
    <3>3. \A kind \in {"first", "refresh"} :
             Starting(kind, {}).kind # "trash" /\ Starting(kind, {}).phase = "lock"
      BY Started DEF JobKinds
    <3> QED BY <1>a, <1>b, <2>1, <3>1, <3>2, <3>3
  <2> QED BY <1>b, <2>1, <2>2 DEF LateInv
<1>5. ASSUME NEW kind \in Mutations, NEW batch \in SUBSET Runs, Mutate(kind, batch)
      PROVE  LateInv'
  BY <1>3, <1>5 DEF Mutate, Busy, LateInv
<1>6. CASE Move
  <2>1. /\ newer' /\ UNCHANGED <<service, missed>> /\ job.phase = "move"
        /\ job'.kind = job.kind /\ job'.phase # "replaced"
        /\ \A r \in Runs : carrier[r] # "none" => carrier'[r] # "none"
    <3>1. job.kind \in Mutations
      BY <1>6 DEF Move, StorageInv, JobInv
    <3>2. \A place : Moved(job.kind, place) # "none"
      BY <3>1 DEF Moved, Mutations
    <3> QED BY <1>6, <1>a, <3>2 DEF Move, Tables
  <2> QED BY <2>1 DEF LateInv
<1>7. CASE MoveFails \/ Conflict \/ StepFails
  <2>1. /\ UNCHANGED <<carrier, newer, missed>> /\ job.phase # "replaced"
        /\ job' = NoJob \/ (job'.kind = job.kind /\ job'.phase = "lock")
        /\ service' = service \/ service' = AfterFailure
    BY <1>7, <1>a DEF MoveFails, Conflict, StepFails, UpdateFails
  <2>2. job'.phase # "replaced" /\ (job.kind # "trash" => job'.kind # "trash")
    BY <2>1, Blank
  <2>3. job.kind # "trash" =>
          service' = service \/ (service'.token = NoToken /\ service'.required)
    BY <2>1 DEF AfterFailure
  <2> QED BY <2>1, <2>2, <2>3 DEF LateInv
<1>8. CASE AcquireLock \/ Scan \/ WriteLedger
  <2>1. /\ UNCHANGED <<carrier, newer, missed, service>> /\ job.phase # "replaced"
        /\ job'.kind = job.kind /\ job'.phase \in {"locked", "scanned", "reserved"}
    BY <1>8, <1>a DEF AcquireLock, Scan, WriteLedger
  <2> QED BY <2>1 DEF LateInv
<1>9. CASE Replace
  <2>1. /\ UNCHANGED <<carrier, service>> /\ job.phase = "reserved" /\ job'.phase = "replaced"
        /\ job'.kind = job.kind /\ job'.before = job.before
        /\ \A r \in Runs : missed'[r] = IF job.rows[r] = "none" THEN missed[r] ELSE "no"
    BY <1>9, <1>a DEF Replace
  <2>2. ASSUME NEW r \in Runs, missed[r] = "late", job.rows[r] = "none"
        PROVE  job.before[r] = "none"
    <3>1. carrier[r] # "none" /\ job.kind # "trash"
      BY <2>2 DEF LateInv
    <3> QED BY <2>1, <2>2, <3>1 DEF StorageInv, ScanInv, Seen
  <2> QED BY <2>1, <2>2 DEF LateInv
<1>10. CASE Finish
  <2>1. /\ UNCHANGED <<carrier, newer, missed>> /\ job.phase = "replaced" /\ job' = NoJob
        /\ service' = AfterUpdate
    BY <1>10 DEF Finish
  <2>2. ASSUME NEW r \in Runs, missed[r] = "late"
        PROVE  service'.token = NoToken /\ service'.required
    <3>1. job.kind # "trash" /\ job.before # carrier
      BY <2>1, <2>2 DEF LateInv
    <3> QED BY <1>a, <2>1, <3>1 DEF AfterUpdate, AfterRebuild
  <2> QED BY <2>1, <2>2, Blank DEF LateInv
<1>11. CASE ServiceKilled
  BY <1>11 DEF ServiceKilled, LateInv
<1> QED
  BY <1>1, <1>2, <1>4, <1>5, <1>6, <1>7, <1>8, <1>9, <1>10, <1>11 DEF StorageStep

(* While the service takes its catalog for current and nothing runs, every row tells where *)
(* the carrier of its run is, but for the runs the code may fail to see (server.py         *)
(* _ensure_catalog and its updates; catalog.py rebuild_catalog and publish_trash_catalog). *)
THEOREM CatalogSound == Spec => []CatalogTrue
<1>1. Init => LateInv
  BY DEF Init, StorageInit, LateInv
<1>2. StorageInv /\ LateInv /\ [Next]_vars => LateInv'
  BY StepsOfStorage, LateKeeps, LateStutters DEF vars
<1>3. StorageInv /\ LateInv => CatalogTrue
  <2> SUFFICES ASSUME StorageInv, LateInv, ~ Busy, catalog.rev # 0, service.token = carrier,
                      NEW r \in Runs, missed[r] # "missed"
               PROVE  catalog.rows[r] = carrier[r]
    BY DEF CatalogTrue
  <2>1. missed[r] # "late"
    <3>1. carrier # NoToken
      BY Blank DEF StorageInv, StorageTypes
    <3> QED BY <3>1 DEF LateInv
  <2>2. missed[r] = "no"
    BY <2>1 DEF StorageInv, StorageTypes
  <2> QED BY <2>2 DEF StorageInv, JobInv, FreshInv, Sound, Busy
<1> QED BY <1>1, <1>2, <1>3, StorageAlways, PTL DEF Spec

-----------------------------------------------------------------------------
(* The projection. *)
Phases == {"start", "identify", "lock", "write", "verify", "end"}
Stands == {"down", "first scan", "first listed", "first apply", "sync again", "sync", "events",
           "read", "unlink", "set aside", "rows again", "building", "building again", "listed",
           "apply"}
ShownRow == [active: BOOLEAN, carrier: {"none", "hot", "archived", "trash"}]
Coordinator == [at: Stands, todo: SUBSET Runs, rows: Tables, run: SUBSET Runs, place: Places,
                ghosts: SUBSET Runs]

ProjectionTypes ==
    /\ inbox \subseteq Runs /\ quarantine \subseteq Runs /\ ghosts \subseteq Runs
    /\ enqueued \subseteq Runs /\ projected \subseteq Runs
    /\ eventLock \in [Runs -> Registrars \cup {Nobody}]
    /\ registrar \in [Registrars -> Phases]
    /\ readModel \in [Runs -> ShownRow]
    /\ coord \in Coordinator
    /\ coord.run = {} \/ \E r \in Runs : coord.run = {r}

HolderInv ==
    \A p \in Registrars : registrar[p] \in {"write", "verify"} => eventLock[RunOf[p]] = p

(* A run whose event is about to be removed is known; one that is about to be read is      *)
(* where it was found as long as nothing is moved, and no event is set aside as long as    *)
(* nothing fails either.                                                                   *)
Calm == moves = 0 /\ faults = 0

EventInv ==
    /\ coord.at = "unlink" => coord.run \subseteq projected
    /\ Calm => coord.at # "set aside" /\ (coord.at = "read" => coord.run \subseteq Hot)

ProjectionInv == ProjectionTypes /\ HolderInv /\ EventInv /\ EnqueuedIsKnown
Inv == StorageInv /\ ProjectionInv

LEMMA IdleTypes ==
    /\ Idle \in Coordinator /\ Down \in Coordinator /\ NoRow \in ShownRow /\ HotRow \in ShownRow
    /\ ArchivedRow \in ShownRow
    /\ Idle.run = {} /\ Idle.at = "sync again" /\ Down.run = {} /\ Down.at = "down"
  BY Blank DEF Idle, Down, NoRow, HotRow, ArchivedRow, Coordinator, ShownRow, Stands, Places

(* While nothing is moved, what is hot stays hot; neither moves nor failures are forgotten. *)
LEMMA HotStays ==
  ASSUME StorageTypes, StorageStep \/ UNCHANGED storage
  PROVE  /\ Calm' => Calm
         /\ Calm' => Hot \subseteq Hot'
<1> USE DEF Calm
<1>1. moves \in Nat /\ faults \in Nat /\ carrier \in Tables
  BY DEF StorageTypes
<1>2. ASSUME NEW r \in Runs, Publish(r) PROVE UNCHANGED <<moves, faults>> /\ Hot \subseteq Hot'
  BY <1>1, <1>2 DEF Publish, Hot, Tables
<1>3. CASE Move
  BY <1>1, <1>3 DEF Move
<1>4. CASE UNCHANGED storage
  BY <1>4 DEF storage, Hot
<1>5. CASE ~ Move /\ ~ \E r \in Runs : Publish(r)
  <2>1. CASE StorageStep
    <3>1. UNCHANGED <<moves, carrier>> /\ faults' \in {faults, faults + 1}
      BY <1>1, <1>5, <2>1 DEF StorageStep, LoseCatalog, Consult, BackOffOver, Failure, Mutate, MoveFails,
         AcquireLock, Conflict, UpdateFails, Scan, WriteLedger, StepFails, Finish, ServiceKilled,
         Replace
    <3> QED BY <1>1, <3>1 DEF Hot
  <2> QED BY <1>4, <2>1
<1> QED BY <1>2, <1>3, <1>4, <1>5

LEMMA AfterTypes ==
  ASSUME coord \in Coordinator, NEW r \in Runs
  PROVE  /\ After(r) \in Coordinator /\ After(r).run = coord.run /\ After(r).at = coord.at
         /\ After(r).place = coord.place
  BY DEF After, Coordinator, Tables, Places

LEMMA NextRows ==
  ASSUME coord \in Coordinator
  PROVE  NextRow \subseteq coord.todo /\ NextRow \subseteq Runs
  BY DEF NextRow, Coordinator

(* What a row is made to show. *)
LEMMA RowTypes ==
  ASSUME ProjectionTypes, NEW r \in Runs, NEW row \in ShownRow, Row(r, row)
  PROVE  /\ readModel' \in [Runs -> ShownRow] /\ projected' \subseteq Runs
         /\ projected' = projected \cup {r}
  BY DEF ProjectionTypes, Row

LEMMA MarkTypes ==
  ASSUME ProjectionTypes, NEW r \in Runs, Mark(r)
  PROVE  /\ readModel' \in [Runs -> ShownRow] /\ projected' \subseteq Runs
         /\ projected' = projected \cup {r} /\ inbox' = inbox \ {r}
<1>1. coord.rows[r] \in Places
  BY DEF ProjectionTypes, Coordinator, Tables
<1>2. [HotRow EXCEPT !.carrier = State(coord.rows[r])] \in ShownRow
  BY <1>1 DEF HotRow, State, ShownRow, Places, Trashed
<1> QED BY <1>2, RowTypes DEF Mark, Acknowledge

(* A registrar. *)
LEMMA RegisterKeeps ==
  ASSUME StorageInv, ProjectionInv, NEW p \in Registrars, Register(p)
  PROVE  ProjectionInv'
<1>1. /\ RunOf[p] \in Runs /\ p # Nobody
      /\ registrar \in [Registrars -> Phases] /\ eventLock \in [Runs -> Registrars \cup {Nobody}]
      /\ inbox \subseteq Runs /\ enqueued \subseteq Runs
  BY RegistrarAssumption DEF ProjectionInv, ProjectionTypes
<1>2. UNCHANGED <<quarantine, readModel, ghosts, digest, coord, projected>>
  BY DEF Register, Publishing, Again, Identify, Found, TakeEventLock, EventLockTimeout, WriteEvent,
     VerifyEvent, RegistrarKilled, server
<1>3. /\ inbox \subseteq inbox' /\ inbox' \subseteq Runs
      /\ enqueued' = enqueued \/ (enqueued' = enqueued \cup {RunOf[p]} /\ RunOf[p] \in inbox)
  BY <1>1 DEF Register, Publishing, Again, Identify, Found, TakeEventLock, EventLockTimeout,
     WriteEvent, VerifyEvent, RegistrarKilled, Told, Leave, Become
<1>4. \E phase \in Phases :
        /\ registrar' = [registrar EXCEPT ![p] = phase]
        /\ \/ phase \notin {"write", "verify"} /\ eventLock' = eventLock
           \/ /\ phase = "write" /\ eventLock[RunOf[p]] = Nobody
              /\ eventLock' = [eventLock EXCEPT ![RunOf[p]] = p]
           \/ phase = "verify" /\ registrar[p] = "write" /\ eventLock' = eventLock
           \/ /\ phase = "end" /\ registrar[p] \in {"write", "verify"}
              /\ eventLock' = [eventLock EXCEPT ![RunOf[p]] = Nobody]
  BY <1>1 DEF Register, Publishing, Again, Identify, Found, TakeEventLock, EventLockTimeout,
     WriteEvent, VerifyEvent, RegistrarKilled, Leave, Become, Phases
<1>5. ProjectionTypes'
  BY <1>1, <1>2, <1>3, <1>4 DEF ProjectionInv, ProjectionTypes
<1>6. HolderInv'
  <2> SUFFICES ASSUME NEW q \in Registrars, registrar'[q] \in {"write", "verify"}
               PROVE  eventLock'[RunOf[q]] = q
    BY DEF HolderInv
  <2>1. RunOf[q] \in Runs /\ q # Nobody
    BY RegistrarAssumption
  <2>2. registrar[q] \in {"write", "verify"} => eventLock[RunOf[q]] = q
    BY DEF ProjectionInv, HolderInv
  <2>3. registrar[p] \in {"write", "verify"} => eventLock[RunOf[p]] = p
    BY DEF ProjectionInv, HolderInv
  <2>4. PICK phase \in Phases :
          /\ registrar' = [registrar EXCEPT ![p] = phase]
          /\ \/ phase \notin {"write", "verify"} /\ eventLock' = eventLock
             \/ /\ phase = "write" /\ eventLock[RunOf[p]] = Nobody
                /\ eventLock' = [eventLock EXCEPT ![RunOf[p]] = p]
             \/ phase = "verify" /\ registrar[p] = "write" /\ eventLock' = eventLock
             \/ /\ phase = "end" /\ registrar[p] \in {"write", "verify"}
                /\ eventLock' = [eventLock EXCEPT ![RunOf[p]] = Nobody]
    BY <1>4
  <2>5. registrar'[q] = IF q = p THEN phase ELSE registrar[q]
    BY <1>1, <2>4
  <2> QED BY <1>1, <2>1, <2>2, <2>3, <2>4, <2>5
<1>7. EventInv' /\ EnqueuedIsKnown'
  <2>1. (Calm' => Calm) /\ (Calm' => Hot \subseteq Hot')
    <3>1. Next
      BY DEF Next
    <3> QED BY <3>1, StepsOfStorage, HotStays DEF StorageInv
  <2> QED BY <1>2, <1>3, <2>1 DEF ProjectionInv, EventInv, EnqueuedIsKnown, Calm
<1> QED BY <1>5, <1>6, <1>7 DEF ProjectionInv

(* A request or a step of a job. *)
LEMMA ServeKeeps ==
  ASSUME StorageInv, ProjectionInv, Serve \/ UNCHANGED vars
  PROVE  ProjectionInv'
<1>1. UNCHANGED <<inbox, quarantine, eventLock, registrar, readModel, ghosts, digest, coord,
                  enqueued, projected>>
  BY DEF Serve, projection, vars
<1>2. (Calm' => Calm) /\ (Calm' => Hot \subseteq Hot')
  <2>1. StorageStep \/ UNCHANGED storage
    BY StepsOfStorage DEF Next, vars
  <2> QED BY <2>1, HotStays DEF StorageInv
<1>3. ProjectionTypes' /\ HolderInv'
  BY <1>1 DEF ProjectionInv, ProjectionTypes, HolderInv
<1>4. EventInv' /\ EnqueuedIsKnown'
  BY <1>1, <1>2 DEF ProjectionInv, EventInv, EnqueuedIsKnown, Calm
<1> QED BY <1>3, <1>4 DEF ProjectionInv

(* A step of the coordinator is one of the storage's or none, and keeps the registrars. *)
LEMMA CoordinatorSteps ==
  ASSUME StorageInv, ProjectionInv, Next,
         UNCHANGED <<registrar, eventLock, enqueued>>,
         readModel' \in [Runs -> ShownRow], projected' \subseteq Runs,
         projected \subseteq projected',
         inbox' \subseteq inbox, quarantine' \subseteq Runs, ghosts' \subseteq Runs,
         coord' \in Coordinator, coord'.run = {} \/ \E r \in Runs : coord'.run = {r},
         coord'.at = "unlink" => coord'.run \subseteq projected',
         coord'.at = "set aside" => coord.at = "set aside" \/ ~ Calm \/ ~ Calm',
         coord'.at = "read" =>
            coord'.run \subseteq Hot \/ (coord.at = "read" /\ coord'.run = coord.run),
         inbox \ inbox' \subseteq projected' \cup quarantine',
         quarantine \subseteq quarantine',
         quarantine' # quarantine => ~ Calm
  PROVE  ProjectionInv'
<1>1. (Calm' => Calm) /\ (Calm' => Hot \subseteq Hot')
  BY StepsOfStorage, HotStays DEF StorageInv
<1>2. ProjectionTypes'
  BY DEF ProjectionInv, ProjectionTypes
<1>3. HolderInv'
  BY DEF ProjectionInv, HolderInv
<1>4. EventInv'
  BY <1>1 DEF ProjectionInv, EventInv
<1>5. EnqueuedIsKnown'
  BY <1>1 DEF ProjectionInv, EnqueuedIsKnown, Calm
<1> QED BY <1>2, <1>3, <1>4, <1>5 DEF ProjectionInv

(* A read or a write of the coordinator fails. *)
LEMMA FailureKeeps ==
  ASSUME StorageInv, ProjectionInv, ProjectionFails
  PROVE  ProjectionInv'
<1>1. /\ ProjectionTypes /\ coord \in Coordinator /\ carrier \in Tables
      /\ readModel \in [Runs -> ShownRow] /\ inbox \subseteq Runs /\ projected \subseteq Runs
      /\ quarantine \subseteq Runs /\ ghosts \subseteq Runs
      /\ coord.todo \subseteq Runs /\ coord.run \subseteq Runs
      /\ coord.run = {} \/ \E r \in Runs : coord.run = {r}
      /\ Next
  BY DEF StorageInv, StorageTypes, ProjectionInv, ProjectionTypes, Coordinator, Next
<1>2. ~ Calm' /\ UNCHANGED <<registrar, eventLock, enqueued, quarantine>>
  <2>1. faults' = faults + 1 /\ faults \in Nat
    BY DEF ProjectionFails, EventUnread, RunUnread, DirectoryUnread, HotUnread, EventKept,
       RowsUnread, SyncFails, ApplyFails, Fault, StorageInv, StorageTypes
  <2>2. UNCHANGED <<registrar, eventLock, enqueued, quarantine>>
    BY DEF ProjectionFails, EventUnread, RunUnread, DirectoryUnread, HotUnread, EventKept,
       RowsUnread, SyncFails, ApplyFails, registration
  <2> QED BY <2>1, <2>2 DEF Calm
<1>3. ASSUME UNCHANGED <<readModel, projected, inbox>>, ghosts' \subseteq Runs,
             coord' \in Coordinator, coord'.at \notin {"unlink", "read"},
             coord'.run = {} \/ \E r \in Runs : coord'.run = {r}
      PROVE  ProjectionInv'
  BY <1>1, <1>2, <1>3, CoordinatorSteps
<1>4. CASE EventUnread
  <2>1. PICK r \in coord.todo :
          coord' = [coord EXCEPT !.at = "set aside", !.todo = @ \ {r}, !.run = {r}]
    BY <1>4 DEF EventUnread
  <2>2. coord' \in Coordinator /\ coord'.at = "set aside" /\ coord'.run = {r} /\ r \in Runs
    BY <1>1, <2>1 DEF Coordinator, Stands
  <2> QED BY <1>1, <1>3, <1>4, <2>2 DEF EventUnread, NoChange
<1>5. CASE RunUnread \/ EventKept
  <2>1. /\ coord' \in Coordinator /\ coord'.at \in {"set aside", "events"}
        /\ coord'.run = coord.run \/ coord'.run = {}
    BY <1>1, <1>5 DEF RunUnread, EventKept, Coordinator, Stands
  <2>2. UNCHANGED <<readModel, projected, inbox>> /\ ghosts' \subseteq Runs
    BY <1>1, <1>5 DEF RunUnread, EventKept, NoChange
  <2> QED BY <1>1, <1>3, <2>1, <2>2
<1>6. CASE DirectoryUnread
  <2>1. PICK r \in coord.run : coord' = [After(r) EXCEPT !.run = {}, !.place = "none"]
    BY <1>6 DEF DirectoryUnread
  <2>2. After(r) \in Coordinator /\ After(r).at = coord.at
    BY <1>1, <2>1, AfterTypes
  <2>3. coord' \in Coordinator /\ coord'.at \in {"sync", "sync again"} /\ coord'.run = {}
    BY <1>6, <2>1, <2>2 DEF DirectoryUnread, Syncing, Coordinator, Places
  <2>4. UNCHANGED <<readModel, projected, inbox>> /\ ghosts' \subseteq Runs
    BY <1>1, <1>6 DEF DirectoryUnread, NoChange
  <2> QED BY <1>3, <2>3, <2>4
<1>7. CASE HotUnread
  <2>1. PICK r \in coord.todo \cap Hot :
          coord' = [coord EXCEPT !.at = IF @ = "listed" THEN "apply" ELSE "first apply",
                                 !.todo = (@ \cap Hot) \ {r},
                                 !.ghosts = (coord.todo \ Hot) \cup {r}]
    BY <1>7 DEF HotUnread
  <2>2. (coord.todo \cap Hot) \ {r} \subseteq Runs /\ (coord.todo \ Hot) \cup {r} \subseteq Runs
    BY <1>1
  <2>3. /\ coord' \in Coordinator /\ coord'.at \in {"apply", "first apply"}
        /\ coord'.run = coord.run
    BY <1>1, <2>1, <2>2 DEF Coordinator, Stands
  <2> QED BY <1>1, <1>3, <1>7, <2>3 DEF HotUnread, NoChange
<1>8. CASE RowsUnread
  <2>1. coord' \in Coordinator /\ coord'.run = coord.run /\ coord'.at \in {"sync", "sync again"}
    BY <1>1, <1>8, Blank DEF RowsUnread, ReadingRows, Coordinator, Stands
  <2> QED BY <1>1, <1>3, <1>8, <2>1 DEF RowsUnread, NoChange
<1>9. CASE SyncFails
  <2>1. Syncing /\ ghosts' = ghosts
    BY <1>9 DEF SyncFails
  <2>2. PICK r \in Runs :
          /\ \/ NoChange /\ UNCHANGED inbox
             \/ /\ Row(r, [HotRow EXCEPT !.carrier = State(coord.rows[r])])
                /\ inbox' \in {inbox, inbox \ {r}}
          /\ \/ coord' = [coord EXCEPT !.todo = {}, !.rows = NoRows] /\ coord.run = {}
             \/ coord' = [After(r) EXCEPT !.run = {}, !.place = "none"]
    BY <1>1, <1>9, NextRows DEF SyncFails
  <2>3. [HotRow EXCEPT !.carrier = State(coord.rows[r])] \in ShownRow
    <3>1. coord.rows[r] \in Places
      BY <1>1 DEF Coordinator, Tables
    <3> QED BY <3>1 DEF HotRow, State, ShownRow, Places, Trashed
  <2>4. /\ readModel' \in [Runs -> ShownRow] /\ projected' \subseteq Runs
        /\ projected \subseteq projected' /\ inbox' \subseteq inbox
        /\ inbox \ inbox' \subseteq projected'
    BY <1>1, <2>2, <2>3, RowTypes DEF NoChange
  <2>5. coord' \in Coordinator /\ coord'.run = {} /\ coord'.at = coord.at
    <3>1. After(r) \in Coordinator /\ After(r).at = coord.at
      BY <1>1, AfterTypes
    <3>2. CASE coord' = [coord EXCEPT !.todo = {}, !.rows = NoRows] /\ coord.run = {}
      BY <1>1, <3>2, Blank DEF Coordinator
    <3>3. CASE coord' = [After(r) EXCEPT !.run = {}, !.place = "none"]
      BY <3>1, <3>3 DEF Coordinator, Places
    <3> QED BY <2>2, <3>2, <3>3
  <2> QED BY <1>1, <1>2, <2>1, <2>4, <2>5, CoordinatorSteps DEF Syncing
<1>10. CASE ApplyFails
  <2>1. coord' \in Coordinator /\ coord'.at = "rows again" /\ coord'.run = {}
    BY <1>10, IdleTypes DEF ApplyFails, Coordinator, Stands
  <2> QED BY <1>1, <1>3, <1>10, <2>1 DEF ApplyFails, NoChange
<1> QED BY <1>4, <1>5, <1>6, <1>7, <1>8, <1>9, <1>10 DEF ProjectionFails

LEMMA CoordinateKeeps ==
  ASSUME StorageInv, ProjectionInv, Coordinate \/ ProjectionFails \/ ServerKilled \/ ServerStarts
  PROVE  ProjectionInv'
<1>1. /\ ProjectionTypes /\ coord \in Coordinator /\ carrier \in Tables /\ catalog.rows \in Tables
      /\ readModel \in [Runs -> ShownRow] /\ inbox \subseteq Runs /\ projected \subseteq Runs
      /\ quarantine \subseteq Runs /\ ghosts \subseteq Runs
      /\ coord.todo \subseteq Runs /\ coord.run \subseteq Runs /\ coord.ghosts \subseteq Runs
      /\ coord.run = {} \/ \E r \in Runs : coord.run = {r}
      /\ Next
  BY DEF StorageInv, StorageTypes, ProjectionInv, ProjectionTypes, Coordinator, Next
<1>2. CASE StartPass
  <2>1. /\ coord' \in Coordinator /\ coord'.run = coord.run /\ coord'.at = "events"
        /\ UNCHANGED <<readModel, projected, registrar, eventLock, enqueued, inbox,
                  quarantine, ghosts>>
    BY <1>1, <1>2 DEF StartPass, NoChange, registration, Coordinator, Stands
  <2> QED BY <1>1, <2>1, CoordinatorSteps
<1>3. CASE FindEvent
  <2>1. UNCHANGED <<readModel, projected, registrar, eventLock, enqueued, inbox,
                  quarantine, ghosts>>
    BY <1>3 DEF FindEvent, NoChange, registration
  <2>2. PICK r \in coord.todo :
          coord' = IF r \in Hot THEN [coord EXCEPT !.at = "read", !.todo = @ \ {r}, !.run = {r}]
                   ELSE [coord EXCEPT !.todo = @ \ {r}]
    BY <1>3 DEF FindEvent
  <2>3. r \in Runs /\ coord.at = "events"
    BY <1>1, <1>3 DEF FindEvent
  <2>4. CASE r \in Hot
    <3>1. coord' \in Coordinator /\ coord'.run = {r} /\ coord'.at = "read"
      BY <1>1, <2>2, <2>3, <2>4 DEF Coordinator, Stands
    <3> QED BY <1>1, <2>1, <2>3, <2>4, <3>1, CoordinatorSteps
  <2>5. CASE r \notin Hot
    <3>1. coord' \in Coordinator /\ coord'.run = coord.run /\ coord'.at = "events"
      BY <1>1, <2>2, <2>3, <2>5 DEF Coordinator
    <3> QED BY <1>1, <2>1, <3>1, CoordinatorSteps
  <2> QED BY <2>4, <2>5
<1>4. CASE ProjectEvent
  <2>1. UNCHANGED <<registrar, eventLock, enqueued, inbox, quarantine>> /\ coord.at = "read"
    BY <1>4 DEF ProjectEvent, registration
  <2>2. PICK r \in coord.run :
          /\ ghosts' = ghosts \cup Ghost(r, "hot")
          /\ IF r \in Hot THEN Row(r, HotRow) ELSE NoChange
          /\ coord' = [coord EXCEPT !.at = IF r \in Hot THEN "unlink" ELSE "set aside"]
    BY <1>4 DEF ProjectEvent
  <2>3. r \in Runs /\ coord.run = {r} /\ ghosts' \subseteq Runs
    BY <1>1, <2>2 DEF Ghost
  <2>4. CASE r \in Hot
    <3>1. coord' \in Coordinator /\ coord'.run = {r} /\ coord'.at = "unlink"
      BY <1>1, <2>2, <2>3, <2>4 DEF Coordinator, Stands
    <3>2. /\ readModel' \in [Runs -> ShownRow] /\ projected' \subseteq Runs
          /\ projected' = projected \cup {r}
      BY <1>1, <2>2, <2>3, <2>4, RowTypes, IdleTypes
    <3> QED BY <1>1, <2>1, <2>3, <3>1, <3>2, CoordinatorSteps
  <2>5. CASE r \notin Hot
    <3>1. coord' \in Coordinator /\ coord'.run = {r} /\ coord'.at = "set aside"
      BY <1>1, <2>2, <2>3, <2>5 DEF Coordinator, Stands
    <3>2. UNCHANGED <<readModel, projected>>
      BY <2>2, <2>5 DEF NoChange
    <3>3. ~ Calm
      BY <2>1, <2>3, <2>5 DEF ProjectionInv, EventInv
    <3> QED BY <1>1, <2>1, <2>3, <3>1, <3>2, <3>3, CoordinatorSteps
  <2> QED BY <2>4, <2>5
<1>5. CASE UnlinkEvent
  <2>1. /\ UNCHANGED <<readModel, projected, registrar, eventLock, enqueued, ghosts>>
        /\ inbox' = inbox \ coord.run /\ coord.at \in {"unlink", "set aside"}
        /\ quarantine' = IF coord.at = "unlink" THEN quarantine ELSE quarantine \cup coord.run
    BY <1>5 DEF UnlinkEvent, NoChange, registration
  <2>2. coord' \in Coordinator /\ coord'.run = {} /\ coord'.at = "events"
    BY <1>1, <1>5 DEF UnlinkEvent, Coordinator, Stands
  <2>3. /\ coord.at = "unlink" => coord.run \subseteq projected
        /\ coord.at = "set aside" => ~ Calm
    BY DEF ProjectionInv, EventInv
  <2> QED BY <1>1, <2>1, <2>2, <2>3, CoordinatorSteps
<1>6. CASE ReadRows \/ RowsBuilt
  <2>1. UNCHANGED <<readModel, projected, registrar, eventLock, enqueued, inbox,
                  quarantine, ghosts>>
    BY <1>6 DEF ReadRows, RowsBuilt, NoChange, registration
  <2>2. ASSUME NEW rows \in Tables, ReadingRows(rows)
        PROVE  /\ coord' \in Coordinator /\ coord'.run = coord.run
               /\ coord'.at \in {"sync", "sync again"}
    BY <1>1, <2>2 DEF ReadingRows, Coordinator, Stands
  <2>3. \/ \E rows \in Tables : ReadingRows(rows)
        \/ coord' = [coord EXCEPT !.at = IF Second THEN "building again" ELSE "building"]
        \/ coord' = coord
    BY <1>1, <1>6, Blank DEF ReadRows, RowsBuilt
  <2>4. coord' = [coord EXCEPT !.at = IF Second THEN "building again" ELSE "building"] =>
          /\ coord' \in Coordinator /\ coord'.run = coord.run
          /\ coord'.at \in {"building", "building again"}
    BY <1>1 DEF Coordinator, Stands
  <2>5. /\ coord' \in Coordinator /\ coord'.run = coord.run
        /\ coord' = coord \/ coord'.at \in {"building", "building again", "sync", "sync again"}
    BY <1>1, <2>2, <2>3, <2>4
  <2>6. coord'.at = "unlink" => coord'.run \subseteq projected
    BY <2>5 DEF ProjectionInv, EventInv
  <2> QED BY <1>1, <2>1, <2>5, <2>6, CoordinatorSteps
<1>7. CASE SyncRow \/ MarkProjected
  <2>1. UNCHANGED <<registrar, eventLock, enqueued, quarantine, ghosts>> /\ Syncing
    BY <1>7 DEF SyncRow, MarkProjected, Aside, registration
  <2>2. PICK r \in Runs :
          /\ \/ Mark(r)
             \/ NoChange /\ UNCHANGED inbox
             \/ Row(r, ArchivedRow) /\ Acknowledge(r)
          /\ \/ coord' = After(r)
             \/ coord' = [coord EXCEPT !.run = {r}, !.place = carrier[r]]
             \/ coord' = [After(r) EXCEPT !.run = {}]
    BY <1>1, <1>7, NextRows DEF SyncRow, MarkProjected
  <2>3. /\ readModel' \in [Runs -> ShownRow] /\ projected' \subseteq Runs
        /\ projected \subseteq projected' /\ inbox' \subseteq inbox
        /\ inbox \ inbox' \subseteq projected'
    BY <1>1, <2>2, MarkTypes, RowTypes, IdleTypes DEF NoChange, Acknowledge
  <2>4. /\ coord' \in Coordinator /\ coord'.at = coord.at
        /\ coord'.run = {} \/ coord'.run = coord.run \/ coord'.run = {r}
    <3>1. /\ After(r) \in Coordinator /\ After(r).at = coord.at /\ After(r).run = coord.run
          /\ carrier[r] \in Places
      BY <1>1, AfterTypes DEF Tables
    <3>2. CASE coord' = After(r)
      BY <3>1, <3>2
    <3>3. CASE coord' = [coord EXCEPT !.run = {r}, !.place = carrier[r]]
      BY <1>1, <3>1, <3>3 DEF Coordinator
    <3>4. CASE coord' = [After(r) EXCEPT !.run = {}]
      BY <1>1, <3>1, <3>4 DEF Coordinator
    <3> QED BY <2>2, <3>2, <3>3, <3>4
  <2>5. coord'.at \in {"sync", "sync again"}
    BY <2>1, <2>4 DEF Syncing
  <2> QED BY <1>1, <2>1, <2>3, <2>4, <2>5, CoordinatorSteps
<1>8. CASE ProjectDirectory
  <2>1. UNCHANGED <<registrar, eventLock, enqueued, quarantine, inbox>> /\ Syncing
    BY <1>8 DEF ProjectDirectory, Aside, registration
  <2>2. PICK r \in coord.run :
          /\ ghosts' = ghosts \cup Ghost(r, coord.place)
          /\ IF carrier[r] = coord.place
             THEN Row(r, HotRow) /\ coord' = [coord EXCEPT !.place = "none"]
             ELSE NoChange /\ coord' = [After(r) EXCEPT !.run = {}, !.place = "none"]
    BY <1>8 DEF ProjectDirectory
  <2>3. r \in Runs /\ ghosts' \subseteq Runs
    BY <1>1, <2>2 DEF Ghost
  <2>4. /\ readModel' \in [Runs -> ShownRow] /\ projected' \subseteq Runs
        /\ projected \subseteq projected'
    BY <1>1, <2>2, <2>3, RowTypes, IdleTypes DEF NoChange
  <2>5. /\ coord' \in Coordinator /\ coord'.at = coord.at
        /\ coord'.run = {} \/ coord'.run = coord.run
    <3>1. After(r) \in Coordinator /\ After(r).at = coord.at
      BY <1>1, <2>3, AfterTypes
    <3>2. CASE coord' = [coord EXCEPT !.place = "none"]
      BY <1>1, <3>2 DEF Coordinator, Places
    <3>3. CASE coord' = [After(r) EXCEPT !.run = {}, !.place = "none"]
      BY <1>1, <3>1, <3>3 DEF Coordinator, Places
    <3> QED BY <2>2, <3>2, <3>3
  <2>6. coord'.at \in {"sync", "sync again"}
    BY <2>1, <2>5 DEF Syncing
  <2> QED BY <1>1, <2>1, <2>3, <2>4, <2>5, <2>6, CoordinatorSteps
<1>9. CASE ScanHot \/ ReadHot
  <2>1. UNCHANGED <<readModel, projected, registrar, eventLock, enqueued, inbox,
                  quarantine, ghosts>>
    BY <1>9 DEF ScanHot, ReadHot, NoChange, registration
  <2>2. Hot \subseteq Runs
    BY DEF Hot
  <2>3. /\ coord' \in Coordinator /\ coord'.run = coord.run
        /\ coord'.at \in {"listed", "first listed", "apply", "first apply"}
    <3>1. CASE ScanHot
      <4>1. coord' = [coord EXCEPT !.at = IF @ = "sync" THEN "listed" ELSE "first listed",
                                   !.todo = Hot]
        BY <3>1 DEF ScanHot
      <4> QED BY <1>1, <2>2, <4>1 DEF Coordinator, Stands
    <3>2. CASE ReadHot
      <4>1. coord' = [coord EXCEPT !.at = IF @ = "listed" THEN "apply" ELSE "first apply",
                                   !.todo = @ \cap Hot, !.ghosts = coord.todo \ Hot]
        BY <3>2 DEF ReadHot
      <4>2. coord.todo \cap Hot \subseteq Runs /\ coord.todo \ Hot \subseteq Runs
        BY <1>1
      <4> QED BY <1>1, <4>1, <4>2 DEF Coordinator, Stands
    <3> QED BY <1>9, <3>1, <3>2
  <2> QED BY <1>1, <2>1, <2>3, CoordinatorSteps
<1>10. CASE ApplyScan
  <2>1. UNCHANGED <<registrar, eventLock, enqueued, inbox, quarantine>>
    BY <1>10 DEF ApplyScan, registration
  <2>2. coord' \in Coordinator /\ coord'.run = {} /\ coord'.at \in {"rows again", "sync again"}
    BY <1>10, IdleTypes DEF ApplyScan, Coordinator, Stands
  <2>3. \A r \in Runs : Reconciled(r, coord.todo) \in ShownRow
    BY <1>1 DEF Reconciled, ShownRow
  <2>4. /\ readModel' \in [Runs -> ShownRow] /\ projected' \subseteq Runs
        /\ projected \subseteq projected' /\ ghosts' \subseteq Runs
    <3>1. \/ readModel' = readModel /\ projected' = projected /\ ghosts' = ghosts
          \/ /\ readModel' = [r \in Runs |-> Reconciled(r, coord.todo)]
             /\ projected' = projected \cup coord.todo /\ ghosts' = coord.ghosts
      BY <1>10 DEF ApplyScan, NoChange
    <3>2. [r \in Runs |-> Reconciled(r, coord.todo)] \in [Runs -> ShownRow]
      BY <2>3
    <3> QED BY <1>1, <3>1, <3>2
  <2> QED BY <1>1, <2>1, <2>2, <2>4, CoordinatorSteps
<1>11. CASE ProjectionFails
  BY <1>11, FailureKeeps
<1>12. CASE ServerKilled
  <2>1. /\ UNCHANGED <<readModel, projected, registrar, eventLock, enqueued, inbox,
                  quarantine, ghosts>>
        /\ coord' = Down
    BY <1>12 DEF ServerKilled, NoChange, registration
  <2>2. coord' \in Coordinator /\ coord'.run = {} /\ coord'.at = "down"
    BY <2>1, IdleTypes
  <2> QED BY <1>1, <2>1, <2>2, CoordinatorSteps
<1>13. CASE ServerStarts
  <2>1. UNCHANGED <<projected, registrar, eventLock, enqueued, inbox, quarantine>>
    BY <1>13 DEF ServerStarts, registration
  <2>2. coord' \in Coordinator /\ coord'.run = {} /\ coord'.at = "first scan"
    BY <1>13, IdleTypes DEF ServerStarts, Coordinator, Stands
  <2>3. readModel' \in [Runs -> ShownRow] /\ ghosts' \subseteq Runs
    BY <1>1, <1>13, IdleTypes DEF ServerStarts
  <2> QED BY <1>1, <2>1, <2>2, <2>3, CoordinatorSteps
<1> QED BY <1>2, <1>3, <1>4, <1>5, <1>6, <1>7, <1>8, <1>9, <1>10, <1>11, <1>12, <1>13 DEF Coordinate

-----------------------------------------------------------------------------
LEMMA ProjectionStarts ==
  ASSUME Init
  PROVE  ProjectionInv
<1>1. coord \in Coordinator /\ coord.run = {} /\ coord.at = "first scan"
  BY IdleTypes DEF Init, Coordinator, Stands
<1>2. ProjectionTypes
  BY <1>1, IdleTypes DEF Init, ProjectionTypes, Phases
<1>3. HolderInv /\ EventInv /\ EnqueuedIsKnown
  BY <1>1 DEF Init, HolderInv, EventInv, EnqueuedIsKnown
<1> QED BY <1>2, <1>3 DEF ProjectionInv

LEMMA Always == Spec => []Inv
<1>1. Init => Inv
  BY ProjectionStarts, StorageStarts DEF Init, Inv
<1>2. Inv /\ [Next]_vars => Inv'
  <2> SUFFICES ASSUME Inv, [Next]_vars PROVE Inv'
    OBVIOUS
  <2>1. StorageInv'
    BY StepsOfStorage, StorageKeeps, StorageStutters DEF Inv, vars
  <2>2. ProjectionInv'
    BY RegisterKeeps, ServeKeeps, CoordinateKeeps DEF Inv, Next
  <2> QED BY <2>1, <2>2 DEF Inv
<1> QED BY <1>1, <1>2, PTL DEF Spec

(* Every variable keeps its type, a job holds the lock file exactly while it says so, and  *)
(* a registrar that writes or verifies its event holds the lock of that event.             *)
THEOREM TypesKept == Spec => []TypeOK
<1>1. Inv => TypeOK
  <2> SUFFICES ASSUME Inv PROVE TypeOK
    OBVIOUS
  <2>1. StorageTypeOK
    BY DEF Inv, StorageInv, StorageTypes, JobInv, InLock, StorageTypeOK, Tables
  <2>2. Cardinality(coord.run) <= 1
    <3>1. CASE coord.run = {}
      BY <3>1, FS_EmptySet
    <3>2. ASSUME NEW r \in Runs, coord.run = {r} PROVE Cardinality(coord.run) <= 1
      <4>1. Cardinality({r}) = 1
        BY FS_Singleton
      <4> QED BY <3>2, <4>1
    <3> QED BY <3>1, <3>2 DEF Inv, ProjectionInv, ProjectionTypes
  <2>3. coord.todo \subseteq Runs
    BY DEF Inv, ProjectionInv, ProjectionTypes, Coordinator
  <2> QED BY <2>1, <2>2, <2>3 DEF TypeOK, Inv, ProjectionInv, ProjectionTypes, HolderInv, ShownRow
<1> QED BY <1>1, Always, PTL

(* An event a registrar was told of waits in the inbox until the read model has known its  *)
(* run, or was set aside, which takes a run that was moved or a failure (registrar.py      *)
(* enqueue_published_run, coordinator.py _consume_inbox and _acknowledge_inbox_identity).  *)
THEOREM EventsKept == Spec => []EnqueuedIsKnown
<1>1. Inv => EnqueuedIsKnown
  BY DEF Inv, ProjectionInv
<1> QED BY <1>1, Always, PTL

=============================================================================
