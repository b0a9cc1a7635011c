------------------------- MODULE ConfigurationStore -------------------------
(***************************************************************************)
(* The platform configuration of one device: src/sqvm/web/configuration.py *)
(* with its schema, its candidates and the reference scan of the storage.  *)
(*                                                                         *)
(* The current configuration, the snapshots, the active pointer, the pins  *)
(* and the audit of applied candidates change together, in one transaction *)
(* of module ConfigTransaction: here such a transaction is one step on     *)
(* `store`.  Drafts live outside the transactions, in directories that     *)
(* editors change file by file and that a kill may leave half written; the *)
(* publication of a draft copies these files while it holds the device.    *)
(*                                                                         *)
(* A calibration record is published with a revision and the run it comes  *)
(* from: the run whose candidate proposed its value, or manual.  An        *)
(* editable record holds a value and the published record it is based on.  *)
(* Of the control section only counts whether it differs from the one of   *)
(* the parent, for then a snapshot is not eligible: the current            *)
(* configuration never does, as each of its saves names a parent with the  *)
(* same control section; a draft may.                                      *)
(***************************************************************************)
EXTENDS Integers, FiniteSets, FiniteSetsExt

CONSTANTS
    Records,       \* calibration records: reference frequencies, settings, mappers
    Values,        \* values of a record
    Template,      \* the value of every record in the initial calibration
    Runs,          \* calibration runs whose candidates may be applied
    Proposal,      \* run -> its candidates: a set of [record, from, to]
    Manual,        \* the run named by a record no candidate proposed
    Drafts,        \* draft identities, each used once
    Editors,       \* processes that work on drafts
    Free,          \* holder of the device lock when nobody has it
    UnderOutput,   \* may the store be under <repository>/output: a subset of BOOLEAN
    Uncalibrated,  \* the empty calibration
    MaxAutomatic,  \* snapshots kept although nothing needs them (10 in the code)
    MaxCheckpoints, \* checkpoints kept of a draft (20 in the code)
    MaxSnapshots,  \* bound on the snapshots made
    MaxEdits,      \* bound on the checkpoints made of a draft
    MaxKills       \* bound on the kills of an editor

Candidates == [record: Records, from: Values, to: Values]

(* Published and editable records. *)
Published == [value: Values, revision: Nat, run: Runs \cup {Manual}]
Editable == [value: Values, base: Published]

ASSUME StoreAssumption ==
    /\ Template \in Values /\ Manual \notin Runs /\ Free \notin Editors \cup Runs
    /\ Uncalibrated \notin [Records -> Editable] \cup [Records -> Published]
    /\ Proposal \in [Runs -> SUBSET Candidates]
    /\ \A r \in Runs : \A c, d \in Proposal[r] : c.record = d.record => c = d
    /\ UnderOutput \subseteq BOOLEAN /\ UnderOutput # {}
    /\ {MaxAutomatic, MaxSnapshots, MaxEdits, MaxKills} \subseteq Nat
    /\ MaxAutomatic # 0 /\ MaxCheckpoints \in Nat \ {0, 1}

VARIABLES
    underOutput,  \* is the store under <repository>/output
    store,        \* what the transactions of the device change
    issued,       \* snapshots made so far; the last one has this number
    draft,        \* draft -> its directory
    pc, work,     \* editor -> where it is, and what it loaded
    device,       \* the editor that holds the device lock while it copies a draft
    overlapped,   \* history: drafts two editors wrote at once, or one left half written
    kills

vars == <<underOutput, store, issued, draft, pc, work, device, overlapped, kills>>

-----------------------------------------------------------------------------
(* A record of the template, and what is retained of applied candidates.   *)
NoRecord == [value |-> Template, revision |-> 0, run |-> Manual]

(* What is retained of the candidates that were applied: the run and the records whose   *)
(* candidate values still stand.  Absent: the key is missing (a current that was made     *)
(* from older files) or no file was written; Emptied: the file holds {}.                  *)
NoSource == [run |-> Manual, of |-> {}]
Absent == [run |-> Manual, of |-> Records]
Emptied == [run |-> Free, of |-> {}]
Sources == {NoSource, Absent, Emptied} \cup [run: Runs, of: SUBSET Records]

(* draftify_calibration *)
Draftified(cal) ==
    IF cal = Uncalibrated THEN Uncalibrated
    ELSE [x \in Records |-> [value |-> cal[x].value, base |-> cal[x]]]

(* initial_typed_calibration *)
InitialCalibration == [x \in Records |-> [value |-> Template, base |-> NoRecord]]

(* What an editor may make of a calibration in one request: another value of one record. *)
Edited(cal) ==
    {[cal EXCEPT ![x].value = v] : x \in {x \in Records : cal # Uncalibrated}, v \in Values}

(* _candidate_run_bindings *)
RunOf(source, x) == IF source.run \in Runs /\ x \in source.of THEN source.run ELSE Manual

(* publish_calibration over the calibration of a snapshot: a record that did not change  *)
(* keeps its identity.                                                                    *)
PublishCalibration(cal, base, source) ==
    IF cal = Uncalibrated THEN Uncalibrated
    ELSE [x \in Records |->
            IF base # Uncalibrated /\ base[x].value = cal[x].value THEN base[x]
            ELSE [value |-> cal[x].value, revision |-> cal[x].base.revision + 1,
                  run |-> RunOf(source, x)]]

(* publish_calibration over the first checkpoint of a draft, whose records are editable: *)
(* none of them counts as unchanged.                                                      *)
PublishDraftCalibration(cal, source) == PublishCalibration(cal, Uncalibrated, source)

(* Bug: a candidate is kept without looking at the value. *)
RetainedUnchecked(source, cal) ==
    IF source.run \notin Runs THEN NoSource ELSE source

(* _retained_candidate_source *)
Retained(source, cal) ==
    LET of == {c.record : c \in {c \in Proposal[source.run] :
                    c.record \in source.of /\ cal # Uncalibrated /\ cal[c.record].value = c.to}}
    IN  IF source.run \notin Runs \/ of = {} THEN NoSource ELSE [run |-> source.run, of |-> of]

(* _apply_candidate_groups: every selected candidate must still find the value it was    *)
(* computed against.                                                                      *)
Fresh(selected, cal) ==
    /\ selected # {} /\ cal # Uncalibrated
    /\ \A c \in selected : cal[c.record].value = c.from

WithCandidates(cal, selected) ==
    [x \in Records |->
        IF \E c \in selected : c.record = x
        THEN [cal[x] EXCEPT !.value = (CHOOSE c \in selected : c.record = x).to]
        ELSE cal[x]]

CandidateSource(r, selected) == [run |-> r, of |-> {c.record : c \in selected}]

-----------------------------------------------------------------------------
(* The store of a transaction and the operations inside it.                *)
NoCurrent == [made |-> FALSE, cal |-> Uncalibrated, base |-> 0, source |-> Absent,
              first |-> TRUE]
EmptyStore == [current |-> NoCurrent, snapshots |-> <<>>, active |-> 0, pins |-> {},
               applied |-> {}]

Existing(st) == DOMAIN st.snapshots

(* Bugs: the search forgets the current configuration, or the parents of snapshots. *)
ReferencedNotByCurrent(st, s) ==
    underOutput \/ \E t \in Existing(st) \ {s} : st.snapshots[t].parent = s

ReferencedNotByChildren(st, s) ==
    underOutput \/ st.current.base = s

(* _snapshot_referenced: some other file of the workspace names the snapshot, or a file    *)
(* under output: there the flat audit and the bundles name every snapshot ever made.      *)
Referenced(st, s) ==
    \/ underOutput
    \/ st.current.base = s
    \/ \E t \in Existing(st) \ {s} : st.snapshots[t].parent = s

Removed(st, gone) ==
    [st EXCEPT !.snapshots = [s \in Existing(st) \ gone |-> st.snapshots[s]]]

(* _prune_automatic_snapshots; `copied` is the parent of the draft in the workspace. *)
Pruned(st, copied) ==
    LET automatic == Existing(st) \ (st.pins \cup {st.active})
        unneeded == {s \in automatic : s # copied /\ ~ Referenced(st, s)}
        newer(s) == {t \in unneeded : t > s}
    IN  IF Cardinality(automatic) <= MaxAutomatic THEN st
        ELSE Removed(st, {s \in unneeded : Cardinality(newer(s)) >= MaxAutomatic})

Added(st, n, snapshot) ==
    [st EXCEPT !.snapshots = [s \in Existing(st) \cup {n} |->
                                IF s = n THEN snapshot ELSE st.snapshots[s]]]

(* snapshot_current_configuration, also called by every operation that saves the current  *)
(* one and makes it active.                                                               *)
Snapshotted(st, n, keep, activate) ==
    LET cur == st.current
        base == IF cur.base = 0 THEN Uncalibrated ELSE st.snapshots[cur.base].cal
        cal == PublishCalibration(cur.cal, base, cur.source)
        snapshot == [cal |-> cal, parent |-> cur.base, eligible |-> TRUE,
                     source |-> IF cur.source = Absent THEN NoSource ELSE cur.source]
        made == Added(st, n, snapshot)
    IN  Pruned([made EXCEPT
            !.pins = IF keep THEN @ \cup {n} ELSE @,
            !.current = [cur EXCEPT !.cal = Draftified(cal), !.base = n,
                                    !.first = @ /\ activate],
            !.active = IF activate THEN n ELSE @], 0)

(* _ensure_current_configuration: from the active snapshot or the newest one. *)
CurrentOf(st) ==
    LET n == IF st.active # 0 THEN st.active ELSE Max(Existing(st))
    IN  [made |-> TRUE, cal |-> Draftified(st.snapshots[n].cal), base |-> n,
         source |-> Absent, first |-> TRUE]

-----------------------------------------------------------------------------
(* The directory of a draft.                                               *)
NoPayload == [cal |-> Uncalibrated, requalify |-> FALSE, number |-> 0, valid |-> FALSE,
              parent |-> 0]
NoDirectory == [made |-> FALSE, written |-> FALSE, payload |-> NoPayload, source |-> Absent,
                checkpoints |-> {}, used |-> FALSE]
NoWork == [of |-> CHOOSE d \in Drafts : TRUE, kind |-> "none", payload |-> NoPayload,
           source |-> Absent, checkpoints |-> {}]

Legacy ==  \* the flat files of an earlier version: one eligible snapshot, active
    LET cal == PublishCalibration(InitialCalibration, Uncalibrated, NoSource)
        st == Added([EmptyStore EXCEPT !.active = 1], 1,
                    [cal |-> cal, parent |-> 0, source |-> NoSource, eligible |-> TRUE])
    IN  [st EXCEPT !.current = CurrentOf(st)]

Init ==
    /\ underOutput \in UnderOutput
    /\ \/ store = EmptyStore /\ issued = 0
       \/ store = Legacy /\ issued = 1
    /\ draft = [d \in Drafts |-> NoDirectory]
    /\ pc = [e \in Editors |-> "idle"]
    /\ work = [e \in Editors |-> NoWork]
    /\ device = Free /\ overlapped = {} /\ kills = 0

-----------------------------------------------------------------------------
(* Transactions on the current configuration and the snapshots.            *)
outside == <<underOutput, draft, pc, work, device, overlapped, kills>>

(* The device is not locked and has a current configuration. *)
Open == device = Free /\ store.current.made

(* An operation that makes a snapshot of the changed current configuration. *)
Saves(cur, keep, activate) ==
    /\ issued < MaxSnapshots
    /\ issued' = issued + 1
    /\ store' = Snapshotted([store EXCEPT !.current = cur], issued + 1, keep, activate)
    /\ UNCHANGED outside

(* _ensure_transaction_device before the first import: without a snapshot the current     *)
(* configuration is made from the newest draft.                                           *)
Import(d) ==
    /\ device = Free /\ ~ store.current.made /\ draft[d].written
    /\ store' = [store EXCEPT !.current = [NoCurrent EXCEPT !.made = TRUE,
                                                            !.cal = draft[d].payload.cal]]
    /\ UNCHANGED <<issued, outside>>

(* update_current_configuration *)
UpdateCurrent ==
    /\ Open
    /\ \E cal \in Edited(store.current.cal) \cup {store.current.cal} :
         Saves([store.current EXCEPT !.cal = cal, !.first = FALSE,
                                     !.source = Retained(@, cal)], FALSE, TRUE)

(* initialize_current_calibration *)
InitializeCurrent ==
    /\ Open /\ store.current.cal = Uncalibrated
    /\ Saves([store.current EXCEPT !.cal = InitialCalibration, !.source = NoSource,
                                   !.first = FALSE], FALSE, TRUE)

(* apply_candidates_to_current_configuration: also of a run that is in the trash. *)
ApplyToCurrent(r) ==
    /\ Open /\ issued < MaxSnapshots
    /\ \E selected \in SUBSET Proposal[r] :
         /\ Fresh(selected, store.current.cal)
         /\ LET cur == [store.current EXCEPT
                          !.cal = WithCandidates(@, selected), !.first = FALSE,
                          !.source = CandidateSource(r, selected)]
                st == [store EXCEPT !.current = cur, !.applied = @ \cup {r}]
            IN  store' = Snapshotted(st, issued + 1, FALSE, TRUE)
    /\ issued' = issued + 1
    /\ UNCHANGED outside

(* snapshot_current_configuration, without making the snapshot active. *)
SaveSnapshot ==
    /\ Open
    /\ \E keep \in BOOLEAN : Saves(store.current, keep, FALSE)

(* Bug: a snapshot that is not eligible is restored without a save. *)
ApplySnapshotUnsaved(s) ==
    /\ Open /\ s \in Existing(store)
    /\ store' = [store EXCEPT !.current = [@ EXCEPT !.cal = Draftified(store.snapshots[s].cal),
                                                   !.base = s, !.source = NoSource],
                             !.active = IF store.snapshots[s].eligible THEN s ELSE @]
    /\ UNCHANGED <<issued, outside>>

(* apply_snapshot_to_current: an eligible snapshot becomes active, of another one the     *)
(* current configuration is saved anew.                                                   *)
Restored(s) ==
    [store.current EXCEPT !.cal = Draftified(store.snapshots[s].cal), !.base = s,
                          !.source = NoSource, !.first = FALSE]

ApplySnapshot(s) ==
    /\ Open /\ s \in Existing(store)
    /\ \/ /\ store.snapshots[s].eligible
          /\ store' = [store EXCEPT !.current = Restored(s), !.active = s]
          /\ UNCHANGED <<issued, outside>>
       \/ ~ store.snapshots[s].eligible /\ Saves(Restored(s), FALSE, TRUE)

(* set_active *)
SetActive(s) ==
    /\ Open /\ s \in Existing(store)
    /\ store.snapshots[s].eligible /\ store.snapshots[s].cal # Uncalibrated
    /\ store' = [store EXCEPT !.active = s]
    /\ UNCHANGED <<issued, outside>>

(* set_keep *)
SetKeep(s) ==
    /\ Open /\ s \in Existing(store)
    /\ \E pins \in {store.pins \cup {s}, store.pins \ {s}} :
         store' = [store EXCEPT !.pins = pins]
    /\ UNCHANGED <<issued, outside>>

(* delete_snapshot *)
DeleteSnapshot(s) ==
    /\ Open /\ s \in Existing(store)
    /\ s # store.active /\ s \notin store.pins /\ ~ Referenced(store, s)
    /\ store' = Removed(store, {s})
    /\ UNCHANGED <<issued, outside>>

-----------------------------------------------------------------------------
(* Drafts.  An operation loads the directory and then writes its files one by one.        *)
inside == <<underOutput, store, issued, device>>

Writing == {"create", "update", "apply", "initialize", "validate"}
Writers(d) == {e \in Editors : pc[e] # "idle" /\ work[e].of = d /\ work[e].kind \in Writing}

Goto(e, phase) ==
    /\ pc' = [pc EXCEPT ![e] = phase]
    /\ work' = IF phase = "idle" THEN [work EXCEPT ![e] = NoWork] ELSE work

(* The operation starts with what it makes of the loaded payload. *)
Begin(e, d, kind, payload, source, phase) ==
    /\ pc[e] = "idle"
    /\ pc' = [pc EXCEPT ![e] = phase]
    /\ work' = [work EXCEPT ![e] = [of |-> d, kind |-> kind, payload |-> payload,
                                    source |-> source, checkpoints |-> draft[d].checkpoints]]
    /\ overlapped' = IF kind \in Writing /\ Writers(d) # {} THEN overlapped \cup {d}
                     ELSE overlapped

Revised(payload) == [payload EXCEPT !.number = @ + 1, !.valid = FALSE]

Loadable(d) == draft[d].written

(* create_draft of a snapshot, or of the bootstrap configuration: the directory ... *)
CreateDraft(e, d) ==
    /\ ~ draft[d].used
    /\ \E s \in Existing(store) \cup {0} :
         LET payload == IF s = 0 THEN NoPayload
                        ELSE [NoPayload EXCEPT !.cal = Draftified(store.snapshots[s].cal),
                                               !.parent = s]
         IN  Begin(e, d, "create", payload, Absent, "write")
    /\ draft' = [draft EXCEPT ![d].made = TRUE, ![d].used = TRUE]
    /\ UNCHANGED <<inside, kills>>

(* update_draft: loads and compares. *)
UpdateDraft(e, d) ==
    /\ Loadable(d) /\ draft[d].payload.number < MaxEdits
    /\ \E edited \in {[draft[d].payload EXCEPT !.cal = cal] : cal \in Edited(draft[d].payload.cal)}
                        \cup {[draft[d].payload EXCEPT !.requalify = ~ @]} :
         Begin(e, d, "update", Revised(edited), Absent,
               IF draft[d].source = Absent THEN "write" ELSE "retain")
    /\ UNCHANGED <<inside, draft, kills>>

(* apply_candidates_to_draft: an uncalibrated draft is initialised and the candidates     *)
(* rebased on it.                                                                         *)
ApplyToDraft(e, d, r) ==
    /\ Loadable(d) /\ draft[d].payload.number < MaxEdits
    /\ \E selected \in SUBSET Proposal[r] :
         LET p == draft[d].payload
             cal == IF p.cal = Uncalibrated THEN InitialCalibration ELSE p.cal
         IN  /\ selected # {} /\ (p.cal # Uncalibrated => Fresh(selected, cal))
             /\ Begin(e, d, "apply", Revised([p EXCEPT !.cal = WithCandidates(cal, selected)]),
                      CandidateSource(r, selected), "write")
    /\ UNCHANGED <<inside, draft, kills>>

(* initialize_calibration_draft *)
InitializeDraft(e, d) ==
    /\ Loadable(d) /\ draft[d].payload.number < MaxEdits
    /\ draft[d].payload.cal = Uncalibrated
    /\ Begin(e, d, "initialize", Revised([draft[d].payload EXCEPT !.cal = InitialCalibration]),
             Absent, "write")
    /\ UNCHANGED <<inside, draft, kills>>

(* validate_draft: the loaded payload is written back as it was, with its validation. *)
ValidateDraft(e, d) ==
    /\ Loadable(d)
    /\ Begin(e, d, "validate", [draft[d].payload EXCEPT !.valid = TRUE], Absent, "write")
    /\ UNCHANGED <<inside, draft, kills>>

(* update_draft: what is left of the candidates, before the payload. *)
RetainSource(e) ==
    /\ pc[e] = "retain"
    /\ LET d == work[e].of
           left == Retained(draft[d].source, work[e].payload.cal)
       IN  IF Loadable(d)
           THEN /\ draft' = [draft EXCEPT ![d].source = IF left = NoSource THEN Emptied ELSE left]
                /\ Goto(e, "write")
           ELSE Goto(e, "idle") /\ UNCHANGED draft
    /\ UNCHANGED <<inside, overlapped, kills>>

(* The payload is replaced; only a creation finds no payload before. *)
WritePayload(e) ==
    /\ pc[e] = "write"
    /\ LET d == work[e].of
           kind == work[e].kind
       IN  IF Loadable(d) \/ kind = "create"
           THEN /\ draft' = [draft EXCEPT ![d].payload = work[e].payload, ![d].written = TRUE]
                /\ Goto(e, CASE kind = "apply" -> "source"
                             [] kind = "validate" -> "idle"
                             [] OTHER -> "checkpoint")
           ELSE Goto(e, "idle") /\ UNCHANGED draft
    /\ UNCHANGED <<inside, overlapped, kills>>

(* apply_candidates_to_draft: the source of the candidates, after the payload. *)
WriteSource(e) ==
    /\ pc[e] = "source"
    /\ LET d == work[e].of IN
         IF Loadable(d)
         THEN draft' = [draft EXCEPT ![d].source = work[e].source] /\ Goto(e, "checkpoint")
         ELSE Goto(e, "idle") /\ UNCHANGED draft
    /\ UNCHANGED <<inside, overlapped, kills>>

(* The first checkpoint and the last ones. *)
Trimmed(numbers) ==
    LET later(n) == {m \in numbers : m > n}
    IN  {n \in numbers : n = Min(numbers) \/ Cardinality(later(n)) < MaxCheckpoints - 1}

(* _write_checkpoint *)
WriteCheckpoint(e) ==
    /\ pc[e] = "checkpoint"
    /\ LET d == work[e].of IN
         IF Loadable(d)
         THEN draft' = [draft EXCEPT ![d].checkpoints =
                            Trimmed(@ \cup {work[e].payload.number})]
         ELSE UNCHANGED draft
    /\ Goto(e, "idle")
    /\ UNCHANGED <<inside, overlapped, kills>>

(* delete_draft: an inventory of the files ... *)
DeleteDraft(e, d) ==
    /\ Loadable(d)
    /\ Begin(e, d, "delete", draft[d].payload, draft[d].source, "drop checkpoints")
    /\ UNCHANGED <<inside, draft, kills>>

(* A file of the inventory is still the same one.  Identity is read as content, to which  *)
(* the number of the payload belongs.                                                     *)
SamePayload(e) ==
    draft[work[e].of].written /\ draft[work[e].of].payload = work[e].payload
SameSource(e) == work[e].source \in {Absent, draft[work[e].of].source}
SameCheckpoints(e) == work[e].checkpoints \subseteq draft[work[e].of].checkpoints

(* ... then the files are unlinked one after the other, each unless it changed. *)
Unlink(e, phase, same, directory, next) ==
    /\ pc[e] = phase
    /\ \/ same /\ Goto(e, next) /\ draft' = [draft EXCEPT ![work[e].of] = directory]
       \/ ~ same /\ Goto(e, "idle") /\ UNCHANGED draft
    /\ UNCHANGED <<inside, overlapped, kills>>

Delete(e) ==
    LET d == draft[work[e].of] IN
    \/ Unlink(e, "drop checkpoints", SameCheckpoints(e),
              [d EXCEPT !.checkpoints = @ \ work[e].checkpoints], "drop source")
    \/ Unlink(e, "drop source", SameSource(e),
              [d EXCEPT !.source = IF work[e].source = Absent THEN @ ELSE Absent], "drop payload")
    \/ Unlink(e, "drop payload", SamePayload(e),
              [d EXCEPT !.written = FALSE, !.payload = NoPayload], "drop directory")
    \/ Unlink(e, "drop directory", d.checkpoints = {} /\ d.source = Absent /\ ~ d.written,
              [d EXCEPT !.made = FALSE], "idle")

-----------------------------------------------------------------------------
(* publish_draft: the files are copied into the workspace of a transaction, in the order  *)
(* of their names, each unless it changed since the inventory.                            *)
StartPublication(e, d) ==
    /\ Open /\ Loadable(d)
    /\ device' = e
    /\ Begin(e, d, "publish", draft[d].payload, draft[d].source, "copy payload")
    /\ UNCHANGED <<underOutput, store, issued, draft, kills>>

Copy(e, phase, same, next) ==
    /\ pc[e] = phase
    /\ \/ same /\ Goto(e, next) /\ UNCHANGED device
       \/ ~ same /\ Goto(e, "idle") /\ device' = Free
    /\ UNCHANGED <<underOutput, store, issued, draft, overlapped, kills>>

CopyDraft(e) ==
    \/ Copy(e, "copy payload", SameCheckpoints(e) /\ SamePayload(e), "copy source")
    \/ Copy(e, "copy source", SameSource(e), "commit")

(* Validated as it is, and not the empty configuration it was made from. *)
Publishable(e) ==
    LET p == work[e].payload
    IN  /\ p.valid /\ 0 \in work[e].checkpoints
        /\ p.cal # Uncalibrated \/ p.requalify

(* The snapshot of the copy; a current configuration that was never saved and has no      *)
(* snapshot is made anew from it.                                                         *)
WithDraft(e, n, keep) ==
    LET p == work[e].payload
        source == IF work[e].source.run \in Runs THEN work[e].source ELSE NoSource
        made == Added(store, n, [parent |-> p.parent, source |-> source,
                                 cal |-> PublishDraftCalibration(p.cal, source),
                                 eligible |-> ~ p.requalify])
        kept == Pruned([made EXCEPT !.pins = IF keep THEN @ \cup {n} ELSE @], p.parent)
    IN  IF kept.current.base = 0 /\ kept.current.first
        THEN [kept EXCEPT !.current = CurrentOf(kept)] ELSE kept

CommitPublication(e) ==
    /\ pc[e] = "commit"
    /\ \/ /\ Publishable(e) /\ issued < MaxSnapshots
          /\ \E keep \in BOOLEAN : store' = WithDraft(e, issued + 1, keep)
          /\ issued' = issued + 1
       \/ ~ Publishable(e) /\ UNCHANGED <<store, issued>>
    /\ Goto(e, "idle") /\ device' = Free
    /\ UNCHANGED <<underOutput, draft, overlapped, kills>>

(* A process dies between two steps: its lock is gone, its files stay. *)
Kill(e) ==
    /\ pc[e] # "idle" /\ kills < MaxKills
    /\ kills' = kills + 1
    /\ Goto(e, "idle")
    /\ device' = IF device = e THEN Free ELSE device
    /\ overlapped' = IF work[e].kind \in Writing THEN overlapped \cup {work[e].of}
                     ELSE overlapped
    /\ UNCHANGED <<underOutput, store, issued, draft>>

-----------------------------------------------------------------------------
(* build_reference_graph: a run may go to the trash when the scan is complete and does    *)
(* not find it.  A file that does not fit makes the scan incomplete.                      *)
ScanComplete ==
    /\ store.current.made => store.current.source # Absent
    /\ \A d \in Drafts : draft[d].made => draft[d].written /\ draft[d].source # Emptied

RunReferenced(r) ==
    \/ r \in store.applied
    \/ store.current.source.run = r
    \/ \E s \in Existing(store) : store.snapshots[s].source.run = r
    \/ \E d \in Drafts : draft[d].made /\ draft[d].source.run = r

-----------------------------------------------------------------------------
Transaction ==
    \/ UpdateCurrent \/ InitializeCurrent \/ SaveSnapshot
    \/ \E r \in Runs : ApplyToCurrent(r)
    \/ \E s \in Existing(store) :
         ApplySnapshot(s) \/ SetActive(s) \/ SetKeep(s) \/ DeleteSnapshot(s)

Edit(e) ==
    \/ \E d \in Drafts :
         \/ CreateDraft(e, d) \/ UpdateDraft(e, d) \/ InitializeDraft(e, d)
         \/ ValidateDraft(e, d) \/ DeleteDraft(e, d) \/ StartPublication(e, d)
         \/ \E r \in Runs : ApplyToDraft(e, d, r)
    \/ RetainSource(e) \/ WritePayload(e) \/ WriteSource(e) \/ WriteCheckpoint(e)
    \/ Delete(e) \/ CopyDraft(e) \/ CommitPublication(e) \/ Kill(e)

Next ==
    \/ Transaction
    \/ \E d \in Drafts : Import(d)
    \/ \E e \in Editors : Edit(e)

Spec == Init /\ [][Next]_vars

-----------------------------------------------------------------------------
(* Types, with the lock held exactly by the editor that copies. *)
TypeOK ==
    /\ store.snapshots \in
         [Existing(store) -> [cal: [Records -> Published] \cup {Uncalibrated},
                              parent: 0..issued, source: Sources, eligible: BOOLEAN]]
    /\ Existing(store) \subseteq 1..issued /\ issued \in 0..MaxSnapshots
    /\ store.current.cal \in [Records -> Editable] \cup {Uncalibrated}
    /\ store.current.source \in Sources /\ store.applied \subseteq Runs
    /\ \A d \in Drafts :
         /\ draft[d].payload.cal \in [Records -> Editable] \cup {Uncalibrated}
         /\ draft[d].source \in Sources \ {NoSource}
         /\ draft[d].checkpoints \subseteq 0..MaxEdits
         /\ Cardinality(draft[d].checkpoints) <= MaxCheckpoints
    /\ \A e \in Editors : device = e <=> pc[e] \in {"copy payload", "copy source", "commit"}
    /\ overlapped \subseteq Drafts /\ kills \in 0..MaxKills

(* What the next operation, and every experiment, starts from is there: the active        *)
(* pointer names an eligible snapshot, a kept snapshot exists, and the records of the     *)
(* current configuration are based on those of the snapshot it names, or no save would be *)
(* accepted any more.  Pruning and deletion decide by a search for the identity in other  *)
(* files.                                                                                 *)
AuthorityPresent ==
    LET base == store.current.base IN
    /\ store.active # 0 =>
         store.active \in Existing(store) /\ store.snapshots[store.active].eligible
    /\ store.pins \subseteq Existing(store)
    /\ base # 0 =>
         /\ base \in Existing(store)
         /\ (store.current.cal # Uncalibrated /\ store.snapshots[base].cal # Uncalibrated) =>
              \A x \in Records : store.current.cal[x].base = store.snapshots[base].cal[x]

(* A published record that names a calibration run has the value this run proposed: the   *)
(* candidates that are named with a configuration are those that still stand in it, over  *)
(* any sequence of candidates, edits, restored snapshots and published drafts, while no   *)
(* two editors wrote one draft at once and none died in the middle.                       *)
AttributionTrue ==
    overlapped = {} =>
        \A s \in Existing(store) : store.snapshots[s].cal # Uncalibrated =>
            \A x \in Records :
                LET rec == store.snapshots[s].cal[x]
                IN  rec.run # Manual =>
                        \E c \in Proposal[rec.run] : c.record = x /\ c.to = rec.value

(* A save of the current configuration is at once what experiments run with: whenever its *)
(* content changes, the active snapshot has this content.                                 *)
SavedIsEffective ==
    [][ LET content(cal) == IF cal = Uncalibrated THEN cal ELSE [x \in Records |-> cal[x].value]
            after == content(store'.current.cal)
        IN  (store.current.made /\ after # content(store.current.cal)) =>
                \/ store.current.base = 0 /\ store'.active = 0
                \/ content(store'.snapshots[store'.active].cal) = after ]_vars

(* No run may go to the trash while a snapshot names it as the origin of a record: the    *)
(* scan reads only the files that list applied candidates, and a record keeps its origin  *)
(* in later snapshots that do not list it any more.                                       *)
EvidenceStays ==
    ScanComplete =>
        \A s \in Existing(store) : store.snapshots[s].cal # Uncalibrated =>
            \A x \in Records :
                LET r == store.snapshots[s].cal[x].run IN r # Manual => RunReferenced(r)
=============================================================================
