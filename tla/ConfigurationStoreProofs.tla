---------------------- MODULE ConfigurationStoreProofs ----------------------
(***************************************************************************)
(* Theorems about module ConfigurationStore, for any records, values, runs *)
(* and their candidates, drafts, editors and bounds.                       *)
(*                                                                         *)
(* The store first.  A snapshot that pruning or a deletion removes is      *)
(* nobody's parent and nobody's base, so the run of a record is found by   *)
(* going from a snapshot to its parent, as long as the record was taken    *)
(* over unchanged, to the snapshot that lists the candidate.  What is      *)
(* retained of the candidates of a configuration is true of its values, so *)
(* the records published with them are.  Then the drafts: what is copied   *)
(* of one that no two editors wrote at once is true in the same way.       *)
(***************************************************************************)
EXTENDS ConfigurationStore, FiniteSetTheorems, WellFoundedInduction, TLAPS

Calibrations == [Records -> Editable] \cup {Uncalibrated}
Publications == [Records -> Published] \cup {Uncalibrated}
SourceFiles == [run: Runs \cup {Manual, Free}, of: SUBSET Records]
Snapshots == [cal: Publications, parent: Nat, source: SourceFiles, eligible: BOOLEAN]
Currents == [made: BOOLEAN, cal: Calibrations, base: Nat, source: SourceFiles, first: BOOLEAN]
Stores == [current: Currents, snapshots: UNION {[E -> Snapshots] : E \in SUBSET (Nat \ {0})},
           active: Nat, pins: SUBSET Nat, applied: SUBSET Runs]

(* The run proposed the value v of the record x. *)
Proposed(r, x, v) == \E c \in Proposal[r] : c.record = x /\ c.to = v

(* What is retained of the candidates stands in the calibration. *)
SourceTrue(cal, source) ==
    source.run \in Runs =>
        \A x \in source.of : cal # Uncalibrated /\ Proposed(source.run, x, cal[x].value)

(* What the store refers to is there. *)
Anchored(st) ==
    /\ st.active # 0 => st.active \in Existing(st) /\ st.snapshots[st.active].eligible
    /\ st.pins \subseteq Existing(st)
    /\ st.current.base # 0 => st.current.base \in Existing(st)

(* The records of the current configuration are based on those of its snapshot. *)
Based(st) ==
    LET cur == st.current
        base == st.snapshots[cur.base].cal
    IN  (cur.base # 0 /\ cur.cal # Uncalibrated /\ base # Uncalibrated) =>
            \A x \in Records : cur.cal[x].base = base[x]

(* The run a record names was applied to the current configuration, or is listed with the *)
(* snapshot, or the record is that of the parent.                                         *)
Origin(st, s, x, r) ==
    \/ r \in st.applied
    \/ st.snapshots[s].source.run = r
    \/ LET p == st.snapshots[s].parent
       IN  /\ p \in Existing(st) /\ p < s
           /\ st.snapshots[p].cal # Uncalibrated /\ st.snapshots[p].cal[x].run = r
Traced(st) ==
    \A s \in Existing(st) : st.snapshots[s].cal # Uncalibrated =>
        \A x \in Records :
            LET r == st.snapshots[s].cal[x].run IN r # Manual => Origin(st, s, x, r)

Sound(st, n) ==
    /\ st \in Stores /\ Existing(st) \subseteq 1..n
    /\ Anchored(st) /\ Traced(st) /\ SourceTrue(st.current.cal, st.current.source)

Attributed(st) ==
    \A s \in Existing(st) : st.snapshots[s].cal # Uncalibrated =>
        \A x \in Records :
            LET rec == st.snapshots[s].cal[x] IN rec.run # Manual => Proposed(rec.run, x, rec.value)

Phases == {"idle", "retain", "write", "source", "checkpoint", "drop checkpoints", "drop source",
           "drop payload", "drop directory", "copy payload", "copy source", "commit"}
Payloads == [cal: Calibrations, requalify: BOOLEAN, number: Nat, valid: BOOLEAN, parent: Nat]
Directories == [made: BOOLEAN, written: BOOLEAN, payload: Payloads, source: SourceFiles,
                checkpoints: SUBSET Nat, used: BOOLEAN]
Works == [of: Drafts \cup {NoWork.of}, kind: Writing \cup {"none", "delete", "publish"},
          payload: Payloads, source: SourceFiles, checkpoints: SUBSET Nat]

DraftTypes ==
    /\ draft \in [Drafts -> Directories]
    /\ pc \in [Editors -> Phases]
    /\ work \in [Editors -> Works]
    /\ overlapped \subseteq Drafts

(* An editor at `at` with an operation of this kind. *)
Suits(at, kind) ==
    /\ at = "retain" => kind = "update"
    /\ at = "write" => kind \in Writing
    /\ at = "source" => kind = "apply"
    /\ at = "checkpoint" => kind \in Writing
    /\ kind = "publish" <=> at \in {"copy payload", "copy source", "commit"}

WorkOK(e) ==
    pc[e] # "idle" =>
        work[e].of \in Drafts /\ draft[work[e].of].used /\ Suits(pc[e], work[e].kind)

(* What an editor at `at` has loaded against the directory as it is, when no two editors    *)
(* write it at once.                                                                        *)
Fits(at, w, dir) ==
    /\ at = "write" /\ w.kind = "create" => ~ dir.written /\ dir.source = Absent
    /\ at = "write" /\ w.kind \in {"update", "initialize", "validate"} =>
         SourceTrue(w.payload.cal, dir.source)
    /\ at \in {"write", "source"} /\ w.kind = "apply" =>
         SourceTrue(w.payload.cal, w.source) /\ ~ w.payload.valid
    /\ at = "source" /\ dir.written => dir.payload = w.payload
    /\ at # "idle" /\ w.kind = "publish" /\ w.payload.valid => SourceTrue(w.payload.cal, w.source)

WriterOK(e) == Fits(pc[e], work[e], draft[work[e].of])

Applying(d) == \E e \in Editors : pc[e] = "source" /\ work[e].of = d

DraftOK(d) ==
    /\ ~ draft[d].used => ~ draft[d].written /\ draft[d].source = Absent /\ Writers(d) = {}
    /\ overlapped = {} =>
         /\ \A e, f \in Writers(d) : e = f
         /\ draft[d].written /\ ~ Applying(d) => SourceTrue(draft[d].payload.cal, draft[d].source)

StoreInv == Sound(store, issued) /\ Based(store) /\ issued \in Nat
DraftInv ==
    /\ DraftTypes
    /\ \A e \in Editors : WorkOK(e) /\ (overlapped = {} => WriterOK(e))
    /\ \A d \in Drafts : DraftOK(d)
OriginInv == overlapped = {} => Attributed(store)
Inv == StoreInv /\ DraftInv /\ OriginInv

-----------------------------------------------------------------------------
(* Calibrations and what is retained of candidates. *)
LEMMA RecordTypes ==
    /\ NoRecord \in Published
    /\ InitialCalibration \in Calibrations /\ InitialCalibration # Uncalibrated
    /\ \A x \in Records : InitialCalibration[x].value = Template
  BY StoreAssumption DEF NoRecord, Published, InitialCalibration, Editable, Calibrations

LEMMA SourceTypes ==
    /\ NoSource \in SourceFiles /\ Absent \in SourceFiles /\ Emptied \in SourceFiles
    /\ NoSource.run \notin Runs /\ Absent.run \notin Runs /\ Emptied.run \notin Runs
  BY StoreAssumption DEF NoSource, Absent, Emptied, SourceFiles

LEMMA DraftifiedFacts ==
    ASSUME NEW cal \in Publications
    PROVE  /\ Draftified(cal) \in Calibrations
           /\ Draftified(cal) = Uncalibrated <=> cal = Uncalibrated
           /\ cal # Uncalibrated =>
                \A x \in Records : /\ Draftified(cal)[x].value = cal[x].value
                                   /\ Draftified(cal)[x].base = cal[x]
  BY StoreAssumption DEF Draftified, Publications, Calibrations, Editable, Published

LEMMA RunOfType ==
    ASSUME NEW source, NEW x PROVE RunOf(source, x) \in Runs \cup {Manual}
  BY DEF RunOf

LEMMA PublishFacts ==
    ASSUME NEW cal \in Calibrations, NEW base \in Publications, NEW source
    PROVE  LET p == PublishCalibration(cal, base, source)
           IN  /\ p \in Publications
               /\ p = Uncalibrated <=> cal = Uncalibrated
               /\ cal # Uncalibrated =>
                    \A x \in Records :
                        /\ p[x].value = cal[x].value
                        /\ \/ base # Uncalibrated /\ p[x] = base[x]
                           \/ p[x].run = RunOf(source, x)
<1> DEFINE p == PublishCalibration(cal, base, source)
<1>1. CASE cal = Uncalibrated
  BY <1>1 DEF PublishCalibration, Publications
<1>2. CASE cal # Uncalibrated
  <2> DEFINE New(x) == [value |-> cal[x].value, revision |-> cal[x].base.revision + 1,
                        run |-> RunOf(source, x)]
             Row(x) == IF base # Uncalibrated /\ base[x].value = cal[x].value THEN base[x]
                       ELSE New(x)
  <2>1. p = [x \in Records |-> Row(x)]
    BY <1>2 DEF PublishCalibration
  <2>2. ASSUME NEW x \in Records
        PROVE  /\ Row(x) \in Published /\ Row(x).value = cal[x].value
               /\ \/ base # Uncalibrated /\ Row(x) = base[x]
                  \/ Row(x).run = RunOf(source, x)
    <3>1. cal[x] \in Editable
      BY <1>2 DEF Calibrations
    <3>2. New(x) \in Published
      BY <3>1, RunOfType DEF Editable, Published
    <3>3. base # Uncalibrated => base[x] \in Published
      BY DEF Publications
    <3> QED BY <3>2, <3>3
  <2>3. p \in [Records -> Published]
    BY <2>1, <2>2
  <2>4. p # Uncalibrated
    BY <2>3, StoreAssumption
  <2>5. \A x \in Records : p[x] = Row(x)
    BY <2>1
  <2> HIDE DEF p, Row
  <2> QED BY <1>2, <2>2, <2>3, <2>4, <2>5 DEF Publications, p
<1> QED BY <1>1, <1>2

(* The candidates that are retained are true of the calibration they were compared with,    *)
(* and of any the source was true of (_retained_candidate_source).                          *)
LEMMA RetainedTrue ==
    ASSUME NEW source \in SourceFiles, NEW cal
    PROVE  /\ Retained(source, cal) \in SourceFiles
           /\ SourceTrue(cal, Retained(source, cal))
           /\ \A old : SourceTrue(old, source) => SourceTrue(old, Retained(source, cal))
<1> DEFINE of == {c.record : c \in {c \in Proposal[source.run] :
                    c.record \in source.of /\ cal # Uncalibrated /\ cal[c.record].value = c.to}}
<1>1. CASE source.run \notin Runs \/ of = {}
  <2>1. Retained(source, cal) = NoSource
    BY <1>1 DEF Retained
  <2> QED BY <2>1, SourceTypes DEF SourceTrue
<1>2. CASE source.run \in Runs /\ of # {}
  <2>1. Retained(source, cal) = [run |-> source.run, of |-> of]
    BY <1>2 DEF Retained
  <2>2. \A x \in of : /\ x \in source.of /\ cal # Uncalibrated
                      /\ Proposed(source.run, x, cal[x].value)
    BY DEF Proposed
  <2>3. of \in SUBSET Records
    BY <2>2 DEF SourceFiles
  <2> HIDE DEF of
  <2>4. Retained(source, cal) \in SourceFiles
    BY <1>2, <2>1, <2>3 DEF SourceFiles
  <2>5. SourceTrue(cal, Retained(source, cal))
    BY <2>1, <2>2 DEF SourceTrue
  <2>6. ASSUME NEW old, SourceTrue(old, source) PROVE SourceTrue(old, Retained(source, cal))
    BY <1>2, <2>1, <2>2, <2>6 DEF SourceTrue
  <2> QED BY <2>4, <2>5, <2>6
<1> QED BY <1>1, <1>2

(* The candidates that are applied are what the calibration then has                        *)
(* (_apply_candidate_groups).                                                               *)
LEMMA AppliedTrue ==
    ASSUME NEW r \in Runs, NEW selected \in SUBSET Proposal[r],
           NEW cal \in [Records -> Editable]
    PROVE  /\ WithCandidates(cal, selected) \in [Records -> Editable]
           /\ WithCandidates(cal, selected) # Uncalibrated
           /\ \A x \in Records : WithCandidates(cal, selected)[x].base = cal[x].base
           /\ CandidateSource(r, selected) \in SourceFiles
           /\ SourceTrue(WithCandidates(cal, selected), CandidateSource(r, selected))
<1> DEFINE Names(x) == \E c \in selected : c.record = x
           Chosen(x) == CHOOSE c \in selected : c.record = x
           Row(x) == IF Names(x) THEN [cal[x] EXCEPT !.value = Chosen(x).to] ELSE cal[x]
           with == WithCandidates(cal, selected)
<1>1. with = [x \in Records |-> Row(x)]
  BY DEF WithCandidates
<1>2. selected \subseteq Candidates
  BY StoreAssumption
<1>3. ASSUME NEW x \in Records, Names(x)
      PROVE  Chosen(x) \in selected /\ Chosen(x).record = x /\ Chosen(x).to \in Values
  <2>1. Chosen(x) \in selected /\ Chosen(x).record = x
    BY <1>3
  <2> QED BY <2>1, <1>2 DEF Candidates
<1>4. ASSUME NEW x \in Records
      PROVE  /\ Row(x) \in Editable /\ Row(x).base = cal[x].base
             /\ Names(x) => Row(x).value = Chosen(x).to
  <2>1. cal[x] \in Editable
    OBVIOUS
  <2> HIDE DEF Chosen, Names
  <2> QED BY <1>3, <2>1 DEF Editable
<1>5. with \in [Records -> Editable] /\ \A x \in Records : with[x] = Row(x)
  BY <1>1, <1>4
<1>6. with # Uncalibrated
  BY <1>5, StoreAssumption
<1>7. CandidateSource(r, selected) = [run |-> r, of |-> {c.record : c \in selected}]
  BY DEF CandidateSource
<1>8. {c.record : c \in selected} \subseteq Records
  BY <1>2 DEF Candidates
<1>9. ASSUME NEW x \in Records, Names(x) PROVE Proposed(r, x, with[x].value)
  <2>1. with[x].value = Chosen(x).to
    BY <1>4, <1>5, <1>9
  <2>2. Chosen(x) \in Proposal[r] /\ Chosen(x).record = x
    BY <1>3, <1>9
  <2> QED BY <2>1, <2>2 DEF Proposed
<1>10. SourceTrue(with, CandidateSource(r, selected))
  <2>1. ASSUME NEW x \in {c.record : c \in selected} PROVE Proposed(r, x, with[x].value)
    BY <1>8, <1>9, <2>1
  <2> QED BY <2>1, <1>6, <1>7 DEF SourceTrue
<1>11. CandidateSource(r, selected) \in SourceFiles
  BY <1>7, <1>8 DEF SourceFiles
<1>12. \A x \in Records : with[x].base = cal[x].base
  <2> HIDE DEF Row, with
  <2> QED BY <1>4, <1>5
<1> QED BY <1>5, <1>6, <1>10, <1>11, <1>12

(* An edit replaces the value of one record and keeps what it is based on. *)
LEMMA EditedFacts ==
    ASSUME NEW cal \in Calibrations, NEW new \in Edited(cal)
    PROVE  /\ cal # Uncalibrated /\ new # Uncalibrated /\ new \in Calibrations
           /\ \A x \in Records : new[x].base = cal[x].base
<1>1. PICK x \in {x \in Records : cal # Uncalibrated}, v \in Values : new = [cal EXCEPT ![x].value = v]
  BY DEF Edited
<1>2. cal \in [Records -> Editable] /\ x \in Records /\ v \in Values
  BY <1>1 DEF Calibrations
<1>3. new \in [Records -> Editable] /\ \A y \in Records : new[y].base = cal[y].base
  BY <1>1, <1>2 DEF Editable
<1> QED BY <1>1, <1>3, StoreAssumption DEF Calibrations

-----------------------------------------------------------------------------
(* Snapshots: adding one, removing those nothing refers to, pruning. *)
LEMMA StoreFields ==
    ASSUME NEW st \in Stores
    PROVE  /\ st.current \in Currents
           /\ st.snapshots \in [Existing(st) -> Snapshots] /\ Existing(st) \in SUBSET (Nat \ {0})
           /\ st.active \in Nat /\ st.pins \in SUBSET Nat /\ st.applied \in SUBSET Runs
  BY DEF Stores, Existing

Safe(st, gone) ==
    /\ gone \subseteq Existing(st)
    /\ gone \cap (st.pins \cup {st.active}) = {}
    /\ \A s \in gone : /\ st.current.base # s
                       /\ \A t \in Existing(st) \ {s} : st.snapshots[t].parent # s

(* Removing snapshots that are safe to remove takes no ground from what stays. *)
LEMMA RemovedSound ==
    ASSUME NEW st, NEW n \in Nat, Sound(st, n), NEW gone, Safe(st, gone)
    PROVE  LET re == Removed(st, gone)
           IN  /\ Sound(re, n)
               /\ Based(st) => Based(re)
               /\ Attributed(st) => Attributed(re)
               /\ re.current = st.current /\ re.active = st.active
               /\ Existing(re) = Existing(st) \ gone
               /\ \A s \in Existing(re) : re.snapshots[s] = st.snapshots[s]
<1> DEFINE left == Existing(st) \ gone
           re == Removed(st, gone)
<1>1. st \in Stores /\ st.snapshots \in [Existing(st) -> Snapshots]
      /\ Existing(st) \in SUBSET (Nat \ {0})
  BY StoreFields DEF Sound
<1>2. re = [st EXCEPT !.snapshots = [s \in left |-> st.snapshots[s]]]
  BY DEF Removed
<1>3. [s \in left |-> st.snapshots[s]] \in [left -> Snapshots] /\ left \in SUBSET (Nat \ {0})
  BY <1>1
<1>4. /\ re \in Stores /\ re.current = st.current /\ re.active = st.active
      /\ re.pins = st.pins /\ re.applied = st.applied
      /\ re.snapshots = [s \in left |-> st.snapshots[s]]
  <2> DEFINE f == [s \in left |-> st.snapshots[s]]
  <2>1. f \in UNION {[E -> Snapshots] : E \in SUBSET (Nat \ {0})}
    BY <1>3
  <2> HIDE DEF f
  <2> QED BY <1>1, <1>2, <2>1 DEF Stores, f
<1>5. Existing(re) = left
  BY <1>4 DEF Existing
<1>6. \A s \in left : re.snapshots[s] = st.snapshots[s]
  BY <1>4
<1> HIDE DEF re
<1>7. Anchored(re)
  BY <1>4, <1>5, <1>6 DEF Sound, Anchored, Safe
<1>8. Traced(re)
  <2> SUFFICES ASSUME NEW s \in left, st.snapshots[s].cal # Uncalibrated, NEW x \in Records,
                      st.snapshots[s].cal[x].run # Manual
               PROVE  Origin(re, s, x, st.snapshots[s].cal[x].run)
    BY <1>5, <1>6 DEF Traced
  <2> DEFINE r == st.snapshots[s].cal[x].run
             p == st.snapshots[s].parent
  <2>1. Origin(st, s, x, r)
    BY DEF Sound, Traced
  <2>2. CASE r \in st.applied \/ st.snapshots[s].source.run = r
    BY <2>2, <1>4, <1>6 DEF Origin
  <2>3. CASE ~ (r \in st.applied \/ st.snapshots[s].source.run = r)
    <3>1. /\ p \in Existing(st) /\ p < s
          /\ st.snapshots[p].cal # Uncalibrated /\ st.snapshots[p].cal[x].run = r
      BY <2>1, <2>3 DEF Origin
    <3>2. p # s
      BY <3>1, <1>1
    <3>3. p \notin gone
      BY <3>2 DEF Safe
    <3> QED BY <3>1, <3>3, <1>5, <1>6 DEF Origin
  <2> QED BY <2>2, <2>3
<1>9. Based(st) => Based(re)
  BY <1>4, <1>5, <1>6, <1>7 DEF Based, Anchored
<1>10. Attributed(st) => Attributed(re)
  BY <1>5, <1>6 DEF Attributed
<1>11. Sound(re, n)
  BY <1>4, <1>5, <1>7, <1>8 DEF Sound
<1> QED BY <1>4, <1>5, <1>6, <1>9, <1>10, <1>11 DEF re

(* _prune_automatic_snapshots keeps what is referred to, and the newest snapshot. *)
LEMMA PrunedSound ==
    ASSUME NEW st, NEW n \in Nat, Sound(st, n), NEW copied
    PROVE  LET re == Pruned(st, copied)
           IN  /\ Sound(re, n)
               /\ Based(st) => Based(re)
               /\ Attributed(st) => Attributed(re)
               /\ re.current = st.current /\ re.active = st.active
               /\ Existing(re) \subseteq Existing(st)
               /\ n \in Existing(st) => n \in Existing(re)
               /\ \A s \in Existing(re) : re.snapshots[s] = st.snapshots[s]
<1> DEFINE automatic == Existing(st) \ (st.pins \cup {st.active})
           unneeded == {s \in automatic : s # copied /\ ~ Referenced(st, s)}
           newer(s) == {t \in unneeded : t > s}
           gone == {s \in unneeded : Cardinality(newer(s)) >= MaxAutomatic}
<1>1. CASE Pruned(st, copied) = st
  BY <1>1
<1>2. CASE Pruned(st, copied) = Removed(st, gone)
  <2>1. Safe(st, gone)
    BY DEF Safe, Referenced
  <2>2. n \notin gone
    <3>1. newer(n) = {}
      BY DEF Sound
    <3>2. ~ (0 >= MaxAutomatic)
      BY StoreAssumption
    <3> QED BY <3>1, <3>2, FS_EmptySet
  <2> HIDE DEF gone
  <2> QED BY <1>2, <2>1, <2>2, RemovedSound
<1>3. Pruned(st, copied) \in {st, Removed(st, gone)}
  BY DEF Pruned
<1> QED BY <1>1, <1>2, <1>3

(* A new snapshot whose records name runs it lists, or are those of its parent. *)
LEMMA AddedSound ==
    ASSUME NEW st, NEW n \in Nat, Sound(st, n), NEW new \in Snapshots,
           new.cal # Uncalibrated =>
             \A x \in Records :
               \/ new.cal[x].run \in {Manual, new.source.run}
               \/ /\ new.parent \in Existing(st) /\ st.snapshots[new.parent].cal # Uncalibrated
                  /\ new.cal[x] = st.snapshots[new.parent].cal[x]
    PROVE  LET ad == Added(st, n + 1, new)
           IN  /\ Sound(ad, n + 1)
               /\ Based(st) => Based(ad)
               /\ ad.current = st.current /\ ad.active = st.active /\ ad.pins = st.pins
               /\ ad.applied = st.applied
               /\ Existing(ad) = Existing(st) \cup {n + 1} /\ n + 1 \notin Existing(st)
               /\ ad.snapshots[n + 1] = new
               /\ \A s \in Existing(st) : ad.snapshots[s] = st.snapshots[s]
<1> DEFINE all == Existing(st) \cup {n + 1}
           f == [s \in all |-> IF s = n + 1 THEN new ELSE st.snapshots[s]]
           ad == Added(st, n + 1, new)
<1>1. st \in Stores /\ st.snapshots \in [Existing(st) -> Snapshots]
      /\ Existing(st) \in SUBSET (Nat \ {0})
  BY StoreFields DEF Sound
<1>2. ad = [st EXCEPT !.snapshots = f]
  BY DEF Added
<1>3. f \in [all -> Snapshots] /\ all \in SUBSET (Nat \ {0})
  BY <1>1
<1>4. /\ ad \in Stores /\ ad.current = st.current /\ ad.active = st.active
      /\ ad.pins = st.pins /\ ad.applied = st.applied /\ ad.snapshots = f
  <2>1. f \in UNION {[E -> Snapshots] : E \in SUBSET (Nat \ {0})}
    BY <1>3
  <2> HIDE DEF f
  <2> QED BY <1>1, <1>2, <2>1 DEF Stores
<1>5. Existing(ad) = all
  BY <1>3, <1>4 DEF Existing
<1>6. n + 1 \notin Existing(st)
  BY DEF Sound
<1>7. ad.snapshots[n + 1] = new /\ \A s \in Existing(st) : ad.snapshots[s] = st.snapshots[s]
  BY <1>4, <1>6
<1> HIDE DEF ad, f
<1>8. Anchored(ad)
  BY <1>4, <1>5, <1>7 DEF Sound, Anchored
<1>9. Traced(ad)
  <2> SUFFICES ASSUME NEW s \in all, ad.snapshots[s].cal # Uncalibrated, NEW x \in Records,
                      ad.snapshots[s].cal[x].run # Manual
               PROVE  Origin(ad, s, x, ad.snapshots[s].cal[x].run)
    BY <1>5 DEF Traced
  <2>1. CASE s \in Existing(st)
    <3>1. Origin(st, s, x, st.snapshots[s].cal[x].run)
      BY <2>1, <1>7 DEF Sound, Traced
    <3> DEFINE r == st.snapshots[s].cal[x].run
               p == st.snapshots[s].parent
    <3>2. ad.snapshots[s] = st.snapshots[s] /\ ad.snapshots[s].cal[x].run = r
      BY <2>1, <1>7
    <3> HIDE DEF r
    <3>3. CASE r \in st.applied \/ st.snapshots[s].source.run = r
      BY <3>2, <3>3, <1>4 DEF Origin
    <3>4. CASE /\ p \in Existing(st) /\ p < s
               /\ st.snapshots[p].cal # Uncalibrated /\ st.snapshots[p].cal[x].run = r
      <4>1. p \in Existing(ad) /\ ad.snapshots[p] = st.snapshots[p]
        BY <3>4, <1>5, <1>7
      <4> QED BY <3>2, <3>4, <4>1 DEF Origin
    <3> QED BY <3>1, <3>2, <3>3, <3>4 DEF Origin, r
  <2>2. CASE s = n + 1
    <3>1. CASE new.cal[x].run = new.source.run
      BY <3>1, <2>2, <1>7 DEF Origin
    <3>2. CASE /\ new.parent \in Existing(st) /\ st.snapshots[new.parent].cal # Uncalibrated
               /\ new.cal[x] = st.snapshots[new.parent].cal[x]
      <4>1. new.parent < n + 1
        BY <3>2 DEF Sound
      <4> QED BY <3>2, <4>1, <2>2, <1>5, <1>7 DEF Origin
    <3> QED BY <3>1, <3>2, <2>2, <1>7
  <2> QED BY <2>1, <2>2
<1>10. Based(st) => Based(ad)
  BY <1>4, <1>5, <1>7, <1>8 DEF Based, Anchored, Sound
<1>11. Sound(ad, n + 1)
  BY <1>4, <1>5, <1>8, <1>9 DEF Sound
<1> QED BY <1>4, <1>5, <1>6, <1>7, <1>10, <1>11 DEF ad

-----------------------------------------------------------------------------
(* What a calibration says, whatever its records are based on. *)
Content(cal) == IF cal = Uncalibrated THEN cal ELSE [x \in Records |-> cal[x].value]

LEMMA SameContent ==
    ASSUME NEW a, NEW b, a = Uncalibrated <=> b = Uncalibrated,
           a # Uncalibrated => \A x \in Records : a[x].value = b[x].value
    PROVE  Content(a) = Content(b)
<1>1. CASE a = Uncalibrated
  BY <1>1 DEF Content
<1>2. CASE a # Uncalibrated
  <2>1. [x \in Records |-> a[x].value] = [x \in Records |-> b[x].value]
    BY <1>2
  <2> QED BY <1>2, <2>1 DEF Content
<1> QED BY <1>1, <1>2

LEMMA SourceCarries ==
    ASSUME NEW a, NEW b, NEW source \in SourceFiles, a = Uncalibrated <=> b = Uncalibrated,
           a # Uncalibrated => \A x \in Records : a[x].value = b[x].value,
           SourceTrue(a, source)
    PROVE  SourceTrue(b, source)
  BY DEF SourceTrue, SourceFiles

(* Changing what the store says besides its snapshots. *)
LEMMA ReplacedSound ==
    ASSUME NEW st, NEW n \in Nat, Sound(st, n), NEW re \in Stores,
           re.snapshots = st.snapshots, st.applied \subseteq re.applied,
           Anchored(re), SourceTrue(re.current.cal, re.current.source)
    PROVE  Sound(re, n) /\ (Attributed(st) => Attributed(re))
<1>1. Existing(re) = Existing(st)
  BY DEF Existing
<1>2. Traced(re)
  <2> SUFFICES ASSUME NEW s \in Existing(st), st.snapshots[s].cal # Uncalibrated,
                      NEW x \in Records, st.snapshots[s].cal[x].run # Manual
               PROVE  Origin(re, s, x, st.snapshots[s].cal[x].run)
    BY <1>1 DEF Traced
  <2>1. Origin(st, s, x, st.snapshots[s].cal[x].run)
    BY DEF Sound, Traced
  <2> QED BY <2>1, <1>1 DEF Origin
<1>3. Attributed(st) => Attributed(re)
  BY <1>1 DEF Attributed
<1> QED BY <1>1, <1>2, <1>3 DEF Sound

(* A save: the current configuration is published over the snapshot it is based on, and is  *)
(* then based on what was published (snapshot_current_configuration).                       *)
LEMMA SnapshottedSound ==
    ASSUME NEW st, NEW n \in Nat, Sound(st, n), NEW keep \in BOOLEAN, NEW activate \in BOOLEAN
    PROVE  LET re == Snapshotted(st, n + 1, keep, activate)
           IN  /\ Sound(re, n + 1) /\ Based(re)
               /\ Attributed(st) => Attributed(re)
               /\ Content(re.current.cal) = Content(st.current.cal)
               /\ activate => /\ re.active = n + 1
                              /\ Content(re.snapshots[n + 1].cal) = Content(st.current.cal)
<1> DEFINE cur == st.current
           base == IF cur.base = 0 THEN Uncalibrated ELSE st.snapshots[cur.base].cal
           cal == PublishCalibration(cur.cal, base, cur.source)
           listed == IF cur.source = Absent THEN NoSource ELSE cur.source
           snapshot == [cal |-> cal, parent |-> cur.base, eligible |-> TRUE, source |-> listed]
           made == Added(st, n + 1, snapshot)
           new == [cur EXCEPT !.cal = Draftified(cal), !.base = n + 1,
                              !.first = cur.first /\ activate]
           pins == IF keep THEN made.pins \cup {n + 1} ELSE made.pins
           active == IF activate THEN n + 1 ELSE made.active
           mid == [made EXCEPT !.pins = pins, !.current = new, !.active = active]
<1>1. /\ cur \in Currents /\ st.active \in Nat /\ st.pins \in SUBSET Nat
      /\ st.snapshots \in [Existing(st) -> Snapshots] /\ Existing(st) \in SUBSET (Nat \ {0})
  BY StoreFields DEF Sound
<1>2. /\ cur.cal \in Calibrations /\ cur.base \in Nat /\ cur.source \in SourceFiles
      /\ cur.first \in BOOLEAN /\ cur.made \in BOOLEAN
  BY <1>1 DEF Currents
<1>3. cur.base # 0 => cur.base \in Existing(st)
  BY DEF Sound, Anchored
<1>4. base \in Publications
  BY <1>1, <1>3 DEF Publications, Snapshots
<1> HIDE DEF base
<1>5. /\ cal \in Publications
      /\ cal = Uncalibrated <=> cur.cal = Uncalibrated
      /\ cur.cal # Uncalibrated =>
           \A x \in Records :
               /\ cal[x].value = cur.cal[x].value
               /\ \/ base # Uncalibrated /\ cal[x] = base[x]
                  \/ cal[x].run = RunOf(cur.source, x)
  BY <1>2, <1>4, PublishFacts
<1> HIDE DEF cal
<1>6. listed \in SourceFiles
  BY <1>2, SourceTypes
<1>7. \A x : RunOf(cur.source, x) \in {Manual, listed.run}
  BY SourceTypes DEF RunOf
<1> HIDE DEF listed, cur
<1>8. snapshot \in Snapshots
  BY <1>2, <1>5, <1>6 DEF Snapshots
<1>9. snapshot.cal # Uncalibrated =>
        \A x \in Records :
          \/ snapshot.cal[x].run \in {Manual, snapshot.source.run}
          \/ /\ snapshot.parent \in Existing(st) /\ st.snapshots[snapshot.parent].cal # Uncalibrated
             /\ snapshot.cal[x] = st.snapshots[snapshot.parent].cal[x]
  <2> SUFFICES ASSUME cal # Uncalibrated, NEW x \in Records
               PROVE  \/ cal[x].run \in {Manual, listed.run}
                      \/ /\ cur.base \in Existing(st) /\ st.snapshots[cur.base].cal # Uncalibrated
                         /\ cal[x] = st.snapshots[cur.base].cal[x]
    OBVIOUS
  <2>1. CASE cal[x].run = RunOf(cur.source, x)
    BY <2>1, <1>7
  <2>2. CASE base # Uncalibrated /\ cal[x] = base[x]
    BY <2>2, <1>3 DEF base
  <2> QED BY <2>1, <2>2, <1>5
<1> DEFINE snap == snapshot
<1>10. snap.cal = cal
  OBVIOUS
<1> HIDE DEF snap
<1>11. /\ Sound(made, n + 1)
       /\ made.current = st.current /\ made.active = st.active /\ made.pins = st.pins
       /\ made.applied = st.applied
       /\ Existing(made) = Existing(st) \cup {n + 1} /\ n + 1 \notin Existing(st)
       /\ made.snapshots[n + 1] = snapshot
       /\ \A s \in Existing(st) : made.snapshots[s] = st.snapshots[s]
  <2> HIDE DEF snapshot
  <2> QED BY <1>8, <1>9, AddedSound
<1>12. made.snapshots[n + 1].cal = cal /\ made.snapshots[n + 1].eligible
  BY <1>11
<1> HIDE DEF made, snapshot
<1>13. /\ Draftified(cal) \in Calibrations
       /\ Draftified(cal) = Uncalibrated <=> cal = Uncalibrated
       /\ cal # Uncalibrated => \A x \in Records : /\ Draftified(cal)[x].value = cal[x].value
                                                   /\ Draftified(cal)[x].base = cal[x]
  BY <1>5, DraftifiedFacts
<1>14. /\ new \in Currents /\ new.cal = Draftified(cal) /\ new.base = n + 1
       /\ new.source = cur.source
  <2> DEFINE first == cur.first /\ activate
  <2>1. first \in BOOLEAN
    OBVIOUS
  <2> HIDE DEF first
  <2>2. new = [cur EXCEPT !.cal = Draftified(cal), !.base = n + 1, !.first = first]
    BY DEF first
  <2> HIDE DEF new
  <2>3. n + 1 \in Nat
    OBVIOUS
  <2> QED BY <1>1, <1>13, <2>1, <2>2, <2>3 DEF Currents
<1> HIDE DEF new
<1>15. /\ mid \in Stores /\ mid.snapshots = made.snapshots /\ mid.applied = made.applied
       /\ mid.current = new /\ mid.active = active /\ mid.pins = pins
  <2>1. made \in Stores /\ pins \in SUBSET Nat /\ active \in Nat
    BY <1>1, <1>11 DEF Sound
  <2> HIDE DEF pins, active
  <2> QED BY <2>1, <1>14 DEF Stores
<1>16. Existing(mid) = Existing(made)
  BY <1>15 DEF Existing
<1>17. Anchored(mid)
  BY <1>11, <1>12, <1>14, <1>15, <1>16 DEF Sound, Anchored
<1>18. SourceTrue(mid.current.cal, mid.current.source)
  <2>1. SourceTrue(cur.cal, cur.source)
    BY DEF Sound, cur
  <2>2. SourceTrue(Draftified(cal), cur.source)
    BY <2>1, <1>2, <1>5, <1>13, SourceCarries
  <2> QED BY <2>2, <1>14, <1>15
<1>19. Sound(mid, n + 1) /\ (Attributed(made) => Attributed(mid))
  <2> HIDE DEF mid
  <2> QED BY <1>11, <1>15, <1>17, <1>18, ReplacedSound
<1>20. Based(mid)
  BY <1>12, <1>13, <1>14, <1>15 DEF Based
<1>21. Attributed(st) => Attributed(made)
  <2> SUFFICES ASSUME Attributed(st), NEW s \in Existing(made),
                      made.snapshots[s].cal # Uncalibrated, NEW x \in Records,
                      made.snapshots[s].cal[x].run # Manual
               PROVE  Proposed(made.snapshots[s].cal[x].run, x, made.snapshots[s].cal[x].value)
    BY DEF Attributed
  <2>1. CASE s \in Existing(st)
    BY <2>1, <1>11 DEF Attributed
  <2>2. CASE s = n + 1
    <3>1. cal # Uncalibrated /\ cal[x].run # Manual
      BY <2>2, <1>12
    <3>2. CASE base # Uncalibrated /\ cal[x] = base[x]
      BY <3>1, <3>2, <2>2, <1>3, <1>12 DEF Attributed, base
    <3>3. CASE cal[x].run = RunOf(cur.source, x)
      <4>1. cur.source.run \in Runs /\ x \in cur.source.of /\ cal[x].run = cur.source.run
        BY <3>1, <3>3 DEF RunOf
      <4>2. Proposed(cur.source.run, x, cur.cal[x].value)
        BY <4>1 DEF Sound, SourceTrue, cur
      <4> QED BY <4>1, <4>2, <3>1, <2>2, <1>5, <1>12
    <3> QED BY <3>1, <3>2, <3>3, <1>5
  <2> QED BY <2>1, <2>2, <1>11
<1>22. Content(Draftified(cal)) = Content(cur.cal) /\ Content(cal) = Content(cur.cal)
  <2>1. Content(Draftified(cal)) = Content(cal)
    BY <1>13, SameContent
  <2>2. Content(cal) = Content(cur.cal)
    BY <1>5, SameContent
  <2> QED BY <2>1, <2>2
<1> DEFINE re == Pruned(mid, 0)
<1>23. Snapshotted(st, n + 1, keep, activate) = re
  BY DEF Snapshotted, mid, new, made, snapshot, listed, cal, base, cur
<1>24. /\ Sound(re, n + 1) /\ Based(re) /\ (Attributed(mid) => Attributed(re))
       /\ re.current = mid.current /\ re.active = mid.active
       /\ n + 1 \in Existing(re) /\ re.snapshots[n + 1] = mid.snapshots[n + 1]
  <2>1. n + 1 \in Existing(mid) /\ n + 1 \in Nat
    BY <1>11, <1>16
  <2> HIDE DEF mid
  <2>2. LET pr == Pruned(mid, 0)
        IN  /\ Sound(pr, n + 1)
            /\ Based(mid) => Based(pr)
            /\ Attributed(mid) => Attributed(pr)
            /\ pr.current = mid.current /\ pr.active = mid.active
            /\ Existing(pr) \subseteq Existing(mid)
            /\ n + 1 \in Existing(mid) => n + 1 \in Existing(pr)
            /\ \A s \in Existing(pr) : pr.snapshots[s] = mid.snapshots[s]
    BY <2>1, <1>19, PrunedSound
  <2> HIDE DEF re
  <2> QED BY <2>1, <2>2, <1>20 DEF re
<1> HIDE DEF re
<1>25. Content(re.current.cal) = Content(st.current.cal)
  BY <1>14, <1>15, <1>22, <1>24 DEF cur
<1>26. activate => re.active = n + 1 /\ Content(re.snapshots[n + 1].cal) = Content(st.current.cal)
  BY <1>12, <1>15, <1>22, <1>24 DEF cur
<1> QED BY <1>19, <1>21, <1>23, <1>24, <1>25, <1>26

-----------------------------------------------------------------------------
(* The transactions on the current configuration and the snapshots. *)
Effective ==
    (store.current.made /\ Content(store'.current.cal) # Content(store.current.cal)) =>
        \/ store.current.base = 0 /\ store'.active = 0
        \/ Content(store'.snapshots[store'.active].cal) = Content(store'.current.cal)

Moves ==
    /\ StoreInv'
    /\ Attributed(store) => Attributed(store')
    /\ Effective

(* A transaction that saves `st`, whose content is new or is to be in effect. *)
LEMMA SaveMoves ==
    ASSUME StoreInv, NEW st, Sound(st, issued), Attributed(store) => Attributed(st),
           NEW keep \in BOOLEAN, NEW activate \in BOOLEAN,
           store' = Snapshotted(st, issued + 1, keep, activate), issued' = issued + 1,
           activate \/ Content(st.current.cal) = Content(store.current.cal)
    PROVE  Moves
<1>1. issued \in Nat
  BY DEF StoreInv
<1>2. /\ Sound(store', issued + 1) /\ Based(store')
      /\ Attributed(st) => Attributed(store')
      /\ Content(store'.current.cal) = Content(st.current.cal)
      /\ activate => /\ store'.active = issued + 1
                     /\ Content(store'.snapshots[issued + 1].cal) = Content(st.current.cal)
  <2>1. LET re == Snapshotted(st, issued + 1, keep, activate)
        IN  /\ Sound(re, issued + 1) /\ Based(re)
            /\ Attributed(st) => Attributed(re)
            /\ Content(re.current.cal) = Content(st.current.cal)
            /\ activate => /\ re.active = issued + 1
                           /\ Content(re.snapshots[issued + 1].cal) = Content(st.current.cal)
    BY <1>1, SnapshottedSound
  <2> QED BY <2>1
<1>3. StoreInv'
  BY <1>1, <1>2 DEF StoreInv
<1>4. Effective
  BY <1>2 DEF Effective
<1> QED BY <1>2, <1>3, <1>4 DEF Moves

(* Another current configuration over the same snapshots. *)
LEMMA CurrentReplaced ==
    ASSUME StoreInv, NEW cur \in Currents, SourceTrue(cur.cal, cur.source),
           cur.base # 0 => cur.base \in Existing(store)
    PROVE  LET st == [store EXCEPT !.current = cur]
           IN  /\ st \in Stores /\ Sound(st, issued) /\ st.current = cur
               /\ st.snapshots = store.snapshots /\ st.active = store.active
               /\ Attributed(store) => Attributed(st)
<1> DEFINE st == [store EXCEPT !.current = cur]
<1>1. store \in Stores /\ issued \in Nat /\ Sound(store, issued)
  BY DEF StoreInv, Sound
<1>2. /\ st \in Stores /\ st.current = cur /\ st.snapshots = store.snapshots
      /\ st.active = store.active /\ st.pins = store.pins /\ st.applied = store.applied
  BY <1>1 DEF Stores
<1> HIDE DEF st
<1>3. Anchored(st)
  BY <1>1, <1>2 DEF Sound, Anchored, Existing
<1>4. Sound(st, issued) /\ (Attributed(store) => Attributed(st))
  BY <1>1, <1>2, <1>3, ReplacedSound
<1> QED BY <1>2, <1>4 DEF st

LEMMA CurrentFacts ==
    ASSUME StoreInv
    PROVE  LET cur == store.current
           IN  /\ store \in Stores /\ issued \in Nat /\ cur \in Currents
               /\ cur.cal \in Calibrations /\ cur.source \in SourceFiles /\ cur.base \in Nat
               /\ cur.base # 0 => cur.base \in Existing(store)
               /\ SourceTrue(cur.cal, cur.source)
<1>1. store \in Stores /\ issued \in Nat /\ Anchored(store)
      /\ SourceTrue(store.current.cal, store.current.source)
  BY DEF StoreInv, Sound
<1>2. store.current \in Currents
  BY <1>1 DEF Stores
<1> QED BY <1>1, <1>2 DEF Currents, Anchored

LEMMA UpdateMoves == ASSUME StoreInv, UpdateCurrent PROVE Moves
<1> DEFINE old == store.current
<1>1. PICK cal \in Edited(old.cal) \cup {old.cal} :
         Saves([old EXCEPT !.cal = cal, !.first = FALSE,
                           !.source = Retained(old.source, cal)], FALSE, TRUE)
  BY DEF UpdateCurrent
<1> DEFINE cur == [old EXCEPT !.cal = cal, !.first = FALSE, !.source = Retained(old.source, cal)]
           st == [store EXCEPT !.current = cur]
<1>2. /\ old \in Currents /\ old.cal \in Calibrations /\ old.source \in SourceFiles
      /\ old.base # 0 => old.base \in Existing(store)
      /\ issued \in Nat
  BY CurrentFacts
<1>3. cal \in Calibrations
  BY <1>2, EditedFacts
<1>4. Retained(old.source, cal) \in SourceFiles /\ SourceTrue(cal, Retained(old.source, cal))
  BY <1>2, RetainedTrue
<1>5. /\ cur \in Currents /\ cur.cal = cal /\ cur.source = Retained(old.source, cal)
      /\ cur.base = old.base
  BY <1>2, <1>3, <1>4 DEF Currents
<1> HIDE DEF cur
<1>6. Sound(st, issued) /\ (Attributed(store) => Attributed(st))
  BY <1>2, <1>4, <1>5, CurrentReplaced
<1>7. store' = Snapshotted(st, issued + 1, FALSE, TRUE) /\ issued' = issued + 1
  BY <1>1 DEF Saves, cur
<1> HIDE DEF st
<1> QED BY <1>6, <1>7, SaveMoves

LEMMA InitializeMoves == ASSUME StoreInv, InitializeCurrent PROVE Moves
<1> DEFINE old == store.current
           cur == [old EXCEPT !.cal = InitialCalibration, !.source = NoSource, !.first = FALSE]
           st == [store EXCEPT !.current = cur]
<1>1. /\ old \in Currents /\ issued \in Nat
      /\ old.base # 0 => old.base \in Existing(store)
  BY CurrentFacts
<1>2. /\ cur \in Currents /\ cur.source = NoSource /\ cur.base = old.base
  BY <1>1, RecordTypes, SourceTypes DEF Currents
<1>3. store' = Snapshotted(st, issued + 1, FALSE, TRUE) /\ issued' = issued + 1
  BY DEF InitializeCurrent, Saves
<1> HIDE DEF cur
<1>4. SourceTrue(cur.cal, cur.source)
  BY <1>2, SourceTypes DEF SourceTrue
<1>5. Sound(st, issued) /\ (Attributed(store) => Attributed(st))
  BY <1>1, <1>2, <1>4, CurrentReplaced
<1> HIDE DEF st
<1> QED BY <1>3, <1>5, SaveMoves

LEMMA ApplyMoves == ASSUME StoreInv, NEW r \in Runs, ApplyToCurrent(r) PROVE Moves
<1> DEFINE old == store.current
<1>1. PICK selected \in SUBSET Proposal[r] :
         /\ Fresh(selected, old.cal)
         /\ LET cur == [old EXCEPT !.cal = WithCandidates(old.cal, selected), !.first = FALSE,
                                   !.source = CandidateSource(r, selected)]
                st == [store EXCEPT !.current = cur, !.applied = store.applied \cup {r}]
            IN  store' = Snapshotted(st, issued + 1, FALSE, TRUE)
  BY DEF ApplyToCurrent
<1> DEFINE cal == WithCandidates(old.cal, selected)
           source == CandidateSource(r, selected)
           cur == [old EXCEPT !.cal = cal, !.first = FALSE, !.source = source]
           one == [store EXCEPT !.current = cur]
           st == [store EXCEPT !.current = cur, !.applied = store.applied \cup {r}]
<1>2. /\ old \in Currents /\ old.cal \in Calibrations /\ store \in Stores /\ issued \in Nat
      /\ old.base # 0 => old.base \in Existing(store)
  BY CurrentFacts
<1>3. old.cal \in [Records -> Editable]
  BY <1>1, <1>2 DEF Fresh, Calibrations
<1>4. cal \in Calibrations /\ source \in SourceFiles /\ SourceTrue(cal, source)
  BY <1>3, AppliedTrue DEF Calibrations
<1>5. store' = Snapshotted(st, issued + 1, FALSE, TRUE) /\ issued' = issued + 1
  BY <1>1 DEF ApplyToCurrent
<1> HIDE DEF cal, source
<1>6. cur \in Currents /\ cur.cal = cal /\ cur.source = source /\ cur.base = old.base
  BY <1>2, <1>4 DEF Currents
<1> HIDE DEF cur
<1>7. /\ one \in Stores /\ Sound(one, issued) /\ one.current = cur
      /\ one.snapshots = store.snapshots /\ one.active = store.active
      /\ Attributed(store) => Attributed(one)
  BY <1>2, <1>4, <1>6, CurrentReplaced
<1>8. /\ st \in Stores /\ st.current = cur /\ st.snapshots = one.snapshots
      /\ st.active = one.active /\ st.pins = one.pins /\ one.applied \subseteq st.applied
  BY <1>2, <1>6 DEF Stores
<1> HIDE DEF st, one
<1>9. Anchored(st)
  BY <1>7, <1>8 DEF Sound, Anchored, Existing
<1>10. Sound(st, issued) /\ (Attributed(one) => Attributed(st))
  BY <1>2, <1>4, <1>6, <1>7, <1>8, <1>9, ReplacedSound
<1> QED BY <1>5, <1>7, <1>10, SaveMoves

LEMMA SaveSnapshotMoves == ASSUME StoreInv, SaveSnapshot PROVE Moves
<1>1. PICK keep \in BOOLEAN : Saves(store.current, keep, FALSE)
  BY DEF SaveSnapshot
<1>2. [store EXCEPT !.current = store.current] = store
  BY CurrentFacts DEF Stores
<1>3. store' = Snapshotted(store, issued + 1, keep, FALSE) /\ issued' = issued + 1
  BY <1>1, <1>2 DEF Saves
<1>4. Sound(store, issued)
  BY DEF StoreInv
<1> QED BY <1>3, <1>4, SaveMoves

LEMMA SnapshotFields ==
    ASSUME StoreInv, NEW s \in Existing(store)
    PROVE  /\ s \in Nat /\ s # 0 /\ store.snapshots[s] \in Snapshots
           /\ store.snapshots[s].cal \in Publications
  BY StoreFields DEF StoreInv, Sound, Snapshots

LEMMA RestoredFacts ==
    ASSUME StoreInv, NEW s \in Existing(store)
    PROVE  LET cur == Restored(s)
               cal == store.snapshots[s].cal
           IN  /\ cur \in Currents /\ cur.base = s /\ cur.cal = Draftified(cal)
               /\ SourceTrue(cur.cal, cur.source)
               /\ Content(cur.cal) = Content(cal)
               /\ (cur.cal # Uncalibrated /\ cal # Uncalibrated) =>
                    \A x \in Records : cur.cal[x].base = cal[x]
<1> DEFINE cal == store.snapshots[s].cal
           cur == Restored(s)
<1>1. store.current \in Currents /\ s \in Nat /\ cal \in Publications
  BY CurrentFacts, SnapshotFields
<1>2. /\ Draftified(cal) \in Calibrations
      /\ Draftified(cal) = Uncalibrated <=> cal = Uncalibrated
      /\ cal # Uncalibrated => \A x \in Records : /\ Draftified(cal)[x].value = cal[x].value
                                                  /\ Draftified(cal)[x].base = cal[x]
  BY <1>1, DraftifiedFacts
<1>3. cur \in Currents /\ cur.base = s /\ cur.cal = Draftified(cal) /\ cur.source = NoSource
  BY <1>1, <1>2, SourceTypes DEF Restored, Currents
<1> HIDE DEF cur
<1>4. SourceTrue(cur.cal, cur.source)
  BY <1>3, SourceTypes DEF SourceTrue
<1>5. Content(cur.cal) = Content(cal)
  BY <1>2, <1>3, SameContent
<1> QED BY <1>2, <1>3, <1>4, <1>5 DEF cur

LEMMA ApplySnapshotMoves ==
    ASSUME StoreInv, NEW s \in Existing(store), ApplySnapshot(s) PROVE Moves
<1> DEFINE cur == Restored(s)
           cal == store.snapshots[s].cal
<1>1. /\ cur \in Currents /\ cur.base = s /\ cur.cal = Draftified(cal)
      /\ SourceTrue(cur.cal, cur.source) /\ Content(cur.cal) = Content(cal)
      /\ (cur.cal # Uncalibrated /\ cal # Uncalibrated) =>
           \A x \in Records : cur.cal[x].base = cal[x]
  BY RestoredFacts
<1>2. store \in Stores /\ issued \in Nat /\ Sound(store, issued) /\ s \in Nat
  BY CurrentFacts, SnapshotFields DEF StoreInv
<1> DEFINE one == [store EXCEPT !.current = cur]
<1>3. ApplySnapshot(s) =>
        \/ /\ store.snapshots[s].eligible
           /\ store' = [store EXCEPT !.current = cur, !.active = s] /\ issued' = issued
        \/ store' = Snapshotted(one, issued + 1, FALSE, TRUE) /\ issued' = issued + 1
  BY DEF ApplySnapshot, Saves
<1> HIDE DEF cur
<1>4. CASE /\ store.snapshots[s].eligible
           /\ store' = [store EXCEPT !.current = cur, !.active = s] /\ issued' = issued
  <2>1. /\ store' \in Stores /\ store'.current = cur /\ store'.active = s
        /\ store'.snapshots = store.snapshots /\ store'.pins = store.pins
        /\ store'.applied = store.applied
    BY <1>1, <1>2, <1>4 DEF Stores
  <2>2. Anchored(store')
    BY <1>1, <1>2, <1>4, <2>1 DEF Sound, Anchored, Existing
  <2>3. Sound(store', issued) /\ (Attributed(store) => Attributed(store'))
    BY <1>1, <1>2, <2>1, <2>2, ReplacedSound
  <2>4. Based(store')
    BY <1>1, <2>1 DEF Based
  <2>5. Effective
    BY <1>1, <2>1 DEF Effective
  <2> QED BY <1>2, <1>4, <2>3, <2>4, <2>5 DEF Moves, StoreInv
<1>5. CASE store' = Snapshotted(one, issued + 1, FALSE, TRUE) /\ issued' = issued + 1
  <2>1. Sound(one, issued) /\ (Attributed(store) => Attributed(one))
    BY <1>1, CurrentReplaced
  <2> HIDE DEF one
  <2> QED BY <1>5, <2>1, SaveMoves
<1> QED BY <1>3, <1>4, <1>5

(* What leaves the current configuration alone is trivially in effect. *)
LEMMA ReferenceMoves ==
    ASSUME StoreInv, store' \in Stores, issued' = issued, store'.current = store.current,
           store'.snapshots = store.snapshots, store'.applied = store.applied, Anchored(store')
    PROVE  Moves
<1>1. Sound(store', issued) /\ (Attributed(store) => Attributed(store'))
  <2>1. Sound(store, issued) /\ issued \in Nat
        /\ SourceTrue(store'.current.cal, store'.current.source)
    BY DEF StoreInv, Sound
  <2> QED BY <2>1, ReplacedSound
<1>2. Based(store')
  BY DEF StoreInv, Based
<1> QED BY <1>1, <1>2 DEF Moves, StoreInv, Effective

LEMMA SetActiveMoves ==
    ASSUME StoreInv, NEW s \in Existing(store), SetActive(s) PROVE Moves
<1>1. /\ store \in Stores /\ s \in Nat /\ store.snapshots[s].eligible /\ issued' = issued
      /\ store' = [store EXCEPT !.active = s] /\ Anchored(store)
  BY CurrentFacts, SnapshotFields DEF SetActive, StoreInv, Sound
<1>2. /\ store' \in Stores /\ store'.current = store.current /\ store'.active = s
      /\ store'.snapshots = store.snapshots /\ store'.pins = store.pins
      /\ store'.applied = store.applied
  BY <1>1 DEF Stores
<1>3. Anchored(store')
  BY <1>1, <1>2 DEF Anchored, Existing
<1> QED BY <1>1, <1>2, <1>3, ReferenceMoves

LEMMA SetKeepMoves ==
    ASSUME StoreInv, NEW s \in Existing(store), SetKeep(s) PROVE Moves
<1>1. PICK pins \in {store.pins \cup {s}, store.pins \ {s}} : store' = [store EXCEPT !.pins = pins]
  BY DEF SetKeep
<1>2. store \in Stores /\ s \in Nat /\ issued' = issued /\ Anchored(store)
  BY CurrentFacts, SnapshotFields DEF SetKeep, StoreInv, Sound
<1>3. pins \in SUBSET Nat
  BY <1>2, StoreFields
<1>4. /\ store' \in Stores /\ store'.current = store.current /\ store'.pins = pins
      /\ store'.snapshots = store.snapshots /\ store'.active = store.active
      /\ store'.applied = store.applied
  BY <1>1, <1>2, <1>3 DEF Stores
<1>5. Anchored(store')
  BY <1>2, <1>4 DEF Anchored, Existing
<1> QED BY <1>2, <1>4, <1>5, ReferenceMoves

LEMMA DeleteMoves ==
    ASSUME StoreInv, NEW s \in Existing(store), DeleteSnapshot(s) PROVE Moves
<1>1. issued \in Nat /\ Sound(store, issued) /\ issued' = issued
      /\ store' = Removed(store, {s})
  BY CurrentFacts DEF StoreInv, DeleteSnapshot
<1>2. Safe(store, {s})
  BY DEF Safe, DeleteSnapshot, Referenced
<1>3. LET re == Removed(store, {s})
      IN  /\ Sound(re, issued)
          /\ Based(store) => Based(re)
          /\ Attributed(store) => Attributed(re)
          /\ re.current = store.current
  BY <1>1, <1>2, RemovedSound
<1> QED BY <1>1, <1>3 DEF Moves, StoreInv, Effective

LEMMA ImportMoves ==
    ASSUME StoreInv, DraftTypes, NEW d \in Drafts, Import(d) PROVE Moves
<1> DEFINE cal == draft[d].payload.cal
           cur == [NoCurrent EXCEPT !.made = TRUE, !.cal = cal]
           st == [store EXCEPT !.current = cur]
<1>1. cal \in Calibrations
  BY DEF DraftTypes, Directories, Payloads
<1>2. NoCurrent \in Currents /\ NoCurrent.base = 0 /\ NoCurrent.source = Absent
  BY SourceTypes DEF NoCurrent, Currents, Calibrations
<1>3. cur \in Currents /\ cur.base = 0 /\ cur.source = Absent
  BY <1>1, <1>2 DEF Currents
<1>4. store' = st /\ issued' = issued /\ ~ store.current.made
  BY DEF Import
<1> HIDE DEF cur
<1>5. SourceTrue(cur.cal, cur.source)
  BY <1>3, SourceTypes DEF SourceTrue
<1>6. Sound(st, issued) /\ st.current = cur /\ (Attributed(store) => Attributed(st))
  BY <1>3, <1>5, CurrentReplaced
<1> HIDE DEF st
<1>7. Based(st)
  BY <1>3, <1>6 DEF Based
<1> QED BY <1>4, <1>6, <1>7, CurrentFacts DEF Moves, StoreInv, Effective

-----------------------------------------------------------------------------
(* The publication of a draft. *)

(* _ensure_current_configuration finds a snapshot: the active one, or the newest. *)
LEMMA CurrentOfFacts ==
    ASSUME NEW st, NEW n \in Nat, Sound(st, n), n \in Existing(st)
    PROVE  LET m == IF st.active # 0 THEN st.active ELSE Max(Existing(st))
               cur == CurrentOf(st)
           IN  /\ m \in Existing(st) /\ cur \in Currents /\ cur.base = m /\ cur.source = Absent
               /\ cur.cal = Draftified(st.snapshots[m].cal)
               /\ Content(cur.cal) = Content(st.snapshots[m].cal)
               /\ (cur.cal # Uncalibrated /\ st.snapshots[m].cal # Uncalibrated) =>
                    \A x \in Records : cur.cal[x].base = st.snapshots[m].cal[x]
<1> DEFINE m == IF st.active # 0 THEN st.active ELSE Max(Existing(st))
           cal == st.snapshots[m].cal
           cur == CurrentOf(st)
<1>1. Existing(st) \subseteq 1..n /\ st.snapshots \in [Existing(st) -> Snapshots] /\ Anchored(st)
  BY StoreFields DEF Sound
<1>2. Max(Existing(st)) \in Existing(st)
  <2>1. \A y \in Existing(st) : n >= y
    BY <1>1
  <2> QED BY <2>1 DEF Max
<1>3. m \in Existing(st) /\ m \in Nat
  BY <1>1, <1>2 DEF Anchored
<1>4. cal \in Publications
  BY <1>1, <1>3 DEF Snapshots
<1>5. cur = [made |-> TRUE, cal |-> Draftified(cal), base |-> m, source |-> Absent,
             first |-> TRUE]
  BY DEF CurrentOf
<1> HIDE DEF cur, m
<1>6. /\ Draftified(cal) \in Calibrations
      /\ Draftified(cal) = Uncalibrated <=> cal = Uncalibrated
      /\ cal # Uncalibrated => \A x \in Records : /\ Draftified(cal)[x].value = cal[x].value
                                                  /\ Draftified(cal)[x].base = cal[x]
  BY <1>4, DraftifiedFacts
<1>7. cur \in Currents
  BY <1>3, <1>5, <1>6, SourceTypes DEF Currents
<1>8. Content(Draftified(cal)) = Content(cal)
  BY <1>6, SameContent
<1>9. /\ cur.base = m /\ cur.source = Absent /\ cur.cal = Draftified(cal)
      /\ Content(cur.cal) = Content(cal)
      /\ cal # Uncalibrated => \A x \in Records : cur.cal[x].base = cal[x]
  BY <1>5, <1>6, <1>8
<1> QED BY <1>3, <1>7, <1>9 DEF cur, m

LEMMA WithDraftMoves ==
    ASSUME StoreInv, NEW e \in Editors, work[e].payload \in Payloads,
           work[e].source \in SourceFiles, NEW keep \in BOOLEAN,
           store' = WithDraft(e, issued + 1, keep), issued' = issued + 1
    PROVE  /\ StoreInv' /\ Effective
           /\ (Attributed(store) /\ SourceTrue(work[e].payload.cal, work[e].source)) =>
                Attributed(store')
<1> DEFINE n == issued + 1
           p == work[e].payload
           source == IF work[e].source.run \in Runs THEN work[e].source ELSE NoSource
           cal == PublishDraftCalibration(p.cal, source)
           new == [parent |-> p.parent, source |-> source, cal |-> cal,
                   eligible |-> ~ p.requalify]
           made == Added(store, n, new)
           pins == IF keep THEN made.pins \cup {n} ELSE made.pins
           mid == [made EXCEPT !.pins = pins]
           kept == Pruned(mid, p.parent)
           anew == [kept EXCEPT !.current = CurrentOf(kept)]
<1>1. issued \in Nat /\ Sound(store, issued) /\ Based(store) /\ n \in Nat
  BY DEF StoreInv
<1>2. /\ p.cal \in Calibrations /\ p.parent \in Nat /\ p.requalify \in BOOLEAN
      /\ source \in SourceFiles /\ source.run \in Runs \cup {Manual}
  BY SourceTypes DEF Payloads, NoSource
<1>3. SourceTrue(p.cal, work[e].source) => SourceTrue(p.cal, source)
  BY SourceTypes DEF SourceTrue
<1>4. store' = IF kept.current.base = 0 /\ kept.current.first THEN anew ELSE kept
  BY DEF WithDraft
<1> HIDE DEF source
<1>5. /\ cal \in Publications
      /\ cal = Uncalibrated <=> p.cal = Uncalibrated
      /\ p.cal # Uncalibrated =>
           \A x \in Records : cal[x].value = p.cal[x].value /\ cal[x].run = RunOf(source, x)
  <2>1. Uncalibrated \in Publications
    BY DEF Publications
  <2>2. LET pc2 == PublishCalibration(p.cal, Uncalibrated, source)
        IN  /\ pc2 \in Publications
            /\ pc2 = Uncalibrated <=> p.cal = Uncalibrated
            /\ p.cal # Uncalibrated =>
                 \A x \in Records :
                     /\ pc2[x].value = p.cal[x].value
                     /\ \/ Uncalibrated # Uncalibrated /\ pc2[x] = Uncalibrated[x]
                        \/ pc2[x].run = RunOf(source, x)
    BY <2>1, <1>2, PublishFacts
  <2> QED BY <2>2 DEF PublishDraftCalibration
<1> HIDE DEF cal
<1>6. new \in Snapshots
  BY <1>2, <1>5 DEF Snapshots
<1>7. new.cal # Uncalibrated => \A x \in Records : new.cal[x].run \in {Manual, new.source.run}
  BY <1>5 DEF RunOf
<1>8. new.cal = cal
  OBVIOUS
<1> HIDE DEF new
<1>9. /\ Sound(made, n) /\ Based(made)
      /\ made.current = store.current /\ made.active = store.active /\ made.pins = store.pins
      /\ made.applied = store.applied
      /\ Existing(made) = Existing(store) \cup {n} /\ made.snapshots[n] = new
      /\ \A s \in Existing(store) : made.snapshots[s] = store.snapshots[s]
  BY <1>1, <1>6, <1>7, AddedSound
<1> HIDE DEF made
<1>10. /\ mid \in Stores /\ mid.current = made.current /\ mid.active = made.active
       /\ mid.pins = pins /\ mid.applied = made.applied /\ mid.snapshots = made.snapshots
  <2>1. made \in Stores
    BY <1>9 DEF Sound
  <2>2. pins \in SUBSET Nat
    BY <1>1, <2>1, StoreFields
  <2> HIDE DEF pins
  <2> QED BY <2>1, <2>2 DEF Stores
<1>11. Existing(mid) = Existing(made)
  BY <1>10 DEF Existing
<1> HIDE DEF mid
<1>12. Anchored(mid)
  BY <1>9, <1>10, <1>11 DEF Sound, Anchored
<1>13. Sound(mid, n) /\ (Attributed(made) => Attributed(mid))
  <2>1. SourceTrue(mid.current.cal, mid.current.source)
    BY <1>9, <1>10 DEF Sound
  <2> QED BY <2>1, <1>1, <1>9, <1>10, <1>12, ReplacedSound
<1>14. Based(mid)
  BY <1>9, <1>10 DEF Based
<1>15. /\ Sound(kept, n) /\ Based(kept) /\ (Attributed(mid) => Attributed(kept))
       /\ kept.current = mid.current /\ kept.active = mid.active /\ n \in Existing(kept)
       /\ Existing(kept) \subseteq Existing(mid)
  <2>1. LET re == Pruned(mid, p.parent)
        IN  /\ Sound(re, n)
            /\ Based(mid) => Based(re)
            /\ Attributed(mid) => Attributed(re)
            /\ re.current = mid.current /\ re.active = mid.active
            /\ Existing(re) \subseteq Existing(mid)
            /\ n \in Existing(mid) => n \in Existing(re)
    <3> HIDE DEF n
    <3> QED BY <1>1, <1>13, PrunedSound
  <2> QED BY <2>1, <1>9, <1>11, <1>14
<1> HIDE DEF kept
<1>16. Attributed(store) /\ SourceTrue(p.cal, work[e].source) => Attributed(made)
  <2> SUFFICES ASSUME Attributed(store), SourceTrue(p.cal, source), NEW s \in Existing(made),
                      made.snapshots[s].cal # Uncalibrated, NEW x \in Records,
                      made.snapshots[s].cal[x].run # Manual
               PROVE  Proposed(made.snapshots[s].cal[x].run, x, made.snapshots[s].cal[x].value)
    BY <1>3 DEF Attributed
  <2>1. CASE s \in Existing(store)
    BY <2>1, <1>9 DEF Attributed
  <2>2. CASE s = n
    <3>1. made.snapshots[s].cal = cal /\ p.cal # Uncalibrated
      BY <2>2, <1>5, <1>8, <1>9
    <3>2. cal[x].value = p.cal[x].value /\ cal[x].run = RunOf(source, x)
      BY <3>1, <1>5
    <3>3. source.run \in Runs /\ x \in source.of /\ cal[x].run = source.run
      BY <3>1, <3>2 DEF RunOf
    <3> QED BY <3>1, <3>2, <3>3 DEF SourceTrue
  <2> QED BY <2>1, <2>2, <1>9
<1>17. CASE ~ (kept.current.base = 0 /\ kept.current.first)
  <2>1. store' = kept
    BY <1>4, <1>17
  <2>2. Effective
    BY <2>1, <1>9, <1>10, <1>15 DEF Effective
  <2> QED BY <2>1, <2>2, <1>1, <1>13, <1>15, <1>16 DEF StoreInv
<1>18. CASE kept.current.base = 0 /\ kept.current.first
  <2> DEFINE m == IF kept.active # 0 THEN kept.active ELSE Max(Existing(kept))
             cur == CurrentOf(kept)
  <2>1. /\ m \in Existing(kept) /\ cur \in Currents /\ cur.base = m /\ cur.source = Absent
        /\ Content(cur.cal) = Content(kept.snapshots[m].cal)
        /\ (cur.cal # Uncalibrated /\ kept.snapshots[m].cal # Uncalibrated) =>
             \A x \in Records : cur.cal[x].base = kept.snapshots[m].cal[x]
    <3> HIDE DEF n
    <3> QED BY <1>1, <1>15, CurrentOfFacts
  <2>2. kept.active # 0 => m = kept.active
    OBVIOUS
  <2>3. store' = anew
    BY <1>4, <1>18
  <2> HIDE DEF cur, m
  <2>4. /\ anew \in Stores /\ anew.current = cur /\ anew.snapshots = kept.snapshots
        /\ anew.active = kept.active /\ anew.pins = kept.pins /\ anew.applied = kept.applied
    BY <2>1, <1>15 DEF Sound, Stores, cur
  <2>5. Existing(anew) = Existing(kept)
    BY <2>4 DEF Existing
  <2> HIDE DEF anew
  <2>6. Anchored(anew)
    BY <2>1, <2>4, <2>5, <1>15 DEF Sound, Anchored
  <2>7. SourceTrue(anew.current.cal, anew.current.source)
    BY <2>1, <2>4, SourceTypes DEF SourceTrue
  <2>8. Sound(anew, n) /\ (Attributed(kept) => Attributed(anew))
    BY <1>1, <1>15, <2>4, <2>6, <2>7, ReplacedSound
  <2>9. Based(anew)
    BY <2>1, <2>4 DEF Based
  <2>10. Effective
    <3>1. store.current.base = 0
      BY <1>9, <1>10, <1>15, <1>18
    <3>2. anew.active # 0 => Content(anew.snapshots[anew.active].cal) = Content(anew.current.cal)
      BY <2>1, <2>2, <2>4
    <3> QED BY <2>3, <3>1, <3>2 DEF Effective
  <2> QED BY <2>3, <2>8, <2>9, <2>10, <1>1, <1>13, <1>15, <1>16 DEF StoreInv
<1> QED BY <1>17, <1>18

-----------------------------------------------------------------------------
(* The drafts. *)
Alone(e, d) == \A f \in Editors \ {e} : ~ (pc[f] = "source" /\ work[f].of = d)

(* A step of an editor in the middle of an operation: `new` is the directory after it. *)
LEMMA GotoKeeps ==
    ASSUME DraftInv, NEW e \in Editors, pc[e] # "idle", NEW phase \in Phases, Goto(e, phase),
           NEW new \in Directories, draft' = [draft EXCEPT ![work[e].of] = new], new.used,
           overlapped \subseteq overlapped', overlapped' \subseteq Drafts,
           phase # "idle" => Suits(phase, work[e].kind),
           overlapped' = {} =>
             /\ phase # "idle" => Fits(phase, work[e], new)
             /\ \A f \in Editors \ {e} :
                  (pc[f] # "idle" /\ work[f].of = work[e].of) => Fits(pc[f], work[f], new)
             /\ (new.written /\ phase # "source" /\ Alone(e, work[e].of)) =>
                  SourceTrue(new.payload.cal, new.source)
    PROVE  DraftInv'
<1> DEFINE d == work[e].of
<1>1. /\ draft \in [Drafts -> Directories] /\ pc \in [Editors -> Phases]
      /\ work \in [Editors -> Works] /\ overlapped \subseteq Drafts
  BY DEF DraftInv, DraftTypes
<1>2. d \in Drafts /\ draft[d].used
  BY DEF DraftInv, WorkOK
<1>3. NoWork \in Works
  BY SourceTypes DEF NoWork, Works, NoPayload, Payloads, Calibrations
<1>4. pc' = [pc EXCEPT ![e] = phase]
      /\ work' = IF phase = "idle" THEN [work EXCEPT ![e] = NoWork] ELSE work
  BY DEF Goto
<1> HIDE DEF d
<1>5. DraftTypes'
  BY <1>1, <1>2, <1>3, <1>4 DEF DraftTypes, d
<1>6. /\ pc'[e] = phase /\ (phase # "idle" => work'[e] = work[e])
      /\ \A f \in Editors \ {e} : pc'[f] = pc[f] /\ work'[f] = work[f]
      /\ draft'[d] = new /\ \A g \in Drafts \ {d} : draft'[g] = draft[g]
  BY <1>1, <1>2, <1>4 DEF d
<1>7. ASSUME NEW f \in Editors PROVE WorkOK(f)'
  <2>1. CASE f = e
    BY <2>1, <1>2, <1>6 DEF WorkOK, d
  <2>2. CASE f # e
    BY <2>2, <1>2, <1>6 DEF WorkOK, DraftInv
  <2> QED BY <2>1, <2>2
<1>8. ASSUME NEW f \in Editors, overlapped' = {} PROVE WriterOK(f)'
  <2>1. overlapped = {}
    BY <1>8
  <2>2. WriterOK(f)' = Fits(pc'[f], work'[f], draft'[work'[f].of])
    BY DEF WriterOK
  <2>3. CASE f = e /\ phase # "idle"
    BY <2>2, <2>3, <1>6, <1>8 DEF d
  <2>4. CASE pc'[f] = "idle"
    BY <2>2, <2>4 DEF Fits
  <2>5. CASE f # e /\ pc'[f] # "idle"
    <3>1. pc[f] # "idle" /\ work[f].of \in Drafts /\ WriterOK(f)
      BY <2>1, <2>5, <1>6 DEF DraftInv, WorkOK
    <3>2. CASE work[f].of = d
      BY <2>2, <2>5, <3>1, <3>2, <1>6, <1>8 DEF d
    <3>3. CASE work[f].of # d
      BY <2>2, <2>5, <3>1, <3>3, <1>6 DEF WriterOK
    <3> QED BY <3>2, <3>3
  <2> QED BY <2>3, <2>4, <2>5, <1>6
<1>9. ASSUME NEW g \in Drafts PROVE DraftOK(g)'
  <2>1. DraftOK(g) /\ \A f \in Editors : WorkOK(f)
    BY DEF DraftInv
  <2>2. Writers(g)' \subseteq Writers(g)
    BY <1>4, <1>6 DEF Writers
  <2>3. ~ draft'[g].used => ~ draft'[g].written /\ draft'[g].source = Absent /\ Writers(g)' = {}
    BY <2>1, <2>2, <1>6 DEF DraftOK
  <2>4. ASSUME overlapped' = {} PROVE \A a, b \in Writers(g)' : a = b
    <3>1. overlapped = {}
      BY <2>4
    <3> QED BY <3>1, <2>1, <2>2 DEF DraftOK
  <2>5. ASSUME overlapped' = {}, draft'[g].written, ~ Applying(g)'
        PROVE  SourceTrue(draft'[g].payload.cal, draft'[g].source)
    <3>1. overlapped = {}
      BY <2>5
    <3>2. \A f \in Editors : ~ (pc'[f] = "source" /\ work'[f].of = g)
      BY <2>5 DEF Applying
    <3>3. Alone(e, g)
      BY <3>2, <1>6 DEF Alone
    <3>4. CASE g = d
      <4>1. phase # "source"
        BY <3>2, <3>4, <1>6 DEF d
      <4> QED BY <4>1, <3>3, <3>4, <2>5, <1>6 DEF d
    <3>5. CASE g # d
      <4>1. ~ Applying(g)
        BY <3>3, <3>5 DEF Alone, Applying, d
      <4> QED BY <4>1, <3>1, <3>5, <2>1, <2>5, <1>6 DEF DraftOK
    <3> QED BY <3>4, <3>5
  <2>6. DraftOK(g)' = /\ (~ draft'[g].used) =>
                           ~ draft'[g].written /\ draft'[g].source = Absent /\ Writers(g)' = {}
                      /\ overlapped' = {} =>
                           /\ \A a, b \in Writers(g)' : a = b
                           /\ draft'[g].written /\ ~ Applying(g)' =>
                                SourceTrue(draft'[g].payload.cal, draft'[g].source)
    BY DEF DraftOK
  <2> QED BY <2>3, <2>4, <2>5, <2>6
<1> QED BY <1>5, <1>7, <1>8, <1>9 DEF DraftInv

(* An editor begins an operation; the directory may be made, its files stay. *)
LEMMA BeginKeeps ==
    ASSUME DraftInv, NEW e \in Editors, NEW d \in Drafts, NEW kind, NEW payload \in Payloads,
           NEW source \in SourceFiles, NEW phase \in Phases \ {"idle", "source"},
           Begin(e, d, kind, payload, source, phase),
           kind \in Writing \cup {"delete", "publish"}, Suits(phase, kind),
           NEW new \in Directories, draft' = [draft EXCEPT ![d] = new], new.used,
           new.written = draft[d].written, new.source = draft[d].source,
           new.payload = draft[d].payload,
           overlapped' = {} => Fits(phase, work'[e], draft[d])
    PROVE  DraftInv'
<1> DEFINE w == [of |-> d, kind |-> kind, payload |-> payload, source |-> source,
                 checkpoints |-> draft[d].checkpoints]
<1>1. /\ draft \in [Drafts -> Directories] /\ pc \in [Editors -> Phases]
      /\ work \in [Editors -> Works] /\ overlapped \subseteq Drafts
  BY DEF DraftInv, DraftTypes
<1>2. w \in Works
  BY <1>1 DEF Works, Directories
<1>3. /\ pc[e] = "idle" /\ pc' = [pc EXCEPT ![e] = phase] /\ work' = [work EXCEPT ![e] = w]
      /\ overlapped' = IF kind \in Writing /\ Writers(d) # {} THEN overlapped \cup {d}
                       ELSE overlapped
  BY DEF Begin
<1>4. work'[e].of = d /\ work'[e].kind = kind
  BY <1>1, <1>3
<1> HIDE DEF w
<1>5. DraftTypes'
  BY <1>1, <1>2, <1>3 DEF DraftTypes
<1>6. /\ pc'[e] = phase
      /\ \A f \in Editors \ {e} : pc'[f] = pc[f] /\ work'[f] = work[f]
      /\ draft'[d] = new /\ \A g \in Drafts \ {d} : draft'[g] = draft[g]
  BY <1>1, <1>3
<1>7. ASSUME NEW f \in Editors PROVE WorkOK(f)'
  <2>1. CASE f = e
    BY <2>1, <1>4, <1>6 DEF WorkOK
  <2>2. CASE f # e
    BY <2>2, <1>6 DEF WorkOK, DraftInv
  <2> QED BY <2>1, <2>2
<1>8. overlapped' = {} => overlapped = {} /\ (kind \in Writing => Writers(d) = {})
  BY <1>3
<1>9. \A at, x : Fits(at, x, draft[d]) => Fits(at, x, new)
  BY DEF Fits
<1>10. ASSUME NEW f \in Editors, overlapped' = {} PROVE WriterOK(f)'
  <2>1. WriterOK(f)' = Fits(pc'[f], work'[f], draft'[work'[f].of])
    BY DEF WriterOK
  <2>2. CASE f = e
    BY <2>1, <2>2, <1>4, <1>6, <1>9, <1>10
  <2>3. CASE f # e /\ pc'[f] = "idle"
    BY <2>1, <2>3 DEF Fits
  <2>4. CASE f # e /\ pc'[f] # "idle"
    <3>1. work[f].of \in Drafts /\ Fits(pc[f], work[f], draft[work[f].of])
      BY <2>4, <1>6, <1>8, <1>10 DEF DraftInv, WorkOK, WriterOK
    <3> QED BY <2>1, <2>4, <3>1, <1>6, <1>9
  <2> QED BY <2>2, <2>3, <2>4
<1>11. ASSUME NEW g \in Drafts PROVE DraftOK(g)'
  <2>1. DraftOK(g)
    BY DEF DraftInv
  <2>2. Writers(g)' \subseteq Writers(g) \cup {e} /\ (g # d => e \notin Writers(g)')
        /\ (kind \notin Writing => e \notin Writers(g)')
    BY <1>4, <1>6 DEF Writers
  <2>3. ~ draft'[g].used => ~ draft'[g].written /\ draft'[g].source = Absent /\ Writers(g)' = {}
    BY <2>1, <2>2, <1>6 DEF DraftOK
  <2>4. ASSUME overlapped' = {} PROVE \A a, b \in Writers(g)' : a = b
    BY <2>1, <2>2, <2>4, <1>8 DEF DraftOK
  <2>5. ASSUME overlapped' = {}, draft'[g].written, ~ Applying(g)'
        PROVE  SourceTrue(draft'[g].payload.cal, draft'[g].source)
    <3>1. ~ Applying(g)
      BY <2>5, <1>3, <1>6 DEF Applying
    <3>2. /\ draft'[g].written = draft[g].written /\ draft'[g].source = draft[g].source
          /\ draft'[g].payload = draft[g].payload
      BY <1>6
    <3> QED BY <3>1, <3>2, <2>1, <2>5, <1>8 DEF DraftOK
  <2>6. DraftOK(g)' = /\ (~ draft'[g].used) =>
                           ~ draft'[g].written /\ draft'[g].source = Absent /\ Writers(g)' = {}
                      /\ overlapped' = {} =>
                           /\ \A a, b \in Writers(g)' : a = b
                           /\ draft'[g].written /\ ~ Applying(g)' =>
                                SourceTrue(draft'[g].payload.cal, draft'[g].source)
    BY DEF DraftOK
  <2> QED BY <2>3, <2>4, <2>5, <2>6
<1> QED BY <1>5, <1>7, <1>10, <1>11 DEF DraftInv

(* What is known of a directory; a draft nobody writes is true of its source. *)
LEMMA DraftFacts ==
    ASSUME DraftInv, NEW d \in Drafts
    PROVE  /\ draft[d] \in Directories /\ draft[d].payload \in Payloads
           /\ draft[d].payload.cal \in Calibrations /\ draft[d].payload.number \in Nat
           /\ draft[d].source \in SourceFiles
           /\ draft[d].written => draft[d].used
           /\ (overlapped = {} /\ draft[d].written /\ Writers(d) = {}) =>
                SourceTrue(draft[d].payload.cal, draft[d].source)
<1>1. draft[d] \in Directories /\ DraftOK(d)
  BY DEF DraftInv, DraftTypes
<1>2. ASSUME Applying(d) PROVE Writers(d) # {}
  <2>1. PICK f \in Editors : pc[f] = "source" /\ work[f].of = d
    BY <1>2 DEF Applying
  <2>2. work[f].kind = "apply"
    BY <2>1 DEF DraftInv, WorkOK, Suits
  <2> QED BY <2>1, <2>2 DEF Writers, Writing
<1> QED BY <1>1, <1>2 DEF DraftOK, Directories, Payloads

(* An editor begins an operation on a draft it loads. *)
LEMMA LoadKeeps ==
    ASSUME DraftInv, NEW e \in Editors, NEW d \in Drafts, draft[d].written, draft' = draft,
           NEW kind \in Writing \cup {"delete", "publish"}, NEW payload \in Payloads,
           NEW source \in SourceFiles, NEW phase \in Phases \ {"idle", "source"},
           Begin(e, d, kind, payload, source, phase), Suits(phase, kind),
           ASSUME NEW w, w.kind = kind, w.payload = payload, w.source = source,
                  overlapped = {}, kind \in Writing => Writers(d) = {}
           PROVE  Fits(phase, w, draft[d])
    PROVE  DraftInv'
<1> DEFINE w == [of |-> d, kind |-> kind, payload |-> payload, source |-> source,
                 checkpoints |-> draft[d].checkpoints]
<1>1. draft[d] \in Directories /\ draft[d].used
  BY DraftFacts
<1>2. draft' = [draft EXCEPT ![d] = draft[d]]
  BY DEF DraftInv, DraftTypes
<1>3. work'[e] = w
  BY DEF Begin, DraftInv, DraftTypes
<1>4. overlapped' = {} => overlapped = {} /\ (kind \in Writing => Writers(d) = {})
  BY DEF Begin
<1>5. w.kind = kind /\ w.payload = payload /\ w.source = source
  OBVIOUS
<1> HIDE DEF w
<1>6. overlapped' = {} => Fits(phase, work'[e], draft[d])
  BY <1>3, <1>4, <1>5
<1> QED BY <1>1, <1>2, <1>6, BeginKeeps

LEMMA CreateKeeps ==
    ASSUME StoreInv, DraftInv, NEW e \in Editors, NEW d \in Drafts, CreateDraft(e, d)
    PROVE  DraftInv'
<1>1. PICK s \in Existing(store) \cup {0} :
        Begin(e, d, "create",
              IF s = 0 THEN NoPayload
              ELSE [NoPayload EXCEPT !.cal = Draftified(store.snapshots[s].cal), !.parent = s],
              Absent, "write")
  BY DEF CreateDraft
<1> DEFINE payload == IF s = 0 THEN NoPayload
                      ELSE [NoPayload EXCEPT !.cal = Draftified(store.snapshots[s].cal),
                                             !.parent = s]
           new == [draft[d] EXCEPT !.made = TRUE, !.used = TRUE]
<1>2. payload \in Payloads
  <2>1. NoPayload \in Payloads
    BY DEF NoPayload, Payloads, Calibrations
  <2>2. CASE s = 0
    BY <2>1, <2>2
  <2>3. CASE s # 0
    BY <2>1, <2>3, SnapshotFields, DraftifiedFacts DEF Payloads
  <2> QED BY <2>2, <2>3
<1>3. draft[d] \in Directories /\ ~ draft[d].written /\ draft[d].source = Absent
  BY DraftFacts DEF DraftInv, DraftOK, CreateDraft
<1>4. /\ new \in Directories /\ new.used /\ new.written = draft[d].written
      /\ new.source = draft[d].source /\ new.payload = draft[d].payload
  BY <1>3 DEF Directories
<1>5. draft' = [draft EXCEPT ![d] = new]
  BY <1>3 DEF CreateDraft, DraftInv, DraftTypes
<1>6. work'[e].kind = "create"
  BY <1>1 DEF Begin, DraftInv, DraftTypes
<1>7. Fits("write", work'[e], draft[d])
  BY <1>3, <1>6 DEF Fits
<1>8. Suits("write", "create")
  BY DEF Suits, Writing
<1>9. Begin(e, d, "create", payload, Absent, "write")
  BY <1>1
<1>10. "write" \in Phases \ {"idle", "source"} /\ "create" \in Writing
  BY DEF Phases, Writing
<1> HIDE DEF payload, new
<1> QED BY <1>2, <1>4, <1>5, <1>7, <1>8, <1>9, <1>10, SourceTypes, BeginKeeps

LEMMA RevisedFacts ==
    ASSUME NEW payload \in Payloads
    PROVE  /\ Revised(payload) \in Payloads
           /\ Revised(payload).cal = payload.cal /\ ~ Revised(payload).valid
<1> DEFINE next == [payload EXCEPT !.number = @ + 1]
<1>1. next \in Payloads /\ next.cal = payload.cal
  BY DEF Payloads
<1>2. Revised(payload) = [next EXCEPT !.valid = FALSE]
  BY DEF Revised
<1> HIDE DEF next
<1> QED BY <1>1, <1>2 DEF Payloads

LEMMA UpdateKeeps ==
    ASSUME DraftInv, NEW e \in Editors, NEW d \in Drafts, UpdateDraft(e, d)
    PROVE  DraftInv'
<1> DEFINE phase == IF draft[d].source = Absent THEN "write" ELSE "retain"
           p == draft[d].payload
<1>1. PICK edited \in {[p EXCEPT !.cal = cal] : cal \in Edited(p.cal)}
                        \cup {[p EXCEPT !.requalify = ~ @]} :
        Begin(e, d, "update", Revised(edited), Absent, phase)
  BY DEF UpdateDraft
<1>2. p \in Payloads /\ p.cal \in Calibrations
  BY DraftFacts
<1> HIDE DEF p
<1>3. edited \in Payloads
  <2>1. \A cal \in Edited(p.cal) : cal \in Calibrations
    BY <1>2, EditedFacts
  <2> QED BY <1>1, <1>2, <2>1 DEF Payloads
<1>4. Suits(phase, "update")
  BY DEF Suits, Writing
<1>5. ASSUME NEW w, w.kind = "update" PROVE Fits(phase, w, draft[d])
  BY <1>5, SourceTypes DEF Fits, SourceTrue
<1>6. draft[d].written /\ draft' = draft
  BY DEF UpdateDraft, Loadable
<1>7. phase \in Phases \ {"idle", "source"} /\ "update" \in Writing
  BY DEF Phases, Writing
<1>8. Revised(edited) \in Payloads
  BY <1>3, RevisedFacts
<1> HIDE DEF phase
<1> QED BY <1>1, <1>4, <1>5, <1>6, <1>7, <1>8, SourceTypes, LoadKeeps

LEMMA ApplyKeeps ==
    ASSUME DraftInv, NEW e \in Editors, NEW d \in Drafts, NEW r \in Runs, ApplyToDraft(e, d, r)
    PROVE  DraftInv'
<1> DEFINE p == draft[d].payload
           cal == IF p.cal = Uncalibrated THEN InitialCalibration ELSE p.cal
<1>1. PICK selected \in SUBSET Proposal[r] :
        Begin(e, d, "apply", Revised([p EXCEPT !.cal = WithCandidates(cal, selected)]),
              CandidateSource(r, selected), "write")
  BY DEF ApplyToDraft
<1> DEFINE with == WithCandidates(cal, selected)
           source == CandidateSource(r, selected)
           applied == [p EXCEPT !.cal = with]
<1>2. p \in Payloads /\ p.cal \in Calibrations
  BY DraftFacts
<1>3. cal \in [Records -> Editable]
  BY <1>2, RecordTypes DEF Calibrations
<1> HIDE DEF p, cal
<1>4. with \in [Records -> Editable] /\ source \in SourceFiles /\ SourceTrue(with, source)
  BY <1>3, AppliedTrue
<1> HIDE DEF with, source
<1>5. applied \in Payloads /\ applied.cal = with
  BY <1>2, <1>4 DEF Payloads, Calibrations
<1>6. /\ Revised(applied) \in Payloads /\ Revised(applied).cal = with
      /\ ~ Revised(applied).valid
  BY <1>5, RevisedFacts
<1> DEFINE payload == Revised(applied)
<1> HIDE DEF applied
<1>7. Begin(e, d, "apply", payload, source, "write")
  BY <1>1 DEF applied, with, source, p
<1>8. payload \in Payloads /\ SourceTrue(payload.cal, source) /\ ~ payload.valid
  BY <1>4, <1>6
<1> HIDE DEF payload
<1>9. Suits("write", "apply") /\ "write" \in Phases \ {"idle", "source"} /\ "apply" \in Writing
  BY DEF Suits, Phases, Writing
<1>10. ASSUME NEW w, w.kind = "apply", w.payload = payload, w.source = source
       PROVE  Fits("write", w, draft[d])
  BY <1>8, <1>10 DEF Fits
<1>11. draft[d].written /\ draft' = draft
  BY DEF ApplyToDraft, Loadable
<1> QED BY <1>4, <1>7, <1>8, <1>9, <1>10, <1>11, LoadKeeps

LEMMA InitializeKeeps ==
    ASSUME DraftInv, NEW e \in Editors, NEW d \in Drafts, InitializeDraft(e, d)
    PROVE  DraftInv'
<1> DEFINE p == draft[d].payload
           payload == Revised([p EXCEPT !.cal = InitialCalibration])
<1>1. Begin(e, d, "initialize", payload, Absent, "write") /\ p.cal = Uncalibrated
  BY DEF InitializeDraft
<1>2. p \in Payloads
  BY DraftFacts
<1>3. payload \in Payloads
  <2>1. [p EXCEPT !.cal = InitialCalibration] \in Payloads
    BY <1>2, RecordTypes DEF Payloads
  <2> QED BY <2>1, RevisedFacts
<1>4. draft[d].written /\ draft' = draft
  BY DEF InitializeDraft, Loadable
<1>5. ASSUME NEW w, w.kind = "initialize", overlapped = {}, Writers(d) = {}
      PROVE  Fits("write", w, draft[d])
  <2>1. SourceTrue(Uncalibrated, draft[d].source)
    BY <1>1, <1>4, <1>5, DraftFacts
  <2>2. \A cal : SourceTrue(cal, draft[d].source)
    BY <2>1 DEF SourceTrue
  <2> QED BY <1>5, <2>2 DEF Fits
<1>6. /\ Suits("write", "initialize") /\ "write" \in Phases \ {"idle", "source"}
      /\ "initialize" \in Writing
  BY DEF Suits, Phases, Writing
<1> HIDE DEF p, payload
<1> QED BY <1>1, <1>3, <1>4, <1>5, <1>6, SourceTypes, LoadKeeps

LEMMA ValidateKeeps ==
    ASSUME DraftInv, NEW e \in Editors, NEW d \in Drafts, ValidateDraft(e, d)
    PROVE  DraftInv'
<1> DEFINE payload == [draft[d].payload EXCEPT !.valid = TRUE]
<1>1. Begin(e, d, "validate", payload, Absent, "write")
  BY DEF ValidateDraft
<1>2. payload \in Payloads /\ payload.cal = draft[d].payload.cal
  BY DraftFacts DEF Payloads
<1>3. draft[d].written /\ draft' = draft
  BY DEF ValidateDraft, Loadable
<1>4. ASSUME NEW w, w.kind = "validate", w.payload = payload, overlapped = {}, Writers(d) = {}
      PROVE  Fits("write", w, draft[d])
  <2>1. SourceTrue(draft[d].payload.cal, draft[d].source)
    BY <1>3, <1>4, DraftFacts
  <2> HIDE DEF payload
  <2> QED BY <1>2, <1>4, <2>1 DEF Fits
<1>5. /\ Suits("write", "validate") /\ "write" \in Phases \ {"idle", "source"}
      /\ "validate" \in Writing
  BY DEF Suits, Phases, Writing
<1> HIDE DEF payload
<1> QED BY <1>1, <1>2, <1>3, <1>4, <1>5, SourceTypes, LoadKeeps

LEMMA DeleteDraftKeeps ==
    ASSUME DraftInv, NEW e \in Editors, NEW d \in Drafts, DeleteDraft(e, d)
    PROVE  DraftInv'
<1>1. Begin(e, d, "delete", draft[d].payload, draft[d].source, "drop checkpoints")
  BY DEF DeleteDraft
<1>2. draft[d].written /\ draft' = draft
  BY DEF DeleteDraft, Loadable
<1>3. ASSUME NEW w, w.kind = "delete" PROVE Fits("drop checkpoints", w, draft[d])
  BY <1>3 DEF Fits
<1>4. /\ Suits("drop checkpoints", "delete")
      /\ "drop checkpoints" \in Phases \ {"idle", "source"}
  BY DEF Suits, Phases
<1> QED BY <1>1, <1>2, <1>3, <1>4, DraftFacts, LoadKeeps

(* Between the two files of an applied candidate the payload is not valid. *)
LEMMA StartKeeps ==
    ASSUME DraftInv, NEW e \in Editors, NEW d \in Drafts, StartPublication(e, d)
    PROVE  DraftInv'
<1> DEFINE p == draft[d].payload
<1>1. Begin(e, d, "publish", p, draft[d].source, "copy payload")
  BY DEF StartPublication
<1>2. draft[d].written /\ draft' = draft
  BY DEF StartPublication, Loadable
<1>3. ASSUME overlapped = {}, p.valid PROVE SourceTrue(p.cal, draft[d].source)
  <2>1. ASSUME NEW f \in Editors, pc[f] = "source", work[f].of = d PROVE FALSE
    <3>1. WriterOK(f) /\ work[f].kind = "apply"
      BY <1>3, <2>1 DEF DraftInv, WorkOK, Suits
    <3>2. p = work[f].payload /\ ~ work[f].payload.valid
      BY <1>2, <2>1, <3>1 DEF WriterOK, Fits
    <3> QED BY <1>3, <3>2
  <2>2. ~ Applying(d)
    BY <2>1 DEF Applying
  <2> QED BY <1>2, <1>3, <2>2 DEF DraftInv, DraftOK
<1>4. ASSUME NEW w, w.kind = "publish", w.payload = p, w.source = draft[d].source,
             overlapped = {}
      PROVE  Fits("copy payload", w, draft[d])
  BY <1>3, <1>4 DEF Fits, Writing
<1>5. Suits("copy payload", "publish") /\ "copy payload" \in Phases \ {"idle", "source"}
  BY DEF Suits, Phases
<1> QED BY <1>1, <1>2, <1>4, <1>5, DraftFacts, LoadKeeps

(* The only editor that writes a draft: what the others loaded of it fits any directory. *)
LEMMA OthersFit ==
    ASSUME DraftInv, overlapped = {}, NEW e \in Editors, pc[e] # "idle",
           work[e].kind \in Writing, NEW dir
    PROVE  \A f \in Editors \ {e} :
             (pc[f] # "idle" /\ work[f].of = work[e].of) =>
                Fits(pc[f], work[f], dir) /\ pc[f] # "source"
<1> SUFFICES ASSUME NEW f \in Editors \ {e}, pc[f] # "idle", work[f].of = work[e].of
             PROVE  Fits(pc[f], work[f], dir) /\ pc[f] # "source"
  OBVIOUS
<1>1. work[e].of \in Drafts
  BY DEF DraftInv, WorkOK
<1>2. work[f].kind \notin Writing
  BY <1>1 DEF DraftInv, DraftOK, Writers
<1>3. Suits(pc[f], work[f].kind) /\ WriterOK(f)
  BY DEF DraftInv, WorkOK
<1>4. pc[f] # "source" /\ pc[f] # "write"
  BY <1>2, <1>3 DEF Suits, Writing
<1> QED BY <1>3, <1>4 DEF WriterOK, Fits

(* What an editor in the middle of an operation holds. *)
LEMMA WorkFacts ==
    ASSUME DraftInv, NEW e \in Editors, pc[e] # "idle"
    PROVE  LET d == work[e].of
           IN  /\ d \in Drafts /\ draft[d] \in Directories /\ draft[d].used
               /\ draft[d].payload \in Payloads /\ draft[d].source \in SourceFiles
               /\ work[e].payload \in Payloads /\ work[e].source \in SourceFiles
               /\ Suits(pc[e], work[e].kind)
               /\ overlapped = {} => Fits(pc[e], work[e], draft[d])
               /\ work[e].kind \in Writing \cup {"none", "delete", "publish"}
  BY DEF DraftInv, DraftTypes, WorkOK, WriterOK, Works, Directories

(* A step that leaves the files of the draft, and who it may mislead. *)
LEMMA StayKeeps ==
    ASSUME DraftInv, NEW e \in Editors, pc[e] # "idle", NEW phase \in Phases \ {"source"},
           Goto(e, phase), draft' = draft, pc[e] # "source" \/ ~ draft[work[e].of].written,
           overlapped' = overlapped, phase # "idle" => Suits(phase, work[e].kind),
           (overlapped = {} /\ phase # "idle") => Fits(phase, work[e], draft[work[e].of])
    PROVE  DraftInv'
<1> DEFINE d == work[e].of
<1>1. d \in Drafts /\ draft[d] \in Directories /\ draft[d].used
  BY WorkFacts
<1>2. draft' = [draft EXCEPT ![d] = draft[d]]
  BY DEF DraftInv, DraftTypes
<1>3. ASSUME overlapped = {}
      PROVE  /\ \A f \in Editors \ {e} :
                  (pc[f] # "idle" /\ work[f].of = d) => Fits(pc[f], work[f], draft[d])
             /\ (draft[d].written /\ Alone(e, d)) =>
                  SourceTrue(draft[d].payload.cal, draft[d].source)
  <2>1. \A f \in Editors : WriterOK(f)
    BY <1>3 DEF DraftInv
  <2>2. ASSUME draft[d].written, Alone(e, d) PROVE ~ Applying(d)
    BY <2>2 DEF Applying, Alone
  <2>3. DraftOK(d)
    BY <1>1 DEF DraftInv
  <2> QED BY <1>3, <2>1, <2>2, <2>3 DEF WriterOK, DraftOK
<1>4. overlapped \subseteq Drafts
  BY DEF DraftInv, DraftTypes
<1> QED BY <1>1, <1>2, <1>3, <1>4, GotoKeeps

LEMMA RetainKeeps ==
    ASSUME DraftInv, NEW e \in Editors, RetainSource(e) PROVE DraftInv'
<1> DEFINE d == work[e].of
           left == Retained(draft[d].source, work[e].payload.cal)
           source == IF left = NoSource THEN Emptied ELSE left
           new == [draft[d] EXCEPT !.source = source]
<1>1. pc[e] = "retain" /\ overlapped' = overlapped
  BY DEF RetainSource
<1>2. /\ d \in Drafts /\ draft[d] \in Directories /\ draft[d].used
      /\ draft[d].source \in SourceFiles /\ work[e].kind = "update"
  BY <1>1, WorkFacts DEF Suits
<1>3. CASE draft[d].written
  <2>1. draft' = [draft EXCEPT ![d].source = source] /\ Goto(e, "write")
    BY <1>3 DEF RetainSource, Loadable
  <2>2. draft' = [draft EXCEPT ![d] = new]
    BY <2>1, <1>2
  <2>3. /\ left \in SourceFiles /\ SourceTrue(work[e].payload.cal, left)
        /\ \A old : SourceTrue(old, draft[d].source) => SourceTrue(old, left)
    BY <1>2, RetainedTrue
  <2>4. /\ source \in SourceFiles /\ SourceTrue(work[e].payload.cal, source)
        /\ \A old : SourceTrue(old, draft[d].source) => SourceTrue(old, source)
    BY <2>3, SourceTypes DEF SourceTrue
  <2> HIDE DEF left, source
  <2>5. /\ new \in Directories /\ new.used /\ new.source = source
        /\ new.written = draft[d].written /\ new.payload = draft[d].payload
    BY <1>2, <2>4 DEF Directories
  <2> HIDE DEF new
  <2>6. Suits("write", work[e].kind) /\ work[e].kind \in Writing /\ "write" \in Phases
    BY <1>2 DEF Suits, Writing, Phases
  <2>7. Fits("write", work[e], new)
    BY <1>2, <2>4, <2>5 DEF Fits
  <2>8. ASSUME overlapped = {}, new.written PROVE SourceTrue(new.payload.cal, new.source)
    <3>1. ~ Applying(d)
      BY <1>1, <1>2, <2>6, <2>8, OthersFit DEF Applying, DraftInv, WorkOK
    <3>2. SourceTrue(draft[d].payload.cal, draft[d].source)
      BY <1>2, <2>5, <2>8, <3>1 DEF DraftInv, DraftOK
    <3> QED BY <2>4, <2>5, <3>2
  <2>9. overlapped \subseteq Drafts
    BY DEF DraftInv, DraftTypes
  <2>10. overlapped = {} =>
           \A f \in Editors \ {e} :
             (pc[f] # "idle" /\ work[f].of = d) => Fits(pc[f], work[f], new)
    BY <1>1, <2>6, OthersFit
  <2> QED BY <1>1, <2>1, <2>2, <2>5, <2>6, <2>7, <2>8, <2>9, <2>10, GotoKeeps
<1>4. CASE ~ draft[d].written
  <2>1. Goto(e, "idle") /\ draft' = draft
    BY <1>4 DEF RetainSource, Loadable
  <2>2. "idle" \in Phases \ {"source"}
    BY DEF Phases
  <2> QED BY <1>1, <2>1, <2>2, StayKeeps
<1> QED BY <1>3, <1>4

LEMMA WritePayloadKeeps ==
    ASSUME DraftInv, NEW e \in Editors, WritePayload(e) PROVE DraftInv'
<1> DEFINE d == work[e].of
           kind == work[e].kind
           payload == work[e].payload
           new == [draft[d] EXCEPT !.payload = payload, !.written = TRUE]
           phase == CASE kind = "apply" -> "source"
                      [] kind = "validate" -> "idle"
                      [] OTHER -> "checkpoint"
<1>1. pc[e] = "write" /\ overlapped' = overlapped
  BY DEF WritePayload
<1>2. /\ d \in Drafts /\ draft[d] \in Directories /\ draft[d].used
      /\ payload \in Payloads /\ kind \in Writing
      /\ overlapped = {} => Fits("write", work[e], draft[d])
  BY <1>1, WorkFacts DEF Suits
<1>3. CASE draft[d].written \/ kind = "create"
  <2>1. draft' = [draft EXCEPT ![d].payload = payload, ![d].written = TRUE] /\ Goto(e, phase)
    BY <1>3 DEF WritePayload, Loadable
  <2>2. draft' = [draft EXCEPT ![d] = new]
    BY <2>1, <1>2 DEF DraftInv, DraftTypes
  <2>3. /\ new \in Directories /\ new.used /\ new.written /\ new.payload = payload
        /\ new.source = draft[d].source
    <3>1. [draft[d] EXCEPT !.payload = payload] \in Directories
      BY <1>2 DEF Directories
    <3> QED BY <1>2, <3>1 DEF Directories
  <2> HIDE DEF new
  <2>4. /\ phase \in {"source", "idle", "checkpoint"} /\ phase \in Phases
        /\ phase = "source" <=> kind = "apply"
    BY DEF Phases
  <2> HIDE DEF phase
  <2>5. Suits(phase, kind)
    <3>1. kind # "publish"
      BY <1>2 DEF Writing
    <3> QED BY <1>2, <2>4, <3>1 DEF Suits
  <2>6. ASSUME overlapped = {} PROVE Fits(phase, work[e], new)
    <3>1. kind # "publish" /\ Fits("write", work[e], draft[d])
      BY <1>2, <2>6 DEF Writing
    <3> QED BY <2>3, <2>4, <3>1 DEF Fits
  <2>7. ASSUME overlapped = {}, phase # "source" PROVE SourceTrue(new.payload.cal, new.source)
    <3>1. kind \in {"update", "initialize", "validate"} => SourceTrue(payload.cal, draft[d].source)
      BY <1>2, <2>7 DEF Fits
    <3>2. kind = "create" => draft[d].source = Absent
      BY <1>2, <2>7 DEF Fits
    <3>3. SourceTrue(payload.cal, Absent)
      BY SourceTypes DEF SourceTrue
    <3> QED BY <1>2, <2>3, <2>4, <2>7, <3>1, <3>2, <3>3 DEF Writing
  <2>8. overlapped \subseteq Drafts
    BY DEF DraftInv, DraftTypes
  <2>9. overlapped = {} =>
          \A f \in Editors \ {e} :
            (pc[f] # "idle" /\ work[f].of = d) => Fits(pc[f], work[f], new)
    BY <1>1, <1>2, OthersFit
  <2> QED BY <1>1, <2>1, <2>2, <2>3, <2>4, <2>5, <2>6, <2>7, <2>8, <2>9, GotoKeeps
<1>4. CASE ~ (draft[d].written \/ kind = "create")
  <2>1. Goto(e, "idle") /\ draft' = draft
    BY <1>4 DEF WritePayload, Loadable
  <2>2. "idle" \in Phases \ {"source"}
    BY DEF Phases
  <2> QED BY <1>1, <2>1, <2>2, StayKeeps
<1> QED BY <1>3, <1>4

LEMMA WriteSourceKeeps ==
    ASSUME DraftInv, NEW e \in Editors, WriteSource(e) PROVE DraftInv'
<1> DEFINE d == work[e].of
           new == [draft[d] EXCEPT !.source = work[e].source]
<1>1. pc[e] = "source" /\ overlapped' = overlapped
  BY DEF WriteSource
<1>2. /\ d \in Drafts /\ draft[d] \in Directories /\ draft[d].used
      /\ work[e].source \in SourceFiles /\ work[e].kind = "apply"
      /\ overlapped = {} => Fits("source", work[e], draft[d])
  BY <1>1, WorkFacts DEF Suits
<1>3. CASE draft[d].written
  <2>1. draft' = [draft EXCEPT ![d].source = work[e].source] /\ Goto(e, "checkpoint")
    BY <1>3 DEF WriteSource, Loadable
  <2>2. draft' = [draft EXCEPT ![d] = new]
    BY <2>1, <1>2
  <2>3. /\ new \in Directories /\ new.used /\ new.source = work[e].source
        /\ new.payload = draft[d].payload
    BY <1>2 DEF Directories
  <2> HIDE DEF new
  <2>4. Suits("checkpoint", work[e].kind) /\ work[e].kind \in Writing /\ "checkpoint" \in Phases
    BY <1>2 DEF Suits, Writing, Phases
  <2>5. overlapped = {} => SourceTrue(new.payload.cal, new.source)
    BY <1>2, <1>3, <2>3 DEF Fits
  <2>6. Fits("checkpoint", work[e], new)
    BY <1>2 DEF Fits
  <2>7. overlapped \subseteq Drafts
    BY DEF DraftInv, DraftTypes
  <2>8. overlapped = {} =>
          \A f \in Editors \ {e} :
            (pc[f] # "idle" /\ work[f].of = d) => Fits(pc[f], work[f], new)
    BY <1>1, <2>4, OthersFit
  <2> QED BY <1>1, <2>1, <2>2, <2>3, <2>4, <2>5, <2>6, <2>7, <2>8, GotoKeeps
<1>4. CASE ~ draft[d].written
  <2>1. Goto(e, "idle") /\ draft' = draft
    BY <1>4 DEF WriteSource, Loadable
  <2>2. "idle" \in Phases \ {"source"}
    BY DEF Phases
  <2> QED BY <1>1, <1>4, <2>1, <2>2, StayKeeps
<1> QED BY <1>3, <1>4

(* The other files of a directory: nothing depends on what they hold, or on a file that is  *)
(* gone.                                                                                    *)
LEMMA FilesKeep ==
    ASSUME DraftInv, NEW e \in Editors, pc[e] # "idle",
           NEW phase \in {"idle", "drop source", "drop payload", "drop directory"},
           Goto(e, phase), phase # "idle" => Suits(phase, work[e].kind), pc[e] # "source", overlapped' = overlapped,
           NEW new \in Directories, draft' = [draft EXCEPT ![work[e].of] = new], new.used,
           new.source \in {draft[work[e].of].source, Absent},
           new.written => draft[work[e].of].written /\ new.payload = draft[work[e].of].payload
    PROVE  DraftInv'
<1> DEFINE d == work[e].of
<1>1. d \in Drafts
  BY WorkFacts
<1>2. overlapped \subseteq Drafts
  BY DEF DraftInv, DraftTypes
<1>3. \A cal : SourceTrue(cal, draft[d].source) => SourceTrue(cal, new.source)
  BY SourceTypes DEF SourceTrue
<1>4. \A f \in Editors : Fits(pc[f], work[f], draft[d]) => Fits(pc[f], work[f], new)
  BY <1>3 DEF Fits
<1>5. phase \in Phases /\ (phase # "idle" => Fits(phase, work[e], new))
  BY DEF Fits, Suits, Phases
<1>6. ASSUME overlapped = {}
      PROVE  /\ \A f \in Editors \ {e} :
                  (pc[f] # "idle" /\ work[f].of = d) => Fits(pc[f], work[f], new)
             /\ (new.written /\ Alone(e, d)) => SourceTrue(new.payload.cal, new.source)
  <2>1. \A f \in Editors : WriterOK(f)
    BY <1>6 DEF DraftInv
  <2>2. ASSUME Alone(e, d) PROVE ~ Applying(d)
    BY <2>2 DEF Applying, Alone
  <2>3. DraftOK(d)
    BY <1>1 DEF DraftInv
  <2>4. (new.written /\ Alone(e, d)) => SourceTrue(new.payload.cal, draft[d].source)
    BY <1>6, <2>2, <2>3 DEF DraftOK
  <2> QED BY <1>3, <1>4, <2>1, <2>4 DEF WriterOK
<1> QED BY <1>1, <1>2, <1>5, <1>6, GotoKeeps

LEMMA CheckpointKeeps ==
    ASSUME DraftInv, NEW e \in Editors, WriteCheckpoint(e) PROVE DraftInv'
<1> DEFINE d == work[e].of
           numbers == draft[d].checkpoints \cup {work[e].payload.number}
           new == [draft[d] EXCEPT !.checkpoints = Trimmed(numbers)]
<1>1. pc[e] = "checkpoint" /\ overlapped' = overlapped /\ Goto(e, "idle")
  BY DEF WriteCheckpoint
<1>2. /\ d \in Drafts /\ draft[d] \in Directories /\ draft[d].used
      /\ work[e].payload \in Payloads
  BY <1>1, WorkFacts
<1>3. CASE draft[d].written
  <2>1. draft' = [draft EXCEPT ![d] = new]
    BY <1>3, <1>2 DEF WriteCheckpoint, Loadable
  <2>2. numbers \subseteq Nat
    BY <1>2 DEF Directories, Payloads
  <2>3. Trimmed(numbers) \subseteq Nat
    BY <2>2 DEF Trimmed
  <2> HIDE DEF numbers
  <2>4. /\ new \in Directories /\ new.used /\ new.source = draft[d].source
        /\ new.written = draft[d].written /\ new.payload = draft[d].payload
    BY <1>2, <2>3 DEF Directories
  <2> HIDE DEF new
  <2> QED BY <1>1, <2>1, <2>4, FilesKeep
<1>4. CASE ~ draft[d].written
  <2>1. draft' = draft /\ "idle" \in Phases \ {"source"}
    BY <1>4 DEF WriteCheckpoint, Loadable, Phases
  <2> QED BY <1>1, <2>1, StayKeeps
<1> QED BY <1>3, <1>4

LEMMA UnlinkKeeps ==
    ASSUME DraftInv, NEW e \in Editors,
           NEW phase \in {"drop checkpoints", "drop source", "drop payload", "drop directory"},
           NEW next \in {"idle", "drop source", "drop payload", "drop directory"},
           NEW same, NEW new \in Directories, Unlink(e, phase, same, new, next),
           new.used = draft[work[e].of].used, new.source \in {draft[work[e].of].source, Absent},
           new.written => draft[work[e].of].written /\ new.payload = draft[work[e].of].payload
    PROVE  DraftInv'
<1>1. pc[e] = phase /\ overlapped' = overlapped /\ pc[e] # "idle" /\ pc[e] # "source"
  BY DEF Unlink
<1>2. draft[work[e].of].used /\ Suits(phase, work[e].kind)
  BY <1>1, WorkFacts
<1>3. Suits(next, work[e].kind)
  BY <1>2 DEF Suits
<1>4. CASE Goto(e, next) /\ draft' = [draft EXCEPT ![work[e].of] = new]
  BY <1>1, <1>2, <1>3, <1>4, FilesKeep
<1>5. CASE Goto(e, "idle") /\ draft' = draft
  <2>1. "idle" \in Phases \ {"source"}
    BY DEF Phases
  <2> QED BY <1>1, <1>5, <2>1, StayKeeps
<1> QED BY <1>4, <1>5 DEF Unlink

LEMMA DeleteKeeps ==
    ASSUME DraftInv, NEW e \in Editors, Delete(e) PROVE DraftInv'
<1> DEFINE d == draft[work[e].of]
           none == [d EXCEPT !.checkpoints = @ \ work[e].checkpoints]
           unlisted == [d EXCEPT !.source = IF work[e].source = Absent THEN @ ELSE Absent]
           empty == [d EXCEPT !.written = FALSE, !.payload = NoPayload]
           gone == [d EXCEPT !.made = FALSE]
<1>1. pc[e] # "idle"
  BY DEF Delete, Unlink
<1>2. d \in Directories /\ NoPayload \in Payloads
  BY <1>1, WorkFacts DEF NoPayload, Payloads, Calibrations
<1> HIDE DEF d
<1>3. CASE Unlink(e, "drop checkpoints", SameCheckpoints(e), none, "drop source")
  <2>1. /\ none \in Directories /\ none.used = d.used /\ none.source = d.source
        /\ none.written = d.written /\ none.payload = d.payload
    BY <1>2 DEF Directories
  <2> HIDE DEF none
  <2> QED BY <1>3, <2>1, UnlinkKeeps DEF d
<1>4. CASE Unlink(e, "drop source", SameSource(e), unlisted, "drop payload")
  <2>1. /\ unlisted \in Directories /\ unlisted.used = d.used
        /\ unlisted.source \in {d.source, Absent}
        /\ unlisted.written = d.written /\ unlisted.payload = d.payload
    BY <1>2, SourceTypes DEF Directories
  <2> HIDE DEF unlisted
  <2> QED BY <1>4, <2>1, UnlinkKeeps DEF d
<1>5. CASE Unlink(e, "drop payload", SamePayload(e), empty, "drop directory")
  <2>1. /\ empty \in Directories /\ empty.used = d.used /\ empty.source = d.source
        /\ ~ empty.written
    <3>1. [d EXCEPT !.written = FALSE] \in Directories
      BY <1>2 DEF Directories
    <3> QED BY <1>2, <3>1 DEF Directories
  <2> HIDE DEF empty
  <2> QED BY <1>5, <2>1, UnlinkKeeps DEF d
<1>6. CASE Unlink(e, "drop directory", d.checkpoints = {} /\ d.source = Absent /\ ~ d.written,
                  gone, "idle")
  <2>1. /\ gone \in Directories /\ gone.used = d.used /\ gone.source = d.source
        /\ gone.written = d.written /\ gone.payload = d.payload
    BY <1>2 DEF Directories
  <2> HIDE DEF gone
  <2> QED BY <1>6, <2>1, UnlinkKeeps DEF d
<1> QED BY <1>3, <1>4, <1>5, <1>6 DEF Delete, d

LEMMA CopyKeeps ==
    ASSUME DraftInv, NEW e \in Editors, CopyDraft(e) PROVE DraftInv'
<1>1. PICK next \in {"idle", "copy source", "commit"} : Goto(e, next)
  BY DEF CopyDraft, Copy
<1>2. pc[e] \in {"copy payload", "copy source"} /\ draft' = draft /\ overlapped' = overlapped
  BY DEF CopyDraft, Copy
<1>3. /\ Suits(pc[e], work[e].kind)
      /\ overlapped = {} => Fits(pc[e], work[e], draft[work[e].of])
  BY <1>2, WorkFacts
<1>4. next # "idle" => Suits(next, work[e].kind)
  BY <1>1, <1>2, <1>3 DEF Suits
<1>5. (overlapped = {} /\ next # "idle") => Fits(next, work[e], draft[work[e].of])
  BY <1>1, <1>2, <1>3 DEF Fits
<1>6. next \in Phases \ {"source"}
  BY <1>1 DEF Phases
<1> QED BY <1>1, <1>2, <1>4, <1>5, <1>6, StayKeeps

LEMMA CommitKeeps ==
    ASSUME DraftInv, NEW e \in Editors, CommitPublication(e) PROVE DraftInv'
<1>1. /\ pc[e] = "commit" /\ Goto(e, "idle") /\ draft' = draft /\ overlapped' = overlapped
      /\ "idle" \in Phases \ {"source"}
  BY DEF CommitPublication, Phases
<1> QED BY <1>1, StayKeeps

LEMMA KillKeeps ==
    ASSUME DraftInv, NEW e \in Editors, Kill(e) PROVE DraftInv'
<1> DEFINE d == work[e].of
<1>1. pc[e] # "idle" /\ Goto(e, "idle") /\ draft' = draft /\ "idle" \in Phases \ {"source"}
  BY DEF Kill, Phases
<1>2. d \in Drafts /\ draft[d] \in Directories /\ draft[d].used /\ Suits(pc[e], work[e].kind)
  BY <1>1, WorkFacts
<1>3. CASE work[e].kind \in Writing
  <2>1. overlapped' = overlapped \cup {d}
    BY <1>3 DEF Kill
  <2>2. draft' = [draft EXCEPT ![d] = draft[d]]
    BY <1>1 DEF DraftInv, DraftTypes
  <2>3. overlapped' \subseteq Drafts /\ overlapped' # {} /\ overlapped \subseteq overlapped'
    BY <1>2, <2>1 DEF DraftInv, DraftTypes
  <2> QED BY <1>1, <1>2, <2>2, <2>3, GotoKeeps
<1>4. CASE work[e].kind \notin Writing
  <2>1. overlapped' = overlapped
    BY <1>4 DEF Kill
  <2>2. pc[e] # "source"
    BY <1>2, <1>4 DEF Suits, Writing
  <2> QED BY <1>1, <2>1, <2>2, StayKeeps
<1> QED BY <1>3, <1>4

-----------------------------------------------------------------------------
(* The invariant holds at first ... *)
LEMMA EmptySound ==
    Sound(EmptyStore, 0) /\ Based(EmptyStore) /\ Attributed(EmptyStore)
<1>1. DOMAIN <<>> = {} /\ <<>> \in [{} -> Snapshots]
  OBVIOUS
<1>2. Existing(EmptyStore) = {}
  BY <1>1 DEF Existing, EmptyStore
<1>3. NoCurrent \in Currents
  BY SourceTypes DEF NoCurrent, Currents, Calibrations
<1>4. EmptyStore \in Stores
  BY <1>1, <1>3 DEF EmptyStore, Stores
<1>5. Anchored(EmptyStore) /\ Based(EmptyStore)
  BY <1>2 DEF Anchored, Based, EmptyStore, NoCurrent
<1>6. Traced(EmptyStore) /\ Attributed(EmptyStore)
  BY <1>2 DEF Traced, Attributed
<1>7. SourceTrue(EmptyStore.current.cal, EmptyStore.current.source)
  BY SourceTypes DEF SourceTrue, EmptyStore, NoCurrent
<1> QED BY <1>2, <1>4, <1>5, <1>6, <1>7 DEF Sound

LEMMA LegacySound == Sound(Legacy, 1) /\ Based(Legacy) /\ Attributed(Legacy)
<1> DEFINE cal == PublishCalibration(InitialCalibration, Uncalibrated, NoSource)
           first == [cal |-> cal, parent |-> 0, source |-> NoSource, eligible |-> TRUE]
           plain == Added(EmptyStore, 1, first)
           active == Added([EmptyStore EXCEPT !.active = 1], 1, first)
           cur == CurrentOf(active)
<1>1. Uncalibrated \in Publications
  BY DEF Publications
<1>2. /\ cal \in Publications
      /\ cal # Uncalibrated => \A x \in Records : cal[x].run = RunOf(NoSource, x)
  BY <1>1, RecordTypes, PublishFacts
<1>3. \A x \in Records : RunOf(NoSource, x) = Manual
  BY SourceTypes DEF RunOf
<1> HIDE DEF cal
<1>4. first \in Snapshots /\ first.cal = cal
  BY <1>2, SourceTypes DEF Snapshots
<1>5. Legacy = [active EXCEPT !.current = cur]
  BY DEF Legacy, cal
<1>6. active = [plain EXCEPT !.active = 1]
  BY DEF Added, EmptyStore, Existing
<1> HIDE DEF first, active, cur
<1>7. /\ Sound(plain, 1) /\ Existing(plain) = {1} /\ plain.snapshots[1] = first
      /\ plain.current = NoCurrent /\ plain.pins = {}
  <2>1. 0 + 1 = 1 /\ 0 \in Nat
    OBVIOUS
  <2>2. first.cal # Uncalibrated => \A x \in Records : first.cal[x].run \in {Manual, first.source.run}
    BY <1>2, <1>3, <1>4
  <2>3. /\ Sound(Added(EmptyStore, 0 + 1, first), 0 + 1)
        /\ Existing(Added(EmptyStore, 0 + 1, first)) = Existing(EmptyStore) \cup {0 + 1}
        /\ Added(EmptyStore, 0 + 1, first).snapshots[0 + 1] = first
        /\ Added(EmptyStore, 0 + 1, first).current = EmptyStore.current
        /\ Added(EmptyStore, 0 + 1, first).pins = EmptyStore.pins
    BY <1>4, <2>1, <2>2, EmptySound, AddedSound
  <2>4. Existing(EmptyStore) = {}
    BY EmptySound DEF Sound
  <2>5. EmptyStore.current = NoCurrent /\ EmptyStore.pins = {}
    BY DEF EmptyStore
  <2> QED BY <2>1, <2>3, <2>4, <2>5
<1> HIDE DEF plain
<1>8. /\ active \in Stores /\ active.snapshots = plain.snapshots /\ active.applied = plain.applied
      /\ active.active = 1 /\ active.pins = {} /\ active.current = NoCurrent
  BY <1>6, <1>7 DEF Sound, Stores
<1>9. Existing(active) = {1} /\ active.snapshots[1] = first
  BY <1>7, <1>8 DEF Existing
<1>10. Sound(active, 1)
  <2>1. Anchored(active)
    BY <1>8, <1>9 DEF Anchored, NoCurrent, first
  <2>2. SourceTrue(active.current.cal, active.current.source)
    BY <1>8, SourceTypes DEF SourceTrue, NoCurrent
  <2> QED BY <1>7, <1>8, <2>1, <2>2, ReplacedSound
<1>11. Attributed(active)
  BY <1>2, <1>3, <1>4, <1>9 DEF Attributed
<1>12. /\ cur \in Currents /\ cur.base = 1 /\ cur.source = Absent
       /\ (cur.cal # Uncalibrated /\ first.cal # Uncalibrated) =>
            \A x \in Records : cur.cal[x].base = first.cal[x]
  BY <1>8, <1>9, <1>10, CurrentOfFacts DEF cur
<1>13. /\ Legacy \in Stores /\ Legacy.snapshots = active.snapshots /\ Legacy.current = cur
       /\ Legacy.applied = active.applied /\ Legacy.active = 1 /\ Legacy.pins = {}
  BY <1>5, <1>8, <1>12 DEF Stores
<1>14. Existing(Legacy) = {1}
  BY <1>9, <1>13 DEF Existing
<1>15. Anchored(Legacy)
  BY <1>9, <1>12, <1>13, <1>14 DEF Anchored, first
<1>16. SourceTrue(Legacy.current.cal, Legacy.current.source)
  BY <1>12, <1>13, SourceTypes DEF SourceTrue
<1>17. Sound(Legacy, 1) /\ Attributed(Legacy)
  BY <1>10, <1>11, <1>13, <1>15, <1>16, ReplacedSound
<1>18. Based(Legacy)
  BY <1>9, <1>12, <1>13 DEF Based
<1> QED BY <1>17, <1>18

LEMMA InitInv == ASSUME Init PROVE Inv
<1>1. StoreInv /\ Attributed(store)
  BY EmptySound, LegacySound DEF Init, StoreInv
<1>2. NoDirectory \in Directories /\ NoWork \in Works
  BY SourceTypes DEF NoDirectory, Directories, NoWork, Works, NoPayload, Payloads, Calibrations
<1>3. DraftTypes
  BY <1>2 DEF Init, DraftTypes, Phases
<1>4. ASSUME NEW e \in Editors PROVE pc[e] = "idle"
  BY DEF Init
<1>5. ASSUME NEW e \in Editors PROVE WorkOK(e) /\ WriterOK(e)
  BY <1>4 DEF WorkOK, WriterOK, Fits
<1>6. ASSUME NEW d \in Drafts PROVE DraftOK(d)
  <2>1. ~ draft[d].used /\ ~ draft[d].written /\ draft[d].source = Absent
    BY DEF Init, NoDirectory
  <2>2. Writers(d) = {}
    BY <1>4 DEF Writers
  <2> QED BY <2>1, <2>2 DEF DraftOK
<1> QED BY <1>1, <1>3, <1>5, <1>6 DEF Inv, DraftInv, OriginInv

(* ... and every step keeps it. *)
LEMMA SameDrafts ==
    ASSUME DraftInv, draft' = draft, pc' = pc, work' = work, overlapped' = overlapped
    PROVE  DraftInv'
  BY DEF DraftInv, DraftTypes, WorkOK, WriterOK, DraftOK, Writers, Applying

LEMMA TransactionKeeps ==
    ASSUME Inv, Moves, UNCHANGED <<draft, pc, work, overlapped>>
    PROVE  Inv' /\ Effective
<1>1. DraftInv'
  BY SameDrafts DEF Inv
<1>2. StoreInv' /\ OriginInv' /\ Effective
  BY DEF Inv, Moves, OriginInv
<1> QED BY <1>1, <1>2 DEF Inv

LEMMA EditorKeeps ==
    ASSUME Inv, DraftInv', UNCHANGED <<store, issued>>, overlapped \subseteq overlapped'
    PROVE  Inv' /\ Effective
<1>1. StoreInv'
  BY DEF Inv, StoreInv
<1>2. OriginInv'
  BY DEF Inv, OriginInv
<1>3. Effective
  BY DEF Effective
<1> QED BY <1>1, <1>2, <1>3 DEF Inv

LEMMA CommitMoves ==
    ASSUME Inv, NEW e \in Editors, CommitPublication(e) PROVE Inv' /\ Effective
<1>1. DraftInv'
  BY CommitKeeps DEF Inv
<1>2. overlapped' = overlapped /\ pc[e] = "commit"
  BY DEF CommitPublication
<1>3. CASE ~ Publishable(e)
  BY <1>1, <1>2, <1>3, EditorKeeps DEF CommitPublication
<1>4. CASE Publishable(e)
  <2>1. PICK keep \in BOOLEAN : store' = WithDraft(e, issued + 1, keep)
    BY <1>4 DEF CommitPublication
  <2>2. issued' = issued + 1
    BY <1>4 DEF CommitPublication
  <2>3. /\ work[e].payload \in Payloads /\ work[e].source \in SourceFiles
        /\ Suits("commit", work[e].kind)
        /\ overlapped = {} => Fits("commit", work[e], draft[work[e].of])
    BY <1>2, WorkFacts DEF Inv
  <2>4. overlapped = {} => SourceTrue(work[e].payload.cal, work[e].source)
    BY <1>4, <2>3 DEF Publishable, Suits, Fits
  <2>5. /\ StoreInv' /\ Effective
        /\ (Attributed(store) /\ SourceTrue(work[e].payload.cal, work[e].source)) =>
             Attributed(store')
    BY <2>1, <2>2, <2>3, WithDraftMoves DEF Inv
  <2>6. OriginInv'
    BY <1>2, <2>4, <2>5 DEF Inv, OriginInv
  <2> QED BY <1>1, <2>5, <2>6 DEF Inv
<1> QED BY <1>3, <1>4

LEMMA EditKeeps ==
    ASSUME Inv, NEW e \in Editors, Edit(e) PROVE Inv' /\ Effective
<1>1. StoreInv /\ DraftInv
  BY DEF Inv
<1>2. CASE \E d \in Drafts :
             \/ CreateDraft(e, d) \/ UpdateDraft(e, d) \/ InitializeDraft(e, d)
             \/ ValidateDraft(e, d) \/ DeleteDraft(e, d) \/ StartPublication(e, d)
             \/ \E r \in Runs : ApplyToDraft(e, d, r)
  <2>1. PICK d \in Drafts :
             \/ CreateDraft(e, d) \/ UpdateDraft(e, d) \/ InitializeDraft(e, d)
             \/ ValidateDraft(e, d) \/ DeleteDraft(e, d) \/ StartPublication(e, d)
             \/ \E r \in Runs : ApplyToDraft(e, d, r)
    BY <1>2
  <2>2. DraftInv'
    BY <1>1, <2>1, CreateKeeps, UpdateKeeps, InitializeKeeps, ValidateKeeps, DeleteDraftKeeps,
       StartKeeps, ApplyKeeps
  <2>3. UNCHANGED <<store, issued>>
    BY <2>1 DEF CreateDraft, UpdateDraft, InitializeDraft, ValidateDraft, DeleteDraft,
       StartPublication, ApplyToDraft, inside
  <2>4. overlapped \subseteq overlapped'
    BY <2>1 DEF CreateDraft, UpdateDraft, InitializeDraft, ValidateDraft, DeleteDraft,
       StartPublication, ApplyToDraft, Begin
  <2> QED BY <2>2, <2>3, <2>4, EditorKeeps
<1>3. CASE \/ RetainSource(e) \/ WritePayload(e) \/ WriteSource(e) \/ WriteCheckpoint(e)
           \/ Delete(e) \/ CopyDraft(e) \/ Kill(e)
  <2>1. DraftInv'
    BY <1>1, <1>3, RetainKeeps, WritePayloadKeeps, WriteSourceKeeps, CheckpointKeeps,
       DeleteKeeps, CopyKeeps, KillKeeps
  <2>2. UNCHANGED <<store, issued>>
    BY <1>3 DEF RetainSource, WritePayload, WriteSource, WriteCheckpoint, Delete, Unlink,
       CopyDraft, Copy, Kill, inside
  <2>3. overlapped \subseteq overlapped'
    BY <1>3 DEF RetainSource, WritePayload, WriteSource, WriteCheckpoint, Delete, Unlink,
       CopyDraft, Copy, Kill
  <2> QED BY <2>1, <2>2, <2>3, EditorKeeps
<1> QED BY <1>2, <1>3, CommitMoves DEF Edit

LEMMA NextKeeps == ASSUME Inv, [Next]_vars PROVE Inv' /\ Effective
<1>1. StoreInv /\ DraftInv /\ DraftTypes
  BY DEF Inv, DraftInv
<1>2. CASE Transaction
  <2>1. Moves
    BY <1>1, <1>2, UpdateMoves, InitializeMoves, SaveSnapshotMoves, ApplyMoves,
       ApplySnapshotMoves, SetActiveMoves, SetKeepMoves, DeleteMoves DEF Transaction
  <2>2. UNCHANGED outside
    BY <1>2 DEF Transaction, UpdateCurrent, InitializeCurrent, SaveSnapshot, ApplyToCurrent,
       ApplySnapshot, SetActive, SetKeep, DeleteSnapshot, Saves
  <2> QED BY <2>1, <2>2, TransactionKeeps DEF outside
<1>3. CASE \E d \in Drafts : Import(d)
  <2>1. Moves
    BY <1>1, <1>3, ImportMoves
  <2>2. UNCHANGED outside
    BY <1>3 DEF Import
  <2> QED BY <2>1, <2>2, TransactionKeeps DEF outside
<1>4. CASE \E e \in Editors : Edit(e)
  BY <1>4, EditKeeps
<1>5. CASE UNCHANGED vars
  <2>1. UNCHANGED <<store, issued, draft, pc, work, overlapped>>
    BY <1>5 DEF vars
  <2>2. DraftInv'
    BY <1>1, <2>1, SameDrafts
  <2> QED BY <2>1, <2>2, EditorKeeps
<1> QED BY <1>2, <1>3, <1>4, <1>5 DEF Next

-----------------------------------------------------------------------------
(* The run of a record is found by going from parent to parent: the least snapshot that has *)
(* the record from it lists the candidate, or the candidate was applied.                    *)
LEMMA OriginFound ==
    ASSUME NEW st, NEW n \in Nat, Sound(st, n), NEW s \in Existing(st),
           st.snapshots[s].cal # Uncalibrated, NEW x \in Records,
           st.snapshots[s].cal[x].run # Manual
    PROVE  LET r == st.snapshots[s].cal[x].run
           IN  r \in st.applied \/ \E t \in Existing(st) : st.snapshots[t].source.run = r
<1> DEFINE r == st.snapshots[s].cal[x].run
           Same == {t \in Existing(st) : /\ st.snapshots[t].cal # Uncalibrated
                                         /\ st.snapshots[t].cal[x].run = r}
<1>1. Same \subseteq Nat /\ s \in Same
  BY DEF Sound
<1>2. PICK m \in Same : \A t \in Same : ~ (<<t, m>> \in OpToRel(<, Nat))
  BY <1>1, WFMin, NatLessThanWellFounded
<1>3. \A t \in Same : ~ (t < m)
  BY <1>1, <1>2 DEF OpToRel
<1>4. Origin(st, m, x, r)
  BY <1>2 DEF Sound, Traced
<1>5. \A p \in Existing(st) :
        (st.snapshots[p].cal # Uncalibrated /\ st.snapshots[p].cal[x].run = r) => p \in Same
  OBVIOUS
<1>6. m \in Existing(st)
  BY <1>2
<1> HIDE DEF Same, r
<1> QED BY <1>3, <1>4, <1>5, <1>6 DEF Origin, r

LEMMA InvHolds == Spec => []Inv /\ [][Effective]_vars
<1>1. Inv /\ [Next]_vars => Inv' /\ [Effective]_vars
  BY NextKeeps
<1> QED BY <1>1, InitInv, PTL DEF Spec

(* The active pointer, the kept snapshots and the base of the current configuration name     *)
(* snapshots that are there: what pruning and deletion remove is nobody's parent and nobody's *)
(* base (_snapshot_referenced, _prune_automatic_snapshots, delete_snapshot).                  *)
THEOREM AuthorityKept == Spec => []AuthorityPresent
<1>1. Inv => AuthorityPresent
  BY DEF Inv, StoreInv, Sound, Anchored, Based, AuthorityPresent
<1> QED BY <1>1, InvHolds, PTL

(* A published record names only a run whose candidate proposed its value                     *)
(* (_candidate_run_bindings, _retained_candidate_source, and the order of the files of an     *)
(* applied candidate), while no two editors wrote one draft at once and none died in one.     *)
THEOREM AttributionsSound == Spec => []AttributionTrue
<1>1. Inv => AttributionTrue
  BY DEF Inv, OriginInv, Attributed, Proposed, AttributionTrue
<1> QED BY <1>1, InvHolds, PTL

(* The scan that lets a run go to the trash finds every run that is the origin of a record    *)
(* of a snapshot, although the snapshot itself may not list it any more                       *)
(* (build_reference_graph).                                                                   *)
THEOREM EvidenceKept == Spec => []EvidenceStays
<1>1. Inv => EvidenceStays
  <2> SUFFICES ASSUME Inv, NEW s \in Existing(store), store.snapshots[s].cal # Uncalibrated,
                      NEW x \in Records, store.snapshots[s].cal[x].run # Manual
               PROVE  RunReferenced(store.snapshots[s].cal[x].run)
    BY DEF EvidenceStays
  <2>1. Sound(store, issued) /\ issued \in Nat
    BY DEF Inv, StoreInv
  <2> QED BY <2>1, OriginFound DEF RunReferenced
<1> QED BY <1>1, InvHolds, PTL

(* Whatever changes the content of a current configuration that was made, the active snapshot *)
(* has this content after the same step (update_current_configuration,                        *)
(* apply_candidates_to_current, apply_snapshot_to_current).                                   *)
THEOREM SavesEffective == Spec => SavedIsEffective
<1> DEFINE Step ==
      LET content(cal) == IF cal = Uncalibrated THEN cal ELSE [x \in Records |-> cal[x].value]
          after == content(store'.current.cal)
      IN  (store.current.made /\ after # content(store.current.cal)) =>
              \/ store.current.base = 0 /\ store'.active = 0
              \/ content(store'.snapshots[store'.active].cal) = after
<1>1. [Effective]_vars => [Step]_vars
  BY DEF Effective, Content
<1> QED BY <1>1, InvHolds, PTL DEF SavedIsEffective

=============================================================================
