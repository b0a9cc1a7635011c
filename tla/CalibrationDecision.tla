------------------------ MODULE CalibrationDecision ------------------------
(***************************************************************************)
(* The calibration of reference frequencies by spectroscopy, from the      *)
(* scans to an accepted calibration and the context the next run uses:     *)
(* src/sqvm/calibration/spectroscopy_workflow.py over spectroscopy.py.     *)
(*                                                                         *)
(* A run scans its targets coarsely, then finely around the coarse peaks,  *)
(* and, if it drove two of them at once, each of them alone; it publishes  *)
(* what it measured, its gates and one candidate per target.  A decision   *)
(* accepts candidates of a published run and publishes the calibration     *)
(* that results.  Runs and decisions are directories: immutable, and named *)
(* by where they are.  Nothing but these directories and what a caller     *)
(* holds in memory connects two callers.                                   *)
(***************************************************************************)
EXTENDS Integers, FiniteSets

CONSTANTS
    Sessions,              \* the callers
    Targets,               \* the qubits
    RunOutputs,            \* where a run may be published
    DecisionOutputs,       \* where a decision may be published
    Uncalibrated,          \* the parent that has no values of its own
    Nothing,               \* no directory
    NoPeak,                \* an analysis without a valid peak
    Seed,                  \* the reference frequency a qubit starts with
    CoarseLow, CoarseHigh, \* ends of the coarse axes
    FineHalf, ConfirmHalf, \* half spans of the derived axes
    MaxRefinedShift, MaxParallelShift   \* limits of the two gates on peaks

ASSUME DecisionAssumption ==
    /\ Seed \in [Targets -> Int]
    /\ Uncalibrated \notin DecisionOutputs /\ Nothing \notin RunOutputs
    /\ NoPeak \notin Int
    /\ CoarseLow \in Nat \ {0} /\ CoarseHigh \in Nat
    /\ FineHalf \in Nat /\ ConfirmHalf \in Nat
    /\ MaxRefinedShift \in Nat /\ MaxParallelShift \in Nat

VARIABLES
    runs,        \* the published runs
    decisions,   \* the published decisions
    work         \* what each caller is doing

decisionVars == <<runs, decisions, work>>

(* A frequency authority: the run it was measured by, and how often it was replaced. *)
Authority(frequency, run, revision) == [frequency |-> frequency, run |-> run, revision |-> revision]

Bootstrap == [t \in Targets |-> Authority(Seed[t], Nothing, 1)]

PublishedIn(outputs) == {o \in DOMAIN outputs : outputs[o] # Nothing}

Accepted == {d \in PublishedIn(decisions) : decisions[d].targets # {}}

(* A calibration that is the parent of a run or the origin of a context. *)
Calibrations == {Uncalibrated} \cup Accepted

(* The frequency authorities of a context: every accepted calibration has all of them. *)
Context(k) == IF k = Uncalibrated THEN Bootstrap ELSE decisions[k].values

(* Bug: the context is not compared. *)
MatchesAny(parent, k) == TRUE

(* _validate_parent_context: a parent without values matches every context. *)
Matches(parent, k) == parent # Uncalibrated => decisions[parent].values = Context(k)

Idle == [step |-> "idle"]

DecisionInit ==
    /\ runs = [o \in RunOutputs |-> Nothing]
    /\ decisions = [o \in DecisionOutputs |-> Nothing]
    /\ work = [c \in Sessions |-> Idle]

At(c, step) == work[c].step = step
Goes(c, then) == work' = [work EXCEPT ![c] = then]
-----------------------------------------------------------------------------
(* A valid peak lies inside the axis, with its vertex. *)
Peaks(low, high) == low + 1 .. high - 1

(* The peaks an axis around each of the centres may show; its first value must be positive. *)
Around(centres, half) ==
    {peaks \in [DOMAIN centres -> UNION {Peaks(centres[t] - half, centres[t] + half) : t \in DOMAIN centres}] :
        \A t \in DOMAIN centres :
            centres[t] - half > 0 /\ peaks[t] \in Peaks(centres[t] - half, centres[t] + half)}

Near(f, g, limit) == f - g \in -limit .. limit

BeginRun(c, output, parent, k, targets) ==
    /\ At(c, "idle") /\ runs[output] = Nothing
    /\ Matches(parent, k)
    /\ Goes(c, [step |-> "coarse", output |-> output, parent |-> parent,
                current |-> [t \in targets |-> Context(k)[t].frequency]])
    /\ UNCHANGED <<runs, decisions>>

(* What a run has measured is added to what it is. *)
With(c, step, what, peaks) ==
    [f \in DOMAIN work[c] \cup {what} |->
        IF f = what THEN peaks ELSE IF f = "step" THEN step ELSE work[c][f]]

(* A scan without a valid peak for every target raises, here and in the next step. *)
ScanCoarse(c) ==
    /\ At(c, "coarse")
    /\ \E peaks \in [DOMAIN work[c].current -> Peaks(CoarseLow, CoarseHigh)] :
         Goes(c, With(c, "refined", "coarse", peaks))
    /\ UNCHANGED <<runs, decisions>>

ScanRefined(c) ==
    /\ At(c, "refined")
    /\ \E peaks \in Around(work[c].coarse, FineHalf) :
         Goes(c, With(c, "confirm", "refined", peaks))
    /\ UNCHANGED <<runs, decisions>>

(* Targets that were driven together are then driven one by one; here a missing peak only   *)
(* fails a gate.                                                                           *)
Parallel(w) == Cardinality(DOMAIN w.current) > 1

Confirm(c) ==
    /\ At(c, "confirm")
    /\ \E peaks \in Around(work[c].refined, ConfirmHalf), lost \in SUBSET DOMAIN work[c].current :
         /\ ~ Parallel(work[c]) => lost = {} /\ peaks = work[c].refined
         /\ Goes(c, With(c, "judge", "confirmed",
                         [t \in DOMAIN peaks |-> IF t \in lost THEN NoPeak ELSE peaks[t]]))
    /\ UNCHANGED <<runs, decisions>>

(* Bug: the confirmation is only asked for a peak. *)
GatesLenient(w, clean) ==
    /\ clean
    /\ \A t \in DOMAIN w.current :
         Near(w.coarse[t], w.refined[t], MaxRefinedShift) /\ w.confirmed[t] # NoPeak

(* The gates on peaks; clean stands for those on leakage, norm and cross excitation. *)
Gates(w, clean) ==
    /\ clean
    /\ \A t \in DOMAIN w.current :
         /\ Near(w.coarse[t], w.refined[t], MaxRefinedShift)
         /\ w.confirmed[t] # NoPeak
         /\ Near(w.refined[t], w.confirmed[t], MaxParallelShift)

(* Gates, candidates and documents; the candidates propose the last peak measured. *)
Judge(c) ==
    /\ At(c, "judge")
    /\ \E clean \in BOOLEAN : Goes(c, With(c, "publish", "eligible", Gates(work[c], clean)))
    /\ UNCHANGED <<runs, decisions>>

Proposed(run, t) == run.confirmed[t]

(* The rename succeeds where nothing is; the caller is told so, or that a flush after it    *)
(* failed, which is all the same to what was published.                                    *)
PublishRun(c) ==
    /\ At(c, "publish") /\ runs[work[c].output] = Nothing
    /\ runs' = [runs EXCEPT ![work[c].output] =
                    [f \in DOMAIN work[c] \ {"step", "output"} |-> work[c][f]]]
    /\ Goes(c, Idle)
    /\ UNCHANGED decisions

-----------------------------------------------------------------------------
(* An accepted candidate is one of an eligible run. *)
Acceptable(run, targets) ==
    /\ targets \subseteq DOMAIN run.current
    /\ targets # {} => run.eligible

(* The calibration that results: the context, with the accepted candidates in it. *)
Values(o, k, targets) ==
    [t \in Targets |->
        IF t \in targets
        THEN Authority(Proposed(runs[o], t), o, Context(k)[t].revision + 1)
        ELSE Context(k)[t]]

(* A decision on run o with a parent and a context: accept some targets, or reject. *)
Decide(c, output, o, parent, k, targets) ==
    /\ At(c, "idle") /\ decisions[output] = Nothing
    /\ runs[o] # Nothing
    /\ Matches(parent, k) /\ parent = runs[o].parent
    /\ \A t \in DOMAIN runs[o].current : runs[o].current[t] = Context(k)[t].frequency
    /\ Acceptable(runs[o], targets)
    /\ Goes(c, [step |-> "decided", output |-> output, run |-> o, parent |-> parent,
                targets |-> targets, values |-> Values(o, k, targets)])
    /\ UNCHANGED <<runs, decisions>>

PublishDecision(c) ==
    /\ At(c, "decided") /\ decisions[work[c].output] = Nothing
    /\ decisions' = [decisions EXCEPT ![work[c].output] =
                        [f \in DOMAIN work[c] \ {"step", "output"} |-> work[c][f]]]
    /\ Goes(c, Idle)
    /\ UNCHANGED runs

(* Whatever raises before the rename, and a kill: nothing was published. *)
Abandon(c) ==
    /\ ~ At(c, "idle")
    /\ Goes(c, Idle)
    /\ UNCHANGED <<runs, decisions>>

DecisionNext ==
    \E c \in Sessions :
        \/ \E output \in RunOutputs, parent \in Calibrations, k \in Calibrations,
              targets \in SUBSET Targets \ {{}} :
              BeginRun(c, output, parent, k, targets)
        \/ ScanCoarse(c) \/ ScanRefined(c) \/ Confirm(c) \/ Judge(c) \/ PublishRun(c)
        \/ \E output \in DecisionOutputs, o \in RunOutputs, parent \in Calibrations,
              k \in Calibrations, targets \in SUBSET Targets :
              Decide(c, output, o, parent, k, targets)
        \/ PublishDecision(c)
        \/ Abandon(c)

DecisionSpec == DecisionInit /\ [][DecisionNext]_decisionVars
-----------------------------------------------------------------------------
Authorities == [frequency : Int, run : RunOutputs \cup {Nothing}, revision : Nat]

DecisionTypes ==
    /\ DOMAIN runs = RunOutputs /\ DOMAIN decisions = DecisionOutputs
    /\ \A o \in PublishedIn(runs) :
         /\ runs[o].parent \in {Uncalibrated} \cup DecisionOutputs
         /\ DOMAIN runs[o].current \subseteq Targets /\ runs[o].eligible \in BOOLEAN
    /\ \A d \in PublishedIn(decisions) :
         /\ decisions[d].run \in RunOutputs
         /\ decisions[d].parent \in {Uncalibrated} \cup DecisionOutputs
         /\ decisions[d].targets \subseteq Targets
         /\ decisions[d].values \in [Targets -> Authorities]
    /\ \A c \in Sessions :
         work[c].step \in {"idle", "coarse", "refined", "confirm", "judge", "publish", "decided"}

(* Every frequency a calibration holds, however many calibrations ago it was accepted, is   *)
(* the one its qubit started with or that of a candidate of a run whose gates all passed,   *)
(* accepted for this qubit in some published decision, and no farther from the peak that    *)
(* the coarse scan of its run showed than the two gates on peaks together allow.            *)
Traceable ==
    \A d \in Accepted, t \in Targets :
        LET a == decisions[d].values[t] IN
        IF a.run = Nothing THEN a = Bootstrap[t]
        ELSE /\ runs[a.run] # Nothing /\ runs[a.run].eligible
             /\ Near(a.frequency, runs[a.run].coarse[t], MaxRefinedShift + MaxParallelShift)
             /\ \E e \in Accepted :
                  /\ decisions[e].run = a.run /\ t \in decisions[e].targets
                  /\ decisions[e].values[t] = a

(* A calibration differs from the calibrated parent it names only where it accepted         *)
(* candidates: there it is the next revision, measured while the parent's frequency was in  *)
(* use, and everywhere else it keeps what the parent has.                                   *)
Lineage ==
    \A d \in Accepted :
        LET parent == decisions[d].parent
            own == decisions[d].values
        IN
        parent # Uncalibrated =>
            /\ parent \in Accepted
            /\ \A t \in Targets \ decisions[d].targets : own[t] = decisions[parent].values[t]
            /\ \A t \in decisions[d].targets :
                 /\ own[t].revision = decisions[parent].values[t].revision + 1
                 /\ runs[decisions[d].run].current[t] = decisions[parent].values[t].frequency
=============================================================================
