--------------------------- MODULE PulseSchedule ---------------------------
(***************************************************************************)
(* The QCIS compiler's pass over a program (_compile_plan of               *)
(* src/sqvm/qcis/compiler.py, on the instructions parser.py admits).       *)
(*                                                                         *)
(* Every QAgent owns an XY and/or a Z lane, and the compiler keeps one     *)
(* cursor per lane and one phase frame per agent with an XY lane.  It      *)
(* reads the program once and turns it into pulses on the lanes.  Samples  *)
(* and amplitudes are left out: a pulse is where it lies and its phase.    *)
(*                                                                         *)
(* What a program means is kept beside the cursors: a pulse "reaches" the  *)
(* lanes on which whatever is appended must wait for it to end, and        *)
(* barriers and composite gates carry this from lane to lane.              *)
(***************************************************************************)
EXTENDS Integers, FiniteSets, Sequences, SequencesExt

CONSTANTS
    Qubits, Couplers,      \* the QAgents: with both lanes, with a Z lane only
    Endpoints,             \* the two qubits of each coupler, in order
    PiImpl,                \* the qubits whose pi gates are one pulse (xy_pi_impl)
    PulseLength, Offset,   \* length and phase offset of the accepted XY setting
    GateLength,            \* duration of the accepted composite setting
    DynamicPhase,          \* the phases it calibrated, of its two endpoints
    Lengths, Starts,       \* lengths and absolute starts a program may ask for
    Phases,                \* phases it may ask for, in units of pi/4
    MaxSamples,            \* the sample budget
    MaxInstructions        \* bound on the length of the program

ASSUME ScheduleAssumption ==
    /\ Qubits \cap Couplers = {} /\ PiImpl \subseteq Qubits
    /\ \A c \in Couplers :
         \E p, q \in Qubits : p # q /\ Endpoints[c] = <<p, q>>
    /\ PulseLength \in Nat \ {0} /\ GateLength \in Nat \ {0}
    /\ Lengths \subseteq Nat \ {0} /\ Starts \subseteq Nat
    /\ Phases \subseteq Int /\ Offset \in Int /\ DynamicPhase \in Int \X Int
    /\ MaxSamples \in Nat /\ MaxInstructions \in Nat

Agents == Qubits \cup Couplers
LanesOf(a) == {a} \X (IF a \in Qubits THEN {"xy", "z"} ELSE {"z"})
LanesOfAll(T) == UNION {LanesOf(a) : a \in T}
Lanes == LanesOfAll(Agents)

VARIABLES
    turns,     \* how far each instruction compiled so far turns the qubits
    cursors,   \* where the next appended pulse of a lane starts
    frames,    \* the accumulated phase of each qubit
    events,    \* what lies on the lanes: pulses and idles
    status,    \* "compiling", "compiled" or "refused"
    samples    \* how many samples the arrays have

vars == <<turns, cursors, frames, events, status, samples>>

Init ==
    /\ turns = <<>>
    /\ cursors = [l \in Lanes |-> 0]
    /\ frames = [q \in Qubits |-> 0]
    /\ events = {}
    /\ status = "compiling" /\ samples = 0

(* The gate a pulse realises is the phase the program gave it; a direct pulse and an idle   *)
(* realise none, and the phase of a direct pulse is the program's own.                     *)
NoGate == <<>>

(* What must have ended before something appended to one of the lanes L can start. *)
Ends(L) == {0} \cup {e.end : e \in {f \in events : f.reaches \cap L # {}}}

Event(lane, start, length, after, gate, phase, reaches) ==
    [index |-> Len(turns) + 1, lane |-> lane, start |-> start, end |-> start + length,
     after |-> after, gate |-> gate, phase |-> phase, reaches |-> reaches]

(* What reaches one of the lanes L, which are brought together, reaches all of them. *)
Joined(L) ==
    {[e EXCEPT !.reaches = IF @ \cap L = {} THEN @ ELSE @ \cup L] : e \in events}

Take(turn) ==
    /\ status = "compiling" /\ Len(turns) < MaxInstructions
    /\ turns' = Append(turns, turn)
    /\ UNCHANGED <<status, samples>>

NoTurn == [q \in Qubits |-> 0]

(* Bug: a turn replaces what had been accumulated. *)
TurnedAnew(turn) == [q \in Qubits |-> IF turn[q] = 0 THEN frames[q] ELSE turn[q]]

Turned(turn) == [q \in Qubits |-> frames[q] + turn[q]]


IsLatest(m, L) == m \in {cursors[l] : l \in L} /\ \A l \in L : cursors[l] <= m

Later(m, n) == IF m < n THEN n ELSE m
-----------------------------------------------------------------------------
(* RZ and the virtual Z gates: no time, only the frame. *)
Rotate(q, phase) ==
    /\ Take([NoTurn EXCEPT ![q] = phase])
    /\ frames' = Turned([NoTurn EXCEPT ![q] = phase])
    /\ UNCHANGED <<cursors, events>>

(* I: every lane of the agent moves on by itself, and keeps its distance to the others. *)
Idle(a, length) ==
    /\ \A l \in LanesOf(a) : cursors[l] + length <= MaxSamples
    /\ Take(NoTurn)
    /\ cursors' = [l \in Lanes |-> IF l \in LanesOf(a) THEN cursors[l] + length ELSE cursors[l]]
    /\ events' = events \cup
         {Event(l, cursors[l], length, Ends({l}), NoGate, 0, {l}) : l \in LanesOf(a)}
    /\ UNCHANGED frames

(* B: the lanes of all its agents are brought to the latest of them. *)
Barrier(T) ==
    /\ Cardinality(T) >= 2
    /\ Take(NoTurn)
    /\ \E latest \in {cursors[l] : l \in LanesOfAll(T)} :
         /\ IsLatest(latest, LanesOfAll(T))
         /\ cursors' = [l \in Lanes |-> IF l \in LanesOfAll(T) THEN latest ELSE cursors[l]]
    /\ events' = Joined(LanesOfAll(T))
    /\ UNCHANGED frames

(* Bug: a cursor follows the last pulse, wherever it was placed. *)
ReservedBackwards(lane, end) == [cursors EXCEPT ![lane] = end]

(* A pulse that ends there moves the cursor of its lane, never backwards. *)
Reserved(lane, end) == [cursors EXCEPT ![lane] = Later(@, end)]

(* PLS, PLSXY or DTN without a start: at the cursor of its lane. *)
AppendPulse(lane, length) ==
    /\ cursors[lane] + length <= MaxSamples
    /\ Take(NoTurn)
    /\ cursors' = Reserved(lane, cursors[lane] + length)
    /\ events' = events \cup
         {Event(lane, cursors[lane], length, Ends({lane}), NoGate, 0, {lane})}
    /\ UNCHANGED frames

(* PLS or PLSXY with a start: there, over whatever lies there already. *)
PlacePulse(lane, start, length) ==
    /\ start + length <= MaxSamples
    /\ Take(NoTurn)
    /\ cursors' = Reserved(lane, start + length)
    /\ events' = events \cup
         {Event(lane, start, length, {start}, NoGate, 0, {lane})}
    /\ UNCHANGED frames

(* A calibrated XY gate: one pulse of the accepted setting, or two equal ones for a gate    *)
(* of pi on a qubit whose setting is that of the half gate.                                *)
PulsesOf(q, half) == IF half \/ q \in PiImpl THEN 1 ELSE 2

Gate(q, phase, half) ==
    LET lane == <<q, "xy">>
        end(k) == cursors[lane] + k * PulseLength
        absolute == phase + Offset + frames[q]
        pulse(k) == Event(lane, end(k - 1), PulseLength, Ends({lane}) \cup {end(j) : j \in 1..k - 1},
                          <<phase>>, absolute, {lane})
    IN
    /\ end(PulsesOf(q, half)) <= MaxSamples
    /\ Take(NoTurn)
    /\ events' = events \cup {pulse(k) : k \in 1..PulsesOf(q, half)}
    /\ cursors' = Reserved(lane, end(PulsesOf(q, half)))
    /\ UNCHANGED frames

(* The frames a composite gate on coupler c turns, and by how much. *)
Corrections(c) ==
    [q \in Qubits |-> CASE q = Endpoints[c][1] -> - DynamicPhase[1]
                        [] q = Endpoints[c][2] -> - DynamicPhase[2]
                        [] OTHER -> 0]

AgentsOf(c) == {c, Endpoints[c][1], Endpoints[c][2]}

(* CZ or FSIM on a coupler: three Z pulses, alone on both qubits and the coupler, and then  *)
(* the calibrated phases are taken out of the frames.                                       *)
Composite(c) ==
    LET together == LanesOfAll(AgentsOf(c)) IN
    /\ Take(Corrections(c))
    /\ \E start \in {cursors[l] : l \in together} :
         /\ IsLatest(start, together)
         /\ start + GateLength <= MaxSamples
         /\ cursors' = [l \in Lanes |-> IF l \in together THEN start + GateLength ELSE cursors[l]]
         /\ events' = Joined(together) \cup
              {Event(<<a, "z">>, start, GateLength, Ends(together), NoGate, 0, together) :
                 a \in AgentsOf(c)}
    /\ frames' = Turned(Corrections(c))

(* An operation that is only parsed (M, RST, SWD, SWA), one the agent has no lane or no     *)
(* accepted setting for, or one past the budget: no arrays.                                *)
Refuse ==
    /\ status = "compiling"
    /\ status' = "refused"
    /\ UNCHANGED <<turns, cursors, frames, events, samples>>

(* Bug: arrays as long as the longest XY lane. *)
FinishDriven ==
    /\ status = "compiling" /\ status' = "compiled"
    /\ \E latest \in {cursors[l] : l \in Qubits \X {"xy"}} :
         IsLatest(latest, Qubits \X {"xy"}) /\ samples' = latest
    /\ UNCHANGED <<turns, cursors, frames, events>>

(* The end of the program: the arrays are as long as the longest lane. *)
Finish ==
    /\ status = "compiling" /\ status' = "compiled"
    /\ \E latest \in {cursors[l] : l \in Lanes} :
         IsLatest(latest, Lanes) /\ samples' = latest
    /\ UNCHANGED <<turns, cursors, frames, events>>

Next ==
    \/ \E q \in Qubits, phase \in Phases : Rotate(q, phase)
    \/ \E a \in Agents, length \in Lengths : Idle(a, length)
    \/ \E T \in SUBSET Agents : Barrier(T)
    \/ \E lane \in Lanes, length \in Lengths : AppendPulse(lane, length)
    \/ \E lane \in Lanes, start \in Starts, length \in Lengths : PlacePulse(lane, start, length)
    \/ \E q \in Qubits, phase \in Phases, half \in BOOLEAN : Gate(q, phase, half)
    \/ \E c \in Couplers : Composite(c)
    \/ Refuse
    \/ Finish

Spec == Init /\ [][Next]_vars
-----------------------------------------------------------------------------
TypeOK ==
    /\ turns \in Seq([Qubits -> Int])
    /\ cursors \in [Lanes -> 0..MaxSamples]
    /\ frames \in [Qubits -> Int]
    /\ events \subseteq
         [index : Nat, lane : Lanes, start : Nat, end : 0..MaxSamples, after : SUBSET Nat,
          gate : {NoGate} \cup {<<p>> : p \in Phases}, phase : Int, reaches : (SUBSET Lanes) \ {{}}]
    /\ status \in {"compiling", "compiled", "refused"} /\ samples \in Nat

(* The schedule is the earliest there is: what is appended waits for everything that must   *)
(* have ended, on its lane or behind a barrier or a composite gate, and for nothing else.   *)
(* The compiler only keeps one number per lane for this, which placed pulses, idles and     *)
(* barriers change in different ways.                                                       *)
EarliestStart ==
    \A e \in events : e.start \in e.after /\ \A end \in e.after : end <= e.start

(* The turns of the first k instructions together. *)
TurnedBy[k \in 0..Len(turns)] ==
    IF k = 0 THEN NoTurn ELSE [q \in Qubits |-> TurnedBy[k - 1][q] + turns[k][q]]

(* A gate is realised in the frame that all the instructions before it, and no later one,   *)
(* have turned its qubit by, once, whatever lies between them on the lanes.                 *)
PhaseTrue ==
    \A e \in events :
        e.gate # NoGate => e.phase = e.gate[1] + Offset + TurnedBy[e.index - 1][e.lane[1]]

(* The arrays have room for everything on every lane, within the budget, and end with it.   *)
ArraysHold ==
    status = "compiled" =>
        /\ \A e \in events : e.end <= samples
        /\ samples <= MaxSamples
        /\ samples = 0 \/ \E e \in events : e.end = samples
=====
