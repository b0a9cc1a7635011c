------------------------ MODULE PulseScheduleProofs ------------------------
(***************************************************************************)
(* The schedule of PulseSchedule, proved for any agents, lengths, starts,  *)
(* settings, budget and program.  The invariant that carries the places of *)
(* the pulses says that the one number the compiler keeps per lane is the  *)
(* latest end of all that reaches the lane (CursorsTight); the one that    *)
(* carries their phases says that the frames are the sum of the turns so   *)
(* far, and that there is one such sum (PhaseInv).                         *)
(***************************************************************************)
EXTENDS PulseSchedule, TLAPS

CursorsTight ==
    \A l \in Lanes : cursors[l] \in Ends({l}) /\ \A x \in Ends({l}) : x <= cursors[l]

Inv == TypeOK /\ CursorsTight /\ EarliestStart /\ ArraysHold

(* The part of an event's type that its fields have to have. *)
IsEvent(e) ==
    e \in [index : Nat, lane : Lanes, start : Nat, end : 0..MaxSamples, after : SUBSET Nat,
           gate : {NoGate} \cup {<<p>> : p \in Phases}, phase : Int, reaches : (SUBSET Lanes) \ {{}}]

LEMMA LaneTypes ==
    /\ \A a \in Agents : LanesOf(a) \subseteq Lanes
    /\ \A T \in SUBSET Agents : LanesOfAll(T) \subseteq Lanes
    /\ \A a \in Agents : <<a, "z">> \in LanesOf(a)
    /\ \A q \in Qubits : <<q, "xy">> \in Lanes
<1> USE DEF Lanes, LanesOfAll, LanesOf, Agents
<1>1. \A a \in Agents : LanesOf(a) \subseteq Lanes
  OBVIOUS
<1>2. \A T \in SUBSET Agents : LanesOfAll(T) \subseteq Lanes
  OBVIOUS
<1>3. \A a \in Agents : <<a, "z">> \in LanesOf(a)
  OBVIOUS
<1>4. \A q \in Qubits : <<q, "xy">> \in LanesOf(q) /\ q \in Agents
  OBVIOUS
<1> QED BY <1>1, <1>2, <1>3, <1>4 DEF LanesOf

LEMMA EndsTypes ==
    ASSUME TypeOK, NEW L PROVE Ends(L) \subseteq 0..MaxSamples /\ Ends(L) \subseteq Nat
BY ScheduleAssumption DEF TypeOK, Ends

(* What reaches lanes that were joined: everything that reached one of them. *)
LEMMA JoinedEnds ==
    ASSUME NEW L \in SUBSET Lanes, NEW l \in Lanes, TypeOK
    PROVE  {e.end : e \in {f \in Joined(L) : f.reaches \cap {l} # {}}} =
             IF l \in L THEN {e.end : e \in {f \in events : f.reaches \cap L # {}}}
                        ELSE {e.end : e \in {f \in events : f.reaches \cap {l} # {}}}
<1> DEFINE After(e) == [e EXCEPT !.reaches = IF @ \cap L = {} THEN @ ELSE @ \cup L]
<1>1. \A e \in events : /\ After(e).end = e.end
                        /\ After(e).reaches = IF e.reaches \cap L = {} THEN e.reaches
                                              ELSE e.reaches \cup L
  BY DEF TypeOK
<1>2. Joined(L) = {After(e) : e \in events}
  BY DEF Joined
<1>3. \A e \in events : l \in After(e).reaches <=>
        IF l \in L THEN e.reaches \cap L # {} ELSE l \in e.reaches
  BY <1>1
<1> HIDE DEF After
<1>4. {e.end : e \in {f \in Joined(L) : f.reaches \cap {l} # {}}} =
        {e.end : e \in {f \in events : l \in After(f).reaches}}
  <2>1. ASSUME NEW f \in Joined(L), l \in f.reaches
        PROVE  \E e \in events : l \in After(e).reaches /\ e.end = f.end
    BY <1>1, <1>2, <2>1
  <2>2. ASSUME NEW e \in events, l \in After(e).reaches
        PROVE  \E f \in Joined(L) : l \in f.reaches /\ e.end = f.end
    BY <1>1, <1>2, <2>2
  <2> QED BY <2>1, <2>2
<1>5. CASE l \in L
  BY <1>3, <1>4, <1>5
<1>6. CASE l \notin L
  BY <1>3, <1>4, <1>6
<1> QED BY <1>5, <1>6

(* The latest of a set of lanes is the latest end of all that reaches one of them. *)
LEMMA LatestOfLanes ==
    ASSUME CursorsTight, TypeOK, NEW L \in SUBSET Lanes, NEW m, IsLatest(m, L)
    PROVE  m \in Ends(L) /\ (\A x \in Ends(L) : x <= m) /\ m \in 0..MaxSamples
<1>1. PICK l \in L : m = cursors[l]
  BY DEF IsLatest
<1>2. m \in Ends({l})
  BY <1>1 DEF CursorsTight
<1>3. m \in Ends(L)
  BY <1>2 DEF Ends
<1>4. ASSUME NEW x \in Ends(L) PROVE x <= m
  <2>1. CASE x = 0
    BY <1>1, <2>1, ScheduleAssumption DEF TypeOK
  <2>2. CASE x # 0
    <3>1. PICK e \in events : e.reaches \cap L # {} /\ x = e.end
      BY <1>4, <2>2 DEF Ends
    <3>2. PICK k \in L : k \in e.reaches
      BY <3>1
    <3>3. x \in Ends({k})
      BY <3>1, <3>2 DEF Ends
    <3>4. x <= cursors[k] /\ cursors[k] <= m
      BY <3>3 DEF CursorsTight, IsLatest
    <3> QED BY <3>1, <3>4, <1>1, ScheduleAssumption DEF TypeOK
  <2> QED BY <2>1, <2>2
<1> QED BY <1>1, <1>3, <1>4 DEF TypeOK

LEMMA InitInv == Init => Inv
<1> SUFFICES ASSUME Init PROVE Inv
  OBVIOUS
<1> USE ScheduleAssumption DEF Init
<1>1. TypeOK
  BY DEF TypeOK
<1>2. CursorsTight
  BY DEF CursorsTight, Ends
<1>3. EarliestStart /\ ArraysHold
  BY DEF EarliestStart, ArraysHold
<1> QED BY <1>1, <1>2, <1>3 DEF Inv

(* The types of an instruction's new state, from those of what it adds. *)
LEMMA TakeTypes ==
    ASSUME TypeOK, NEW turn \in [Qubits -> Int], Take(turn),
           cursors' \in [Lanes -> 0..MaxSamples], frames' \in [Qubits -> Int],
           \A e \in events' : IsEvent(e)
    PROVE  TypeOK'
BY DEF TypeOK, Take, IsEvent

LEMMA EventTypes ==
    ASSUME TypeOK, NEW lane \in Lanes, NEW start \in Nat, NEW length \in Nat,
           start + length <= MaxSamples, NEW after \in SUBSET Nat,
           NEW gate \in {NoGate} \cup {<<p>> : p \in Phases}, NEW phase \in Int,
           NEW reaches \in (SUBSET Lanes) \ {{}}
    PROVE  IsEvent(Event(lane, start, length, after, gate, phase, reaches))
<1>1. Len(turns) + 1 \in Nat
  BY DEF TypeOK
<1>2. start + length \in 0..MaxSamples
  BY ScheduleAssumption
<1> QED BY <1>1, <1>2 DEF IsEvent, Event
-----------------------------------------------------------------------------
(* CursorsTight, for any events and cursors. *)
EndsIn(S, L) == {0} \cup {e.end : e \in {f \in S : f.reaches \cap L # {}}}

Tight(S, c) ==
    \A l \in Lanes : c[l] \in EndsIn(S, {l}) /\ \A x \in EndsIn(S, {l}) : x <= c[l]

LEMMA TightIsTight == CursorsTight <=> Tight(events, cursors)
BY DEF CursorsTight, Tight, Ends, EndsIn

LEMMA TightAfter == ASSUME Tight(events', cursors') PROVE CursorsTight'
BY DEF CursorsTight, Tight, Ends, EndsIn

LEMMA JoinedTight ==
    ASSUME TypeOK, CursorsTight, NEW L \in SUBSET Lanes, NEW m, IsLatest(m, L)
    PROVE  Tight(Joined(L), [l \in Lanes |-> IF l \in L THEN m ELSE cursors[l]])
<1> DEFINE c == [l \in Lanes |-> IF l \in L THEN m ELSE cursors[l]]
<1>1. ASSUME NEW l \in Lanes
      PROVE  c[l] \in EndsIn(Joined(L), {l}) /\ \A x \in EndsIn(Joined(L), {l}) : x <= c[l]
  <2>1. CASE l \in L
    <3>1. EndsIn(Joined(L), {l}) = Ends(L)
      <4>1. {e.end : e \in {f \in Joined(L) : f.reaches \cap {l} # {}}} =
              {e.end : e \in {f \in events : f.reaches \cap L # {}}}
        BY JoinedEnds, <2>1
      <4> QED BY <4>1 DEF EndsIn, Ends
    <3> QED BY <3>1, <2>1, LatestOfLanes
  <2>2. CASE l \notin L
    <3>1. EndsIn(Joined(L), {l}) = Ends({l})
      <4>1. {e.end : e \in {f \in Joined(L) : f.reaches \cap {l} # {}}} =
              {e.end : e \in {f \in events : f.reaches \cap {l} # {}}}
        BY JoinedEnds, <2>2
      <4> QED BY <4>1 DEF EndsIn, Ends
    <3> QED BY <3>1, <2>2 DEF CursorsTight
  <2> QED BY <2>1, <2>2
<1> QED BY <1>1 DEF Tight

(* Cursors follow what is added. *)
LEMMA TightGrows ==
    ASSUME NEW S, NEW N, NEW c \in [Lanes -> Nat], NEW d \in [Lanes -> Nat], Tight(S, c),
           \A e \in S : e.end \in Nat,
           \A l \in Lanes :
             /\ c[l] <= d[l]
             /\ \A e \in N : l \in e.reaches => e.end \in Nat /\ e.end <= d[l]
             /\ d[l] = c[l] \/ \E e \in N : l \in e.reaches /\ e.end = d[l]
    PROVE  Tight(S \cup N, d)
<1> SUFFICES ASSUME NEW l \in Lanes
             PROVE  d[l] \in EndsIn(S \cup N, {l}) /\ \A x \in EndsIn(S \cup N, {l}) : x <= d[l]
  BY DEF Tight
<1>1. EndsIn(S \cup N, {l}) = EndsIn(S, {l}) \cup {e.end : e \in {f \in N : l \in f.reaches}}
  BY DEF EndsIn
<1>2. c[l] \in EndsIn(S, {l}) /\ \A x \in EndsIn(S, {l}) : x <= c[l]
  BY DEF Tight
<1>3. EndsIn(S, {l}) \subseteq Nat
  BY DEF EndsIn
<1>4. ASSUME NEW x \in EndsIn(S, {l}) PROVE x <= d[l]
  <2>1. x <= c[l] /\ c[l] <= d[l] /\ x \in Nat /\ c[l] \in Nat /\ d[l] \in Nat
    BY <1>2, <1>3
  <2> QED BY <2>1
<1> QED BY <1>1, <1>2, <1>4

(* An event as the four parts of the invariant see it. *)
Waited(e) == e.start \in e.after /\ \A end \in e.after : end <= e.start

(* Every instruction: its types, its cursors, and the starts of what it adds. *)
LEMMA TakeInv ==
    ASSUME Inv, NEW turn \in [Qubits -> Int], Take(turn), frames' \in [Qubits -> Int],
           cursors' \in [Lanes -> 0..MaxSamples],
           \A e \in events' : IsEvent(e) /\ Waited(e),
           Tight(events', cursors')
    PROVE  Inv'
<1>1. TypeOK'
  BY TakeTypes DEF Inv
<1>2. CursorsTight'
  BY TightAfter
<1>3. EarliestStart'
  BY DEF EarliestStart, Waited
<1>4. ArraysHold'
  BY DEF Take, ArraysHold
<1> QED BY <1>1, <1>2, <1>3, <1>4 DEF Inv

LEMMA OldEvents ==
    ASSUME Inv PROVE \A e \in events : IsEvent(e) /\ Waited(e) /\ e.end \in Nat
BY ScheduleAssumption DEF Inv, TypeOK, EarliestStart, IsEvent, Waited

LEMMA JoinedEvents ==
    ASSUME Inv, NEW L \in SUBSET Lanes
    PROVE  \A e \in Joined(L) : IsEvent(e) /\ Waited(e) /\ e.end \in Nat
<1> SUFFICES ASSUME NEW e \in events
             PROVE  LET f == [e EXCEPT !.reaches = IF @ \cap L = {} THEN @ ELSE @ \cup L]
                    IN  IsEvent(f) /\ Waited(f) /\ f.end \in Nat
  BY DEF Joined
<1>1. IsEvent(e) /\ Waited(e) /\ e.end \in Nat
  BY OldEvents
<1> QED BY <1>1 DEF IsEvent, Waited

LEMMA NoTurnType == NoTurn \in [Qubits -> Int]
BY DEF NoTurn

LEMMA RotateKeeps == ASSUME Inv, NEW q \in Qubits, NEW p \in Phases, Rotate(q, p) PROVE Inv'
<1> DEFINE turn == [NoTurn EXCEPT ![q] = p]
<1>1. turn \in [Qubits -> Int]
  BY NoTurnType, ScheduleAssumption
<1>2. frames' \in [Qubits -> Int]
  BY <1>1 DEF Rotate, Turned, Inv, TypeOK
<1>3. Tight(events', cursors')
  BY TightIsTight DEF Rotate, Inv
<1>4. cursors' \in [Lanes -> 0..MaxSamples]
  BY DEF Rotate, Inv, TypeOK
<1>5. \A e \in events' : IsEvent(e) /\ Waited(e)
  BY OldEvents DEF Rotate
<1> QED BY <1>1, <1>2, <1>3, <1>4, <1>5, TakeInv DEF Rotate

LEMMA IdleKeeps == ASSUME Inv, NEW a \in Agents, NEW n \in Lengths, Idle(a, n) PROVE Inv'
<1> DEFINE New(l) == Event(l, cursors[l], n, Ends({l}), NoGate, 0, {l})
           N == {New(l) : l \in LanesOf(a)}
<1>1. n \in Nat /\ LanesOf(a) \subseteq Lanes
  BY ScheduleAssumption, LaneTypes
<1>2. /\ events' = events \cup N
      /\ cursors' = [l \in Lanes |-> IF l \in LanesOf(a) THEN cursors[l] + n ELSE cursors[l]]
      /\ \A l \in LanesOf(a) : cursors[l] + n <= MaxSamples
      /\ frames' = frames /\ Take(NoTurn)
  BY DEF Idle
<1>3. cursors \in [Lanes -> Nat] /\ cursors' \in [Lanes -> 0..MaxSamples] /\ cursors' \in [Lanes -> Nat]
  BY <1>1, <1>2, ScheduleAssumption DEF Inv, TypeOK
<1>4. ASSUME NEW l \in LanesOf(a)
      PROVE  /\ IsEvent(New(l)) /\ Waited(New(l))
             /\ New(l).reaches = {l} /\ New(l).end = cursors[l] + n
  <2>1. l \in Lanes /\ cursors[l] \in Nat /\ cursors[l] + n <= MaxSamples
    BY <1>1, <1>2, <1>3
  <2>2. Ends({l}) \in SUBSET Nat
    BY EndsTypes DEF Inv
  <2>3. IsEvent(New(l))
    <3>1. NoGate \in {NoGate} \cup {<<p>> : p \in Phases} /\ 0 \in Int /\ {l} \in (SUBSET Lanes) \ {{}}
      BY <2>1
    <3>2. TypeOK
      BY DEF Inv
    <3> HIDE DEF New
    <3>3. IsEvent(Event(l, cursors[l], n, Ends({l}), NoGate, 0, {l}))
      BY <3>1, <3>2, <2>1, <2>2, <1>1, EventTypes
    <3> QED BY <3>3 DEF New
  <2>4. Waited(New(l))
    BY <2>1 DEF Waited, Event, Inv, CursorsTight
  <2> QED BY <2>3, <2>4 DEF Event
<1>5. \A e \in events' : IsEvent(e) /\ Waited(e)
  BY <1>2, <1>4, OldEvents
<1> HIDE DEF New
<1>6. Tight(events', cursors')
  <2>1. ASSUME NEW l \in Lanes
        PROVE  /\ cursors[l] <= cursors'[l]
               /\ \A e \in N : l \in e.reaches => e.end \in Nat /\ e.end <= cursors'[l]
               /\ cursors'[l] = cursors[l] \/ \E e \in N : l \in e.reaches /\ e.end = cursors'[l]
    <3>1. cursors[l] \in Nat
      BY <1>3
    <3>2. CASE l \in LanesOf(a)
      <4>1. cursors'[l] = cursors[l] + n /\ cursors[l] <= cursors'[l]
        BY <3>1, <3>2, <1>1, <1>2
      <4>2. \A e \in N : l \in e.reaches => e = New(l)
        BY <1>4
      <4> QED BY <4>1, <4>2, <3>1, <3>2, <1>1, <1>4
    <3>3. CASE l \notin LanesOf(a)
      <4>1. \A e \in N : l \notin e.reaches
        BY <3>3, <1>4
      <4> QED BY <4>1, <3>1, <3>3, <1>2
    <3> QED BY <3>2, <3>3
  <2>2. Tight(events, cursors)
    BY TightIsTight DEF Inv
  <2> HIDE DEF N
  <2> QED BY <2>1, <2>2, <1>2, <1>3, OldEvents, TightGrows
<1>7. frames' \in [Qubits -> Int]
  BY <1>2 DEF Inv, TypeOK
<1> QED BY <1>2, <1>3, <1>5, <1>6, <1>7, NoTurnType, TakeInv

LEMMA BarrierKeeps == ASSUME Inv, NEW T \in SUBSET Agents, Barrier(T) PROVE Inv'
<1> DEFINE L == LanesOfAll(T)
<1>1. L \in SUBSET Lanes
  BY LaneTypes
<1>2. PICK m : /\ IsLatest(m, L)
               /\ cursors' = [l \in Lanes |-> IF l \in L THEN m ELSE cursors[l]]
               /\ events' = Joined(L) /\ frames' = frames /\ Take(NoTurn)
  BY DEF Barrier
<1> HIDE DEF L
<1>3. Tight(events', cursors')
  BY <1>1, <1>2, JoinedTight DEF Inv
<1>4. cursors' \in [Lanes -> 0..MaxSamples]
  BY <1>1, <1>2, LatestOfLanes DEF Inv, TypeOK
<1>5. \A e \in events' : IsEvent(e) /\ Waited(e)
  BY <1>1, <1>2, JoinedEvents
<1>6. frames' \in [Qubits -> Int]
  BY <1>2 DEF Inv, TypeOK
<1> QED BY <1>2, <1>3, <1>4, <1>5, <1>6, NoTurnType, TakeInv

(* What a pulse that started when it could adds to the invariant. *)
PulseIs(lane, start, n, after, gate, phase) ==
    LET e == Event(lane, start, n, after, gate, phase, {lane}) IN
    IsEvent(e) /\ Waited(e) /\ e.reaches = {lane} /\ e.end \in Nat /\ e.end = start + n

LEMMA PulseIsEvent ==
    ASSUME Inv, NEW lane \in Lanes, NEW start \in Nat, NEW n \in Nat, start + n <= MaxSamples,
           NEW after \in SUBSET Nat, start \in after, \A x \in after : x <= start,
           NEW gate \in {NoGate} \cup {<<p>> : p \in Phases}, NEW phase \in Int
    PROVE  PulseIs(lane, start, n, after, gate, phase)
<1>1. {lane} \in (SUBSET Lanes) \ {{}} /\ TypeOK
  BY DEF Inv
<1>2. IsEvent(Event(lane, start, n, after, gate, phase, {lane}))
  BY <1>1, EventTypes
<1> QED BY <1>2 DEF PulseIs, Event, Waited

(* Pulses on one lane, the last of which moves its cursor to its end or leaves it. *)
LEMMA LaneKeeps ==
    ASSUME Inv, NEW lane \in Lanes, NEW end \in 0..MaxSamples, NEW N,
           \A e \in N : /\ IsEvent(e) /\ Waited(e) /\ e.reaches = {lane}
                        /\ e.end \in Nat /\ e.end <= end,
           \E e \in N : e.end = end,
           Take(NoTurn), cursors' = Reserved(lane, end), UNCHANGED frames, events' = events \cup N
    PROVE  Inv'
<1> DEFINE c == cursors'
<1>1. /\ cursors \in [Lanes -> Nat] /\ cursors \in [Lanes -> 0..MaxSamples]
      /\ end \in Nat
  BY ScheduleAssumption DEF Inv, TypeOK
<1>2. c = [cursors EXCEPT ![lane] = Later(cursors[lane], end)]
  BY DEF Reserved
<1>3. Later(cursors[lane], end) \in 0..MaxSamples /\ Later(cursors[lane], end) \in Nat
  BY <1>1 DEF Later
<1>4. c \in [Lanes -> Nat] /\ c \in [Lanes -> 0..MaxSamples]
  BY <1>1, <1>2, <1>3
<1>5. \A f \in events' : IsEvent(f) /\ Waited(f)
  BY OldEvents
<1>6. frames' \in [Qubits -> Int]
  BY DEF Inv, TypeOK
<1> HIDE DEF c
<1>7. ASSUME NEW l \in Lanes
      PROVE  /\ cursors[l] <= c[l]
             /\ \A f \in N : l \in f.reaches => f.end \in Nat /\ f.end <= c[l]
             /\ c[l] = cursors[l] \/ \E f \in N : l \in f.reaches /\ f.end = c[l]
  <2>1. cursors[l] \in Nat
    BY <1>1
  <2>2. CASE l = lane
    <3>1. c[l] = Later(cursors[l], end)
      BY <1>1, <1>2, <2>2
    <3>2. cursors[l] <= c[l] /\ end <= c[l] /\ (c[l] = cursors[l] \/ c[l] = end)
      BY <3>1, <2>1, <1>1 DEF Later
    <3>3. ASSUME NEW f \in N PROVE f.end \in Nat /\ f.end <= c[l]
      <4>1. f.end \in Nat /\ f.end <= end
        OBVIOUS
      <4>2. c[l] \in Nat
        BY <1>4
      <4> QED BY <4>1, <4>2, <3>2, <1>1
    <3> QED BY <3>2, <3>3, <2>2
  <2>3. CASE l # lane
    <3>1. c[l] = cursors[l]
      BY <1>1, <1>2, <2>3
    <3>2. \A f \in N : l \notin f.reaches
      BY <2>3
    <3> QED BY <3>1, <3>2, <2>1
  <2> QED BY <2>2, <2>3
<1>8. Tight(events', cursors')
  <2>1. Tight(events, cursors) /\ \A f \in events : f.end \in Nat
    BY TightIsTight, OldEvents DEF Inv
  <2>2. Tight(events \cup N, c)
    BY <2>1, <1>1, <1>4, <1>7, TightGrows
  <2> QED BY <2>2 DEF c
<1> QED BY <1>4, <1>5, <1>6, <1>8, NoTurnType, TakeInv DEF c

LEMMA PulseKeeps ==
    ASSUME Inv, NEW lane \in Lanes, NEW start \in Nat, NEW n \in Nat, start + n <= MaxSamples,
           NEW after \in SUBSET Nat, start \in after, \A x \in after : x <= start,
           Take(NoTurn), cursors' = Reserved(lane, start + n), UNCHANGED frames,
           events' = events \cup {Event(lane, start, n, after, NoGate, 0, {lane})}
    PROVE  Inv'
<1>1. PulseIs(lane, start, n, after, NoGate, 0)
  BY PulseIsEvent
<1>2. start + n \in 0..MaxSamples
  BY ScheduleAssumption
<1> DEFINE e == Event(lane, start, n, after, NoGate, 0, {lane})
           N == {e}
<1>3. IsEvent(e) /\ Waited(e) /\ e.reaches = {lane} /\ e.end \in Nat /\ e.end = start + n
  BY <1>1 DEF PulseIs
<1> HIDE DEF e
<1>4. /\ \A f \in N : /\ IsEvent(f) /\ Waited(f) /\ f.reaches = {lane}
                      /\ f.end \in Nat /\ f.end <= start + n
      /\ \E f \in N : f.end = start + n
  BY <1>3
<1>5. events' = events \cup N
  BY DEF e
<1> HIDE DEF N
<1> QED BY <1>2, <1>4, <1>5, LaneKeeps

LEMMA AppendPulseKeeps ==
    ASSUME Inv, NEW lane \in Lanes, NEW n \in Lengths, AppendPulse(lane, n) PROVE Inv'
<1>1. n \in Nat /\ cursors[lane] \in Nat
  BY ScheduleAssumption DEF Inv, TypeOK
<1>2. Ends({lane}) \in SUBSET Nat
  BY EndsTypes DEF Inv
<1>3. cursors[lane] \in Ends({lane}) /\ \A x \in Ends({lane}) : x <= cursors[lane]
  BY DEF Inv, CursorsTight
<1> QED BY <1>1, <1>2, <1>3, PulseKeeps DEF AppendPulse

LEMMA PlacePulseKeeps ==
    ASSUME Inv, NEW lane \in Lanes, NEW s \in Starts, NEW n \in Lengths, PlacePulse(lane, s, n)
    PROVE  Inv'
<1>1. n \in Nat /\ s \in Nat /\ {s} \in SUBSET Nat
  BY ScheduleAssumption
<1>2. s \in {s} /\ \A x \in {s} : x <= s
  BY <1>1
<1> QED BY <1>1, <1>2, PulseKeeps DEF PlacePulse

(* The pulses of a gate follow the cursor of its lane and each other without a gap. *)
LEMMA GateKeeps ==
    ASSUME Inv, NEW q \in Qubits, NEW p \in Phases, NEW half \in BOOLEAN, Gate(q, p, half)
    PROVE  Inv'
<1> DEFINE lane == <<q, "xy">>
           at == cursors[lane]
           count == PulsesOf(q, half)
           absolute == p + Offset + frames[q]
           end(k) == at + k * PulseLength
           after(k) == Ends({lane}) \cup {end(j) : j \in 1..k - 1}
           pulse(k) == Event(lane, end(k - 1), PulseLength, after(k), <<p>>, absolute, {lane})
           N == {pulse(k) : k \in 1..count}
<1>1. /\ lane \in Lanes /\ at \in Nat /\ absolute \in Int /\ PulseLength \in Nat \ {0}
      /\ <<p>> \in {NoGate} \cup {<<x>> : x \in Phases}
  BY LaneTypes, ScheduleAssumption DEF Inv, TypeOK
<1>2. /\ end(count) <= MaxSamples /\ cursors' = Reserved(lane, end(count))
      /\ Take(NoTurn) /\ events' = events \cup N /\ UNCHANGED frames
  BY DEF Gate
<1>3. count \in {1, 2}
  BY DEF PulsesOf
<1>4. at \in Ends({lane}) /\ (\A x \in Ends({lane}) : x <= at) /\ Ends({lane}) \in SUBSET Nat
  BY <1>1, EndsTypes DEF Inv, CursorsTight
<1>5. /\ end(0) = at /\ end(1) = at + PulseLength /\ end(2) = at + PulseLength + PulseLength
      /\ after(1) = Ends({lane}) /\ after(2) = Ends({lane}) \cup {end(1)}
  <2>1. 1..1 - 1 = {} /\ 1..2 - 1 = {1}
    OBVIOUS
  <2> QED BY <2>1, <1>1
<1>6. PulseIs(lane, end(0), PulseLength, after(1), <<p>>, absolute)
  <2>1. at + PulseLength <= MaxSamples
    BY <1>1, <1>2, <1>3, <1>5, ScheduleAssumption
  <2> HIDE DEF lane, at, absolute, end, after
  <2> QED BY <2>1, <1>1, <1>4, <1>5, PulseIsEvent
<1>7. CASE count = 1
  <2>1. N = {pulse(1)} /\ 1 - 1 = 0
    <3>1. 1..count = {1}
      BY <1>7
    <3> HIDE DEF pulse
    <3> QED BY <3>1
  <2>2. \E e \in N : /\ N = {e} /\ IsEvent(e) /\ Waited(e) /\ e.reaches = {lane}
                     /\ e.end \in Nat /\ e.end = end(count)
    BY <2>1, <1>5, <1>6, <1>7 DEF PulseIs
  <2>3. end(count) \in 0..MaxSamples
    BY <1>1, <1>2, <1>5, <1>7, ScheduleAssumption
  <2> HIDE DEF N, lane, end, count, at, absolute, after, pulse
  <2>4. /\ \A e \in N : /\ IsEvent(e) /\ Waited(e) /\ e.reaches = {lane}
                        /\ e.end \in Nat /\ e.end <= end(count)
        /\ \E e \in N : e.end = end(count)
    BY <2>2
  <2> QED BY <2>3, <2>4, <1>1, <1>2, LaneKeeps
<1>8. CASE count = 2
  <2>1. N = {pulse(1), pulse(2)} /\ 1 - 1 = 0 /\ 2 - 1 = 1
    <3>1. 1..count = {1, 2}
      BY <1>8
    <3> HIDE DEF pulse
    <3> QED BY <3>1
  <2>2. /\ end(1) \in Nat /\ end(1) + PulseLength = end(2) /\ end(1) + PulseLength <= MaxSamples
        /\ end(1) <= end(2) /\ end(2) \in 0..MaxSamples
    BY <1>1, <1>2, <1>5, <1>8, ScheduleAssumption
  <2>3. PulseIs(lane, end(1), PulseLength, after(2), <<p>>, absolute)
    <3>1. ASSUME NEW x \in Ends({lane}) PROVE x \in Nat /\ x <= end(1)
      <4>1. x \in Nat /\ x <= at
        BY <1>4
      <4> HIDE DEF at
      <4> QED BY <4>1, <1>1, <1>5
    <3> HIDE DEF end, after, at
    <3>2. after(2) \in SUBSET Nat /\ end(1) \in after(2) /\ \A x \in after(2) : x <= end(1)
      BY <3>1, <2>2, <1>5
    <3> HIDE DEF lane, at, absolute, end, after
    <3> QED BY <3>2, <2>2, <1>1, PulseIsEvent
  <2>4. \E e, f \in N : /\ N = {e, f} /\ IsEvent(e) /\ Waited(e) /\ e.reaches = {lane}
                        /\ e.end \in Nat /\ e.end = end(1)
                        /\ IsEvent(f) /\ Waited(f) /\ f.reaches = {lane}
                        /\ f.end \in Nat /\ f.end = end(count)
    BY <2>1, <2>2, <2>3, <1>5, <1>6, <1>8 DEF PulseIs
  <2> HIDE DEF N, lane, end, count, at, absolute, after, pulse
  <2>5. end(count) \in 0..MaxSamples /\ end(1) <= end(count)
    BY <2>2, <1>8
  <2>6. /\ \A e \in N : /\ IsEvent(e) /\ Waited(e) /\ e.reaches = {lane}
                        /\ e.end \in Nat /\ e.end <= end(count)
        /\ \E e \in N : e.end = end(count)
    BY <2>4, <2>5
  <2> QED BY <2>5, <2>6, <1>1, <1>2, LaneKeeps
<1> QED BY <1>3, <1>7, <1>8

LEMMA CompositeTypes ==
    ASSUME NEW c \in Couplers
    PROVE  /\ c \in AgentsOf(c) /\ AgentsOf(c) \subseteq Agents
           /\ LanesOfAll(AgentsOf(c)) \in (SUBSET Lanes) \ {{}}
           /\ \A a \in AgentsOf(c) : <<a, "z">> \in Lanes
           /\ Corrections(c) \in [Qubits -> Int]
<1>1. PICK p \in Qubits, q \in Qubits : p # q /\ Endpoints[c] = <<p, q>>
  BY ScheduleAssumption
<1>2. Endpoints[c][1] \in Qubits /\ Endpoints[c][2] \in Qubits
  BY <1>1
<1>3. AgentsOf(c) \subseteq Agents /\ c \in AgentsOf(c)
  BY <1>2 DEF AgentsOf, Agents
<1>4. /\ LanesOfAll(AgentsOf(c)) \in (SUBSET Lanes) \ {{}}
      /\ \A a \in AgentsOf(c) : <<a, "z">> \in Lanes
  <2>1. <<c, "z">> \in LanesOfAll(AgentsOf(c))
    BY <1>3, LaneTypes DEF LanesOfAll
  <2> QED BY <2>1, <1>3, LaneTypes
<1>5. Corrections(c) \in [Qubits -> Int]
  <2>1. DynamicPhase[1] \in Int /\ DynamicPhase[2] \in Int
    BY ScheduleAssumption
  <2> QED BY <2>1 DEF Corrections
<1> QED BY <1>3, <1>4, <1>5

LEMMA CompositeKeeps == ASSUME Inv, NEW c \in Couplers, Composite(c) PROVE Inv'
<1> DEFINE L == LanesOfAll(AgentsOf(c))
           New(a, s) == Event(<<a, "z">>, s, GateLength, Ends(L), NoGate, 0, L)
<1>1. PICK start :
        /\ IsLatest(start, L) /\ start + GateLength <= MaxSamples
        /\ cursors' = [l \in Lanes |-> IF l \in L THEN start + GateLength ELSE cursors[l]]
        /\ events' = Joined(L) \cup {New(a, start) : a \in AgentsOf(c)}
  BY DEF Composite
<1> DEFINE N == {New(a, start) : a \in AgentsOf(c)}
           base == [l \in Lanes |-> IF l \in L THEN start ELSE cursors[l]]
           d == cursors'
<1>2. Take(Corrections(c)) /\ frames' = Turned(Corrections(c))
  BY DEF Composite
<1>3. /\ L \in SUBSET Lanes /\ L # {} /\ Corrections(c) \in [Qubits -> Int]
      /\ \A a \in AgentsOf(c) : <<a, "z">> \in Lanes
      /\ GateLength \in Nat
  BY CompositeTypes, ScheduleAssumption
<1>4. /\ start \in Ends(L) /\ (\A x \in Ends(L) : x <= start) /\ start \in Nat
      /\ Ends(L) \in SUBSET Nat
  BY <1>1, <1>3, LatestOfLanes, EndsTypes DEF Inv
<1>5. ASSUME NEW a \in AgentsOf(c)
      PROVE  /\ IsEvent(New(a, start)) /\ Waited(New(a, start))
             /\ New(a, start).reaches = L /\ New(a, start).end = start + GateLength
  <2> HIDE DEF L
  <2>1. <<a, "z">> \in Lanes /\ TypeOK /\ NoGate \in {NoGate} \cup {<<p>> : p \in Phases}
    BY <1>3 DEF Inv
  <2>2. IsEvent(Event(<<a, "z">>, start, GateLength, Ends(L), NoGate, 0, L))
    BY <2>1, <1>1, <1>3, <1>4, EventTypes
  <2> QED BY <2>2, <1>4 DEF Event, Waited
<1>6. \A l \in Lanes : cursors[l] \in Nat /\ cursors[l] \in 0..MaxSamples
  BY ScheduleAssumption DEF Inv, TypeOK
<1>7. base \in [Lanes -> Nat] /\ d \in [Lanes -> Nat] /\ d \in [Lanes -> 0..MaxSamples]
  BY <1>1, <1>3, <1>4, <1>6, ScheduleAssumption
<1>8. Tight(Joined(L), base)
  BY <1>1, <1>3, JoinedTight DEF Inv
<1>9. \A e \in events' : IsEvent(e) /\ Waited(e)
  BY <1>1, <1>3, <1>5, JoinedEvents
<1>10. ASSUME NEW l \in Lanes
       PROVE  /\ base[l] <= d[l]
              /\ \A e \in N : l \in e.reaches => e.end \in Nat /\ e.end <= d[l]
              /\ d[l] = base[l] \/ \E e \in N : l \in e.reaches /\ e.end = d[l]
  <2> HIDE DEF New, L
  <2>1. CASE l \in L
    <3>1. base[l] = start /\ d[l] = start + GateLength
      BY <1>1, <2>1
    <3>2. c \in AgentsOf(c)
      BY CompositeTypes
    <3>3. New(c, start) \in N /\ New(c, start).reaches = L /\ New(c, start).end = start + GateLength
      BY <3>2, <1>5
    <3>4. \A e \in N : e.end = start + GateLength
      BY <1>5
    <3> HIDE DEF N, base, d
    <3> QED BY <3>1, <3>3, <3>4, <2>1, <1>3, <1>4
  <2>2. CASE l \notin L
    <3>1. base[l] = cursors[l] /\ d[l] = cursors[l]
      BY <1>1, <2>2
    <3>2. \A e \in N : l \notin e.reaches
      BY <2>2, <1>5
    <3> HIDE DEF N, base, d
    <3> QED BY <3>1, <3>2, <1>6
  <2> QED BY <2>1, <2>2
<1>11. Tight(events', cursors')
  <2>1. events' = Joined(L) \cup N
    BY <1>1
  <2>2. \A e \in Joined(L) : e.end \in Nat
    BY <1>3, JoinedEvents
  <2> HIDE DEF N, base, d, L
  <2>3. Tight(Joined(L) \cup N, d)
    BY <2>2, <1>7, <1>8, <1>10, TightGrows
  <2> QED BY <2>1, <2>3 DEF d
<1>12. frames' \in [Qubits -> Int]
  BY <1>2, <1>3 DEF Turned, Inv, TypeOK
<1> QED BY <1>2, <1>3, <1>7, <1>9, <1>11, <1>12, TakeInv

LEMMA RefuseKeeps == ASSUME Inv, Refuse PROVE Inv'
BY DEF Refuse, Inv, TypeOK, CursorsTight, Ends, EarliestStart, ArraysHold

(* The longest lane ends with the last of the events. *)
LEMMA FinishKeeps == ASSUME Inv, Finish PROVE Inv'
<1>1. PICK m : IsLatest(m, Lanes) /\ samples' = m
  BY DEF Finish
<1>2. m \in Ends(Lanes) /\ (\A x \in Ends(Lanes) : x <= m) /\ m \in 0..MaxSamples
  BY <1>1, LatestOfLanes DEF Inv
<1>3. UNCHANGED <<turns, cursors, frames, events>> /\ status' = "compiled"
  BY DEF Finish
<1>4. TypeOK' /\ CursorsTight' /\ EarliestStart'
  BY <1>1, <1>2, <1>3, ScheduleAssumption DEF Inv, TypeOK, CursorsTight, Ends, EarliestStart
<1>5. ArraysHold'
  <2>1. \A e \in events : e.reaches \cap Lanes # {}
    BY DEF Inv, TypeOK
  <2>2. \A e \in events : e.end <= m
    BY <2>1, <1>2 DEF Ends
  <2>3. m = 0 \/ \E e \in events : e.end = m
    BY <1>2 DEF Ends
  <2> QED BY <2>2, <2>3, <1>1, <1>2, <1>3, ScheduleAssumption DEF ArraysHold
<1> QED BY <1>4, <1>5 DEF Inv

LEMMA NextInv == ASSUME Inv, [Next]_vars PROVE Inv'
<1>1. CASE Next
  BY <1>1, RotateKeeps, IdleKeeps, BarrierKeeps, AppendPulseKeeps, PlacePulseKeeps, GateKeeps,
     CompositeKeeps, RefuseKeeps, FinishKeeps DEF Next
<1>2. CASE UNCHANGED vars
  BY <1>2 DEF vars, Inv, TypeOK, CursorsTight, Ends, EarliestStart, ArraysHold
<1> QED BY <1>1, <1>2

LEMMA AlwaysInv == Spec => []Inv
BY InitInv, NextInv, PTL DEF Spec

(* Whatever the program, the agents, the settings and the budget: every appended pulse      *)
(* starts as early as the pulses and idles that reach its lanes allow, and no earlier.      *)
THEOREM ScheduleSound == Spec => [](TypeOK /\ EarliestStart)
<1>1. Inv => TypeOK /\ EarliestStart
  BY DEF Inv
<1> QED BY <1>1, AlwaysInv, PTL

(* The arrays hold all that lies on the lanes, within the budget, and are no longer than    *)
(* the last pulse needs.                                                                    *)
THEOREM ArraysWhole == Spec => []ArraysHold
<1>1. Inv => ArraysHold
  BY DEF Inv
<1> QED BY <1>1, AlwaysInv, PTL

-----------------------------------------------------------------------------
(* The equations of TurnedBy, for a program T.  That they have one solution is not proved by *)
(* induction over a program but along the behaviour: an instruction more adds one value.     *)
IsSum(T, s) ==
    s = [k \in 0..Len(T) |-> IF k = 0 THEN NoTurn ELSE [q \in Qubits |-> s[k - 1][q] + T[k][q]]]

OnlySum(T, s) == IsSum(T, s) /\ \A u : IsSum(T, u) => u = s
OneSum(T) == \E s : OnlySum(T, s)

(* The sums v of one instruction more than those of s. *)
Extends(n, t, s, v) ==
    /\ \A k \in 0..n : v[k] = s[k]
    /\ v[n + 1] = [q \in Qubits |-> s[n][q] + t[q]]

(* Frames are what the program has turned so far, and a gate has the phase of its place in it. *)
InFrame(e) == e.gate # NoGate => e.phase = e.gate[1] + Offset + TurnedBy[e.index - 1][e.lane[1]]

PhaseInv ==
    /\ OneSum(turns)
    /\ frames = TurnedBy[Len(turns)]
    /\ \A e \in events : e.index \in 1..Len(turns) /\ InFrame(e)

LEMMA TurnedIsSum == ASSUME OneSum(turns) PROVE IsSum(turns, TurnedBy)
<1>1. \E s : IsSum(turns, s)
  BY DEF OneSum, OnlySum
<1> QED BY <1>1, Zenon DEF IsSum, TurnedBy

LEMMA TurnedIsSumNext == ASSUME OneSum(turns)' PROVE IsSum(turns', TurnedBy')
<1>1. \E s : IsSum(turns', s)
  BY DEF OneSum, OnlySum
<1> QED BY <1>1, Zenon DEF IsSum, TurnedBy

(* The sums of a program that is one instruction longer. *)
LEMMA SumGrows ==
    ASSUME NEW T \in Seq([Qubits -> Int]), NEW t \in [Qubits -> Int], NEW s, OnlySum(T, s)
    PROVE  /\ OneSum(Append(T, t))
           /\ \A v : IsSum(Append(T, t), v) => Extends(Len(T), t, s, v)
<1> DEFINE n == Len(T)
           A == Append(T, t)
           last == [q \in Qubits |-> s[n][q] + t[q]]
           w == [k \in 0..n + 1 |-> IF k = n + 1 THEN last ELSE s[k]]
<1>1. /\ n \in Nat /\ Len(A) = n + 1 /\ A[n + 1] = t /\ \A k \in 1..n : A[k] = T[k]
      /\ 0..n \subseteq 0..n + 1 /\ n + 1 \notin 0..n
  OBVIOUS
<1>2. /\ DOMAIN s = 0..n /\ s[0] = NoTurn
      /\ \A k \in 1..n : s[k] = [q \in Qubits |-> s[k - 1][q] + T[k][q]]
      /\ s = [k \in 0..n |-> s[k]]
  <2> DEFINE f(k) == IF k = 0 THEN NoTurn ELSE [q \in Qubits |-> s[k - 1][q] + T[k][q]]
  <2>1. s = [k \in 0..n |-> f(k)]
    BY DEF IsSum, OnlySum
  <2>2. f(0) = NoTurn /\ \A k \in 1..n : f(k) = [q \in Qubits |-> s[k - 1][q] + T[k][q]]
    BY <1>1
  <2>3. 0 \in 0..n /\ 1..n \subseteq 0..n
    BY <1>1
  <2> HIDE DEF f
  <2>4. DOMAIN s = 0..n /\ \A k \in 0..n : s[k] = f(k)
    BY <2>1
  <2>5. s = [k \in 0..n |-> s[k]]
    BY <2>1, <2>4
  <2> QED BY <2>2, <2>3, <2>4, <2>5
<1> HIDE DEF n, A
<1>3. ASSUME NEW v, IsSum(A, v) PROVE v = w
  <2> DEFINE u == [k \in 0..n |-> v[k]]
  <2>1. /\ v = [k \in 0..n + 1 |-> v[k]] /\ v[0] = NoTurn
        /\ \A k \in 1..n + 1 : v[k] = [q \in Qubits |-> v[k - 1][q] + A[k][q]]
    <3> DEFINE f(k) == IF k = 0 THEN NoTurn ELSE [q \in Qubits |-> v[k - 1][q] + A[k][q]]
    <3>1. v = [k \in 0..n + 1 |-> f(k)]
      BY <1>1, <1>3 DEF IsSum
    <3>2. f(0) = NoTurn /\ \A k \in 1..n + 1 : f(k) = [q \in Qubits |-> v[k - 1][q] + A[k][q]]
      BY <1>1
    <3>3. 0 \in 0..n + 1 /\ 1..n + 1 \subseteq 0..n + 1
      BY <1>1
    <3> HIDE DEF f
    <3>4. DOMAIN v = 0..n + 1 /\ \A k \in 0..n + 1 : v[k] = f(k)
      BY <3>1
    <3>5. v = [k \in 0..n + 1 |-> v[k]]
      BY <3>1, <3>4
    <3> QED BY <3>2, <3>3, <3>4, <3>5
  <2>2. u = s
    <3>1. ASSUME NEW k \in 0..n
          PROVE  u[k] = IF k = 0 THEN NoTurn ELSE [q \in Qubits |-> u[k - 1][q] + T[k][q]]
      <4>1. CASE k = 0
        <5>1. u[0] = v[0] /\ v[0] = NoTurn
          BY <2>1, <3>1, <4>1
        <5> QED BY <4>1, <5>1
      <4>2. CASE k # 0
        <5>1. k \in 1..n /\ k \in 1..n + 1 /\ k - 1 \in 0..n /\ k \in 0..n
          BY <1>1, <4>2
        <5>2. v[k] = [q \in Qubits |-> v[k - 1][q] + A[k][q]] /\ A[k] = T[k]
          BY <1>1, <2>1, <5>1
        <5>3. u[k] = v[k] /\ u[k - 1] = v[k - 1]
          BY <5>1
        <5> QED BY <4>2, <5>2, <5>3
      <4> QED BY <4>1, <4>2
    <3>2. u = [k \in 0..n |-> IF k = 0 THEN NoTurn ELSE [q \in Qubits |-> u[k - 1][q] + T[k][q]]]
      BY <3>1
    <3>3. IsSum(T, u)
      BY <3>2 DEF IsSum, n
    <3> QED BY <3>3 DEF OnlySum
  <2>3. \A k \in 0..n : v[k] = s[k]
    BY <2>2
  <2>4. v[n + 1] = last
    <3>1. v[n + 1] = [q \in Qubits |-> v[n][q] + t[q]]
      <4> DEFINE m == n + 1
      <4>1. m \in 1..n + 1 /\ m - 1 = n /\ A[m] = t
        BY <1>1
      <4> HIDE DEF m
      <4>2. v[m] = [q \in Qubits |-> v[m - 1][q] + A[m][q]]
        BY <2>1, <4>1
      <4>3. v[m] = [q \in Qubits |-> v[n][q] + t[q]]
        BY <4>1, <4>2
      <4> QED BY <4>3 DEF m
    <3> QED BY <1>1, <2>3, <3>1
  <2>5. \A k \in 0..n + 1 : v[k] = IF k = n + 1 THEN last ELSE s[k]
    BY <1>1, <2>3, <2>4
  <2> HIDE DEF u, last
  <2> QED BY <2>1, <2>5
<1>4. IsSum(A, w)
  <2>1. ASSUME NEW k \in 0..n + 1
        PROVE  w[k] = IF k = 0 THEN NoTurn ELSE [q \in Qubits |-> w[k - 1][q] + A[k][q]]
    <3>1. CASE k = 0
      BY <1>1, <1>2, <3>1
    <3>2. CASE k \in 1..n
      <4>1. k - 1 \in 0..n /\ k \in 0..n /\ k # 0
        BY <1>1, <3>2
      <4>2. w[k] = s[k] /\ w[k - 1] = s[k - 1] /\ A[k] = T[k]
        BY <1>1, <3>2, <4>1
      <4> QED BY <1>2, <3>2, <4>1, <4>2
    <3>3. CASE k = n + 1
      <4>1. k - 1 = n /\ n \in 0..n /\ k # 0
        BY <1>1, <3>3
      <4>2. w[k] = last /\ w[k - 1] = s[n] /\ A[k] = t
        BY <1>1, <3>3, <4>1
      <4> HIDE DEF w
      <4>3. last = [q \in Qubits |-> w[k - 1][q] + A[k][q]]
        BY <4>2
      <4> QED BY <4>1, <4>2, <4>3
    <3> QED BY <1>1, <3>1, <3>2, <3>3
  <2>2. w = [k \in 0..n + 1 |-> IF k = 0 THEN NoTurn ELSE [q \in Qubits |-> w[k - 1][q] + A[k][q]]]
    BY <2>1
  <2> QED BY <1>1, <2>2 DEF IsSum
<1>5. OneSum(A)
  BY <1>3, <1>4 DEF OneSum, OnlySum
<1>6. (\A k \in 0..n : w[k] = s[k]) /\ w[n + 1] = last
  BY <1>1
<1> HIDE DEF w
<1> QED BY <1>3, <1>5, <1>6 DEF n, A, Extends

LEMMA SumOfNone == OneSum(<<>>)
<1> DEFINE w == [k \in 0..0 |-> NoTurn]
<1>1. Len(<<>>) = 0 /\ \A k \in 0..0 : k = 0
  OBVIOUS
<1>2. IsSum(<<>>, w)
  BY <1>1 DEF IsSum
<1>3. ASSUME NEW u, IsSum(<<>>, u) PROVE u = w
  BY <1>1, <1>3 DEF IsSum
<1> QED BY <1>2, <1>3 DEF OneSum, OnlySum
-----------------------------------------------------------------------------
(* An instruction turns the frames as it turns the sum, and leaves the sums before it alone. *)
LEMMA TakeTurns ==
    ASSUME TypeOK, PhaseInv, NEW turn \in [Qubits -> Int], Take(turn), frames' = Turned(turn)
    PROVE  /\ OneSum(turns)' /\ frames' = TurnedBy'[Len(turns')] /\ Len(turns') = Len(turns) + 1
           /\ \A k \in 0..Len(turns) : TurnedBy'[k] = TurnedBy[k]
<1>1. turns \in Seq([Qubits -> Int]) /\ turns' = Append(turns, turn) /\ Len(turns) \in Nat
  BY DEF TypeOK, Take
<1>2. OnlySum(turns, TurnedBy)
  BY TurnedIsSum DEF PhaseInv, OneSum, OnlySum
<1>3. /\ OneSum(Append(turns, turn))
      /\ \A v : IsSum(Append(turns, turn), v) => Extends(Len(turns), turn, TurnedBy, v)
  <2> DEFINE s == TurnedBy
  <2>1. OnlySum(turns, s)
    BY <1>2
  <2> HIDE DEF s
  <2>2. OneSum(Append(turns, turn)) /\ \A v : IsSum(Append(turns, turn), v) => Extends(Len(turns), turn, s, v)
    BY <1>1, <2>1, SumGrows
  <2> QED BY <2>2 DEF s
<1>4. OneSum(turns)'
  BY <1>1, <1>3
<1>5. IsSum(Append(turns, turn), TurnedBy')
  BY <1>1, <1>4, TurnedIsSumNext
<1>6. Extends(Len(turns), turn, TurnedBy, TurnedBy')
  <2> DEFINE z == TurnedBy'
  <2> HIDE DEF z
  <2>1. IsSum(Append(turns, turn), z)
    BY <1>5 DEF z
  <2>2. Extends(Len(turns), turn, TurnedBy, z)
    BY <1>3, <2>1
  <2> QED BY <2>2 DEF z
<1>7. Len(turns') = Len(turns) + 1
  BY <1>1
<1> QED BY <1>4, <1>6, <1>7 DEF Turned, PhaseInv, Extends

(* What an event says of its gate stays; what is added is in the frame of now. *)
Kept(e) == \E f \in events : e.index = f.index /\ e.gate = f.gate /\ e.phase = f.phase /\ e.lane = f.lane
Added(e) ==
    /\ e.index = Len(turns) + 1
    /\ e.gate # NoGate => e.phase = e.gate[1] + Offset + frames[e.lane[1]]

LEMMA TakePhase ==
    ASSUME Inv, PhaseInv, NEW turn \in [Qubits -> Int], Take(turn), frames' = Turned(turn),
           \A e \in events' : Kept(e) \/ Added(e)
    PROVE  PhaseInv'
<1>1. /\ OneSum(turns)' /\ frames' = TurnedBy'[Len(turns')] /\ Len(turns') = Len(turns) + 1
      /\ \A k \in 0..Len(turns) : TurnedBy'[k] = TurnedBy[k]
  BY TakeTurns DEF Inv
<1>n. Len(turns) \in Nat
  BY DEF Inv, TypeOK
<1>2. ASSUME NEW e \in events' PROVE e.index \in 1..Len(turns') /\ InFrame(e)'
  <2>1. CASE Kept(e)
    <3>1. PICK f \in events : e.index = f.index /\ e.gate = f.gate /\ e.phase = f.phase /\ e.lane = f.lane
      BY <2>1 DEF Kept
    <3>2. f.index \in 1..Len(turns) /\ InFrame(f)
      BY DEF PhaseInv
    <3>3. f.index - 1 \in 0..Len(turns) /\ f.index \in 1..Len(turns')
      BY <1>1, <1>n, <3>2
    <3>4. TurnedBy'[e.index - 1] = TurnedBy[f.index - 1]
      BY <1>1, <3>1, <3>3
    <3> QED BY <3>1, <3>2, <3>3, <3>4 DEF InFrame
  <2>2. CASE Added(e)
    <3>1. e.index = Len(turns) + 1 /\ e.index \in 1..Len(turns') /\ e.index - 1 = Len(turns)
          /\ Len(turns) \in 0..Len(turns)
      BY <1>1, <1>n, <2>2 DEF Added
    <3>2. TurnedBy'[e.index - 1] = frames
      BY <1>1, <3>1 DEF PhaseInv
    <3> QED BY <2>2, <3>1, <3>2 DEF InFrame, Added
  <2> QED BY <1>2, <2>1, <2>2
<1> QED BY <1>1, <1>2 DEF PhaseInv

LEMMA Unturned == ASSUME TypeOK PROVE Turned(NoTurn) = frames
BY DEF TypeOK, Turned, NoTurn

LEMMA EventSays ==
    ASSUME NEW lane, NEW start, NEW length, NEW after, NEW gate, NEW phase, NEW reaches
    PROVE  LET e == Event(lane, start, length, after, gate, phase, reaches)
           IN  e.index = Len(turns) + 1 /\ e.gate = gate /\ e.phase = phase /\ e.lane = lane
BY DEF Event

LEMMA JoinedKept == ASSUME Inv, NEW L PROVE \A e \in Joined(L) : Kept(e)
<1> SUFFICES ASSUME NEW f \in events
             PROVE  Kept([f EXCEPT !.reaches = IF @ \cap L = {} THEN @ ELSE @ \cup L])
  BY DEF Joined
<1>1. IsEvent(f)
  BY OldEvents
<1> QED BY <1>1 DEF IsEvent, Kept

(* Every instruction keeps the phases. *)
LEMMA InstructionKeepsPhases ==
    ASSUME Inv, PhaseInv, Next, ~Refuse, ~Finish PROVE PhaseInv'
<1>o. \A e \in events : Kept(e)
  BY DEF Kept
<1>f. TypeOK /\ Turned(NoTurn) = frames /\ NoTurn \in [Qubits -> Int]
  BY Unturned, NoTurnType DEF Inv
<1>1. ASSUME NEW q \in Qubits, NEW phase \in Phases, Rotate(q, phase) PROVE PhaseInv'
  <2>1. [NoTurn EXCEPT ![q] = phase] \in [Qubits -> Int]
    BY <1>f, ScheduleAssumption
  <2> QED BY <1>1, <1>o, <2>1, TakePhase DEF Rotate
<1>2. ASSUME NEW a \in Agents, NEW length \in Lengths, Idle(a, length) PROVE PhaseInv'
  <2>1. \A e \in events' : Kept(e) \/ Added(e)
    <3>1. \A l : Added(Event(l, cursors[l], length, Ends({l}), NoGate, 0, {l}))
      BY EventSays DEF Added
    <3> QED BY <1>2, <1>o, <3>1 DEF Idle
  <2> QED BY <1>2, <1>f, <2>1, TakePhase DEF Idle
<1>3. ASSUME NEW T \in SUBSET Agents, Barrier(T) PROVE PhaseInv'
  <2>1. \A e \in events' : Kept(e) \/ Added(e)
    BY <1>3, JoinedKept DEF Barrier
  <2> QED BY <1>3, <1>f, <2>1, TakePhase DEF Barrier
<1>4. ASSUME NEW lane \in Lanes, NEW length \in Lengths, AppendPulse(lane, length) PROVE PhaseInv'
  <2>1. \A e \in events' : Kept(e) \/ Added(e)
    BY <1>4, <1>o, EventSays DEF AppendPulse, Added
  <2> QED BY <1>4, <1>f, <2>1, TakePhase DEF AppendPulse
<1>5. ASSUME NEW lane \in Lanes, NEW start \in Starts, NEW length \in Lengths, PlacePulse(lane, start, length)
      PROVE  PhaseInv'
  <2>1. \A e \in events' : Kept(e) \/ Added(e)
    BY <1>5, <1>o, EventSays DEF PlacePulse, Added
  <2> QED BY <1>5, <1>f, <2>1, TakePhase DEF PlacePulse
<1>6. ASSUME NEW q \in Qubits, NEW phase \in Phases, NEW half \in BOOLEAN, Gate(q, phase, half)
      PROVE  PhaseInv'
  <2>1. ASSUME NEW start, NEW after
        PROVE  Added(Event(<<q, "xy">>, start, PulseLength, after, <<phase>>, phase + Offset + frames[q], {<<q, "xy">>}))
    BY EventSays DEF Added
  <2>2. \A e \in events' : Kept(e) \/ Added(e)
    BY <1>6, <1>o, <2>1 DEF Gate
  <2> QED BY <1>6, <1>f, <2>2, TakePhase DEF Gate
<1>7. ASSUME NEW c \in Couplers, Composite(c) PROVE PhaseInv'
  <2>1. Corrections(c) \in [Qubits -> Int]
    BY ScheduleAssumption DEF Corrections
  <2>2. \A e \in events' : Kept(e) \/ Added(e)
    <3> DEFINE L == LanesOfAll(AgentsOf(c))
    <3>1. \A a, start : Added(Event(<<a, "z">>, start, GateLength, Ends(L), NoGate, 0, L))
      BY EventSays DEF Added
    <3>2. \A e \in Joined(L) : Kept(e)
      BY JoinedKept DEF Inv
    <3>3. PICK start : events' = Joined(L) \cup
                         {Event(<<a, "z">>, start, GateLength, Ends(L), NoGate, 0, L) : a \in AgentsOf(c)}
      BY <1>7 DEF Composite
    <3> HIDE DEF L
    <3> QED BY <3>1, <3>2, <3>3
  <2> QED BY <1>7, <2>1, <2>2, TakePhase DEF Composite
<1> QED BY <1>1, <1>2, <1>3, <1>4, <1>5, <1>6, <1>7 DEF Next

LEMMA NextPhaseInv == Inv /\ PhaseInv /\ [Next]_vars => PhaseInv'
<1> SUFFICES ASSUME Inv, PhaseInv, [Next]_vars PROVE PhaseInv'
  OBVIOUS
<1>1. CASE UNCHANGED <<turns, frames, events>>
  <2>1. TurnedBy' = TurnedBy
    BY <1>1 DEF TurnedBy
  <2>2. OneSum(turns)'
    BY <1>1 DEF PhaseInv
  <2>3. \A e \in events : e.index \in 1..Len(turns') /\ InFrame(e)'
    BY <1>1, <2>1 DEF PhaseInv, InFrame
  <2> QED BY <1>1, <2>1, <2>2, <2>3 DEF PhaseInv
<1>2. CASE UNCHANGED vars \/ Refuse \/ Finish
  BY <1>1, <1>2 DEF vars, Refuse, Finish
<1> QED BY <1>2, InstructionKeepsPhases

LEMMA InitPhaseInv == Init => PhaseInv
<1> SUFFICES ASSUME Init PROVE PhaseInv
  OBVIOUS
<1>1. turns = <<>> /\ events = {} /\ frames = NoTurn /\ Len(turns) = 0
  BY DEF Init, NoTurn
<1>2. IsSum(turns, TurnedBy)
  BY <1>1, SumOfNone, TurnedIsSum
<1>3. TurnedBy[0] = NoTurn
  BY <1>1, <1>2 DEF IsSum
<1> QED BY <1>1, <1>3, SumOfNone DEF PhaseInv

(* A gate is played in the frame that all the instructions before it, and no later one, have *)
(* turned its qubit by, whatever the program, the agents and the settings (frames of          *)
(* _compile_plan).                                                                            *)
THEOREM PhasesTrue == Spec => []PhaseTrue
<1>1. PhaseInv => PhaseTrue
  BY DEF PhaseInv, PhaseTrue, InFrame
<1> QED BY <1>1, InitInv, NextInv, InitPhaseInv, NextPhaseInv, PTL DEF Spec
=============================================================================
