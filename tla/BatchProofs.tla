---------------------------- MODULE BatchProofs ----------------------------
(***************************************************************************)
(* Proofs about CircuitBatch and about PointExecution, which extends it,   *)
(* for any number of callers, batches, points, versions, upgrades and      *)
(* failures.                                                               *)
(*                                                                         *)
(* First the batch: its locks, its head and its receipts, its answers, and *)
(* the steps of one batch as steps of BatchProgress.                       *)
(*                                                                         *)
(* Then the execution of a point: the evidence of a point was made under   *)
(* authorities that held together.  Authorities only go forward, so that   *)
(* what an artifact was made with is never ahead of them.  An authority    *)
(* that did not hold when the artifact was published was therefore ahead   *)
(* of it already, and stays ahead.  The verification after the             *)
(* publication, which finds the two equal, hence says something of the     *)
(* moment of the publication.                                              *)
(***************************************************************************)
EXTENDS PointExecution, TLAPS

(* A call in progress has a batch and a request, works on a point that the *)
(* batch has, and holds the locks it went through.                         *)
CallInv ==
    \A c \in Callers :
        /\ pc[c] # "idle" => job[c] \in Batches /\ wants[c] \in Requests
        /\ pc[c] \in {"modelled", "result"} => local[c].completed < Points
        /\ pc[c] = "resourceLock" \/ Inside(c) => batchLock[job[c]] = c
        /\ Inside(c) => resourceLock[ResourceOf[wants[c]]] = c

TypeInv == TypeOK /\ CallInv

(* Initially every variable has its type and no lock is held. *)
LEMMA InitTypeInv == Init => TypeInv
  BY BatchAssumption, BoundAssumption DEF Init, TypeInv, TypeOK, CallInv, Inside, Head, Absent,
     Statuses, Phases, Nexts

(* Every step keeps the types and the locks. *)
LEMMA NextTypeInv == TypeInv /\ [Next]_vars => TypeInv'
<1> SUFFICES ASSUME TypeInv, [Next]_vars PROVE TypeInv'
  OBVIOUS
<1> USE BatchAssumption, BoundAssumption DEF TypeInv, disk, locks, caller
<1>1. ASSUME NEW c \in Callers, NEW b \in Batches, NEW r \in Requests, Call(c, b, r) PROVE TypeInv'
  <2>1. TypeOK'
    BY <1>1 DEF Call, TypeOK, Goto, Phases
  <2>2. CallInv'
    BY <1>1 DEF Call, TypeOK, CallInv, Inside, Goto
  <2> QED BY <2>1, <2>2
<1>2. ASSUME NEW c \in Callers, LockBatch(c) PROVE TypeInv'
  <2>1. TypeOK'
    BY <1>2 DEF LockBatch, Goto, TypeOK, CallInv, Inside, Head, Absent, Statuses, Open, Phases, Nexts, Answer
  <2>2. CallInv'
    BY <1>2 DEF LockBatch, Goto, TypeOK, CallInv, Inside
  <2> QED BY <2>1, <2>2
<1>3. ASSUME NEW c \in Callers, LockResource(c) PROVE TypeInv'
  <2>1. TypeOK'
    BY <1>3 DEF LockResource, Goto, TypeOK, CallInv, Inside, Head, Absent, Statuses, Open, Phases, Nexts, Answer
  <2>2. CallInv'
    BY <1>3 DEF LockResource, Goto, TypeOK, CallInv, Inside
  <2> QED BY <2>1, <2>2
<1>4. ASSUME NEW c \in Callers, Busy(c) PROVE TypeInv'
  <2>1. TypeOK'
    BY <1>4 DEF Busy, Leave, TypeOK, CallInv, Inside, Head, Absent, Statuses, Open, Phases, Nexts, Answer
  <2>2. CallInv'
    BY <1>4 DEF Busy, Leave, TypeOK, CallInv, Inside
  <2> QED BY <2>1, <2>2
<1>5. ASSUME NEW c \in Callers, Conflict(c) PROVE TypeInv'
  <2>1. TypeOK'
    BY <1>5 DEF Conflict, Tell, Leave, TypeOK, CallInv, Inside, Head, Absent, Statuses, Open, Phases, Nexts, Answer
  <2>2. CallInv'
    BY <1>5 DEF Conflict, Tell, Leave, TypeOK, CallInv, Inside
  <2> QED BY <2>1, <2>2
<1>6. ASSUME NEW c \in Callers, Unopenable(c) PROVE TypeInv'
  <2>1. TypeOK'
    BY <1>6 DEF Unopenable, Leave, TypeOK, CallInv, Inside, Head, Absent, Statuses, Open, Phases, Nexts, Answer
  <2>2. CallInv'
    BY <1>6 DEF Unopenable, Leave, TypeOK, CallInv, Inside
  <2> QED BY <2>1, <2>2
<1>7. ASSUME NEW c \in Callers, Replay(c) PROVE TypeInv'
  <2>1. TypeOK'
    BY <1>7 DEF Replay, Bound, Goto, TypeOK, CallInv, Inside, Head, Absent, Statuses, Open, Phases, Nexts, Answer
  <2>2. CallInv'
    BY <1>7 DEF Replay, Bound, Goto, TypeOK, CallInv, Inside
  <2> QED BY <2>1, <2>2
<1>8. ASSUME NEW c \in Callers, AlreadyCancelled(c) PROVE TypeInv'
  <2>1. TypeOK'
    BY <1>8 DEF AlreadyCancelled, Bound, Tell, Leave, TypeOK, CallInv, Inside, Head, Absent, Statuses, Open, Phases, Nexts, Answer
  <2>2. CallInv'
    BY <1>8 DEF AlreadyCancelled, Bound, Tell, Leave, TypeOK, CallInv, Inside
  <2> QED BY <2>1, <2>2
<1>9. ASSUME NEW c \in Callers, Resume(c) PROVE TypeInv'
  <2>1. TypeOK'
    BY <1>9 DEF Resume, Bound, Goto, TypeOK, CallInv, Inside, Head, Absent, Statuses, Open, Phases, Nexts, Answer
  <2>2. CallInv'
    BY <1>9 DEF Resume, Bound, Goto, TypeOK, CallInv, Inside
  <2> QED BY <2>1, <2>2
<1>10. ASSUME NEW c \in Callers, Make(c) PROVE TypeInv'
  <2>1. TypeOK'
    BY <1>10 DEF Make, Goto, TypeOK, CallInv, Inside, Head, Absent, Statuses, Open, Phases, Nexts, Answer
  <2>2. CallInv'
    BY <1>10 DEF Make, Goto, TypeOK, CallInv, Inside
  <2> QED BY <2>1, <2>2
<1>11. ASSUME NEW c \in Callers, Bind(c) PROVE TypeInv'
  <2>1. TypeOK'
    BY <1>11 DEF Bind, Save, Goto, TypeOK, CallInv, Inside, Head, Absent, Statuses, Open, Phases, Nexts, Answer
  <2>2. CallInv'
    BY <1>11 DEF Bind, Save, Goto, TypeOK, CallInv, Inside
  <2> QED BY <2>1, <2>2
<1>12. ASSUME NEW c \in Callers, CancelBefore(c) PROVE TypeInv'
  <2>1. TypeOK'
    <3>1. [local[c] EXCEPT !.status = "cancelled"] \in Head
      BY DEF TypeOK, Head, Statuses, Open
    <3> QED BY <1>12, <3>1 DEF CancelBefore, End, Save, Goto, TypeOK, Phases, Nexts
  <2>2. CallInv'
    BY <1>12 DEF CancelBefore, End, Save, Goto, TypeOK, CallInv, Inside
  <2> QED BY <2>1, <2>2
<1>13. ASSUME NEW c \in Callers, TornBefore(c) PROVE TypeInv'
  <2>1. TypeOK'
    BY <1>13 DEF TornBefore, Leave, TypeOK, CallInv, Inside, Head, Absent, Statuses, Open, Phases, Nexts, Answer
  <2>2. CallInv'
    BY <1>13 DEF TornBefore, Leave, TypeOK, CallInv, Inside
  <2> QED BY <2>1, <2>2
<1>14. ASSUME NEW c \in Callers, Start(c) PROVE TypeInv'
  <2>1. TypeOK'
    <3>1. [local[c] EXCEPT !.status = "running"] \in Head
      BY DEF TypeOK, Head, Statuses, Open
    <3> QED BY <1>14, <3>1 DEF Start, Save, Goto, TypeOK, Phases, Nexts
  <2>2. CallInv'
    BY <1>14 DEF Start, Save, Goto, TypeOK, CallInv, Inside
  <2> QED BY <2>1, <2>2
<1>15. ASSUME NEW c \in Callers, Begin(c) PROVE TypeInv'
  <2>1. TypeOK'
    BY <1>15 DEF Begin, Goto, TypeOK, CallInv, Inside, Head, Absent, Statuses, Open, Phases, Nexts, Answer
  <2>2. CallInv'
    BY <1>15 DEF Begin, Goto, TypeOK, CallInv, Inside
  <2> QED BY <2>1, <2>2
<1>16. ASSUME NEW c \in Callers, CancelBetween(c) PROVE TypeInv'
  <2>1. TypeOK'
    BY <1>16 DEF CancelBetween, Left, End, Save, Goto, TypeOK, CallInv, Inside, Head, Absent, Statuses, Open, Phases, Nexts, Answer
  <2>2. CallInv'
    BY <1>16 DEF CancelBetween, Left, End, Save, Goto, TypeOK, CallInv, Inside
  <2> QED BY <2>1, <2>2
<1>17. ASSUME NEW c \in Callers, TornBetween(c) PROVE TypeInv'
  <2>1. TypeOK'
    BY <1>17 DEF TornBetween, Left, End, Save, Goto, TypeOK, CallInv, Inside, Head, Absent, Statuses, Open, Phases, Nexts, Answer
  <2>2. CallInv'
    BY <1>17 DEF TornBetween, Left, End, Save, Goto, TypeOK, CallInv, Inside
  <2> QED BY <2>1, <2>2
<1>18. ASSUME NEW c \in Callers, Deadline(c) PROVE TypeInv'
  <2>1. TypeOK'
    BY <1>18 DEF Deadline, End, Save, Goto, TypeOK, CallInv, Inside, Head, Absent, Statuses, Open, Phases, Nexts, Answer
  <2>2. CallInv'
    BY <1>18 DEF Deadline, End, Save, Goto, TypeOK, CallInv, Inside
  <2> QED BY <2>1, <2>2
<1>19. ASSUME NEW c \in Callers, Adopt(c) PROVE TypeInv'
  <2>1. TypeOK'
    BY <1>19 DEF Adopt, Left, Goto, TypeOK, CallInv, Inside, Head, Absent, Statuses, Open, Phases, Nexts, Answer
  <2>2. CallInv'
    BY <1>19 DEF Adopt, Left, Goto, TypeOK, CallInv, Inside
  <2> QED BY <2>1, <2>2
<1>20. ASSUME NEW c \in Callers, Incomplete(c) PROVE TypeInv'
  <2>1. TypeOK'
    BY <1>20, SMTT(20) DEF Incomplete, Left, End, Save, Goto, TypeOK, CallInv, Inside, Head, Absent, Statuses, Open, Phases, Nexts, Answer
  <2>2. CallInv'
    BY <1>20 DEF Incomplete, Left, End, Save, Goto, TypeOK, CallInv, Inside
  <2> QED BY <2>1, <2>2
<1>21. ASSUME NEW c \in Callers, RunPoint(c) PROVE TypeInv'
  <2>1. TypeOK'
    BY <1>21 DEF RunPoint, Left, Goto, Point, TypeOK, CallInv, Inside, Head, Absent, Statuses, Open, Phases, Nexts, Answer
  <2>2. CallInv'
    BY <1>21 DEF RunPoint, Left, Goto, Point, TypeOK, CallInv, Inside
  <2> QED BY <2>1, <2>2
<1>22. ASSUME NEW c \in Callers, PublishEvidence(c) PROVE TypeInv'
  <2>1. TypeOK'
    BY <1>22 DEF PublishEvidence, Goto, Point, TypeOK, CallInv, Inside, Head, Absent, Statuses, Open, Phases, Nexts, Answer
  <2>2. CallInv'
    BY <1>22 DEF PublishEvidence, Goto, Point, TypeOK, CallInv, Inside
  <2> QED BY <2>1, <2>2
<1>23. ASSUME NEW c \in Callers, AlreadyReceipted(c) PROVE TypeInv'
  <2>1. TypeOK'
    <3>1. [local[c] EXCEPT !.status = "interrupted"] \in Head
      BY DEF TypeOK, Head, Statuses, Open
    <3> QED BY <1>23, <3>1 DEF AlreadyReceipted, End, Save, Goto, TypeOK, Phases, Nexts
  <2>2. CallInv'
    BY <1>23 DEF AlreadyReceipted, End, Save, Goto, TypeOK, CallInv, Inside
  <2> QED BY <2>1, <2>2
<1>24. ASSUME NEW c \in Callers, WriteReceipt(c) PROVE TypeInv'
  <2>1. TypeOK'
    BY <1>24, SMTT(20) DEF WriteReceipt, Save, Goto, Point, TypeOK, CallInv, Inside, Head, Absent, Statuses, Open, Phases, Nexts, Answer
  <2>2. CallInv'
    BY <1>24 DEF WriteReceipt, Save, Goto, Point, TypeOK, CallInv, Inside
  <2> QED BY <2>1, <2>2
<1>25. ASSUME NEW c \in Callers, Finish(c) PROVE TypeInv'
  <2>1. TypeOK'
    BY <1>25 DEF Finish, Save, Goto, TypeOK, CallInv, Inside, Head, Absent, Statuses, Open, Phases, Nexts, Answer
  <2>2. CallInv'
    BY <1>25 DEF Finish, Save, Goto, TypeOK, CallInv, Inside
  <2> QED BY <2>1, <2>2
<1>26. ASSUME NEW c \in Callers, SaveHead(c) PROVE TypeInv'
  <2>1. TypeOK'
    BY <1>26 DEF SaveHead, Goto, TypeOK, CallInv, Inside, Head, Absent, Statuses, Open, Phases, Nexts, Answer
  <2>2. CallInv'
    BY <1>26 DEF SaveHead, Goto, TypeOK, CallInv, Inside, Nexts
  <2> QED BY <2>1, <2>2
<1>27. ASSUME NEW c \in Callers, Raise(c) PROVE TypeInv'
  <2>1. TypeOK'
    BY <1>27 DEF Raise, Tell, Leave, TypeOK, CallInv, Inside, Head, Absent, Statuses, Open, Phases, Nexts, Answer
  <2>2. CallInv'
    BY <1>27 DEF Raise, Tell, Leave, TypeOK, CallInv, Inside
  <2> QED BY <2>1, <2>2
<1>28. ASSUME NEW c \in Callers, Verify(c) PROVE TypeInv'
  <2>1. TypeOK'
    BY <1>28 DEF Verify, Tell, Leave, TypeOK, CallInv, Inside, Head, Absent, Statuses, Open, Phases, Nexts, Answer
  <2>2. CallInv'
    BY <1>28 DEF Verify, Tell, Leave, TypeOK, CallInv, Inside
  <2> QED BY <2>1, <2>2
<1>29. ASSUME NEW c \in Callers, CancelToken(c) PROVE TypeInv'
  <2>1. TypeOK'
    BY <1>29 DEF CancelToken, TypeOK, CallInv, Inside, Head, Absent, Statuses, Open, Phases, Nexts, Answer
  <2>2. CallInv'
    BY <1>29 DEF CancelToken, TypeOK, CallInv, Inside
  <2> QED BY <2>1, <2>2
<1>30. ASSUME NEW c \in Callers, PointFails(c) PROVE TypeInv'
  <2>1. TypeOK'
    <3>1. [local[c] EXCEPT !.status = "interrupted"] \in Head
      BY DEF TypeOK, Head, Statuses, Open
    <3> QED BY <1>30, <3>1 DEF PointFails, Fault, End, Save, Goto, TypeOK, Phases, Nexts
  <2>2. CallInv'
    BY <1>30 DEF PointFails, Fault, End, Save, Goto, TypeOK, CallInv, Inside
  <2> QED BY <2>1, <2>2
<1>31. ASSUME NEW c \in Callers, PartialFails(c) PROVE TypeInv'
  <2>1. TypeOK'
    BY <1>31 DEF PartialFails, Fault, End, Save, Goto, TypeOK, CallInv, Inside, Head, Absent, Statuses, Open, Phases, Nexts, Answer
  <2>2. CallInv'
    BY <1>31 DEF PartialFails, Fault, End, Save, Goto, TypeOK, CallInv, Inside
  <2> QED BY <2>1, <2>2
<1>32. ASSUME NEW c \in Callers, ReceiptFails(c) PROVE TypeInv'
  <2>1. TypeOK'
    BY <1>32 DEF ReceiptFails, Fault, End, Save, Goto, TypeOK, CallInv, Inside, Head, Absent, Statuses, Open, Phases, Nexts, Answer
  <2>2. CallInv'
    BY <1>32 DEF ReceiptFails, Fault, End, Save, Goto, TypeOK, CallInv, Inside
  <2> QED BY <2>1, <2>2
<1>33. ASSUME NEW c \in Callers, HeadFails(c) PROVE TypeInv'
  <2>1. /\ [local[c] EXCEPT !.status = "interrupted"] \in Head
        /\ Absent \in Head /\ local[c].completed \in 0..Points
    BY DEF TypeOK, Head, Absent, Statuses, Open
  <2>2. CASE End(c, "interrupted")
    <3>1. TypeOK'
      BY <1>33, <2>1, <2>2 DEF HeadFails, Fault, End, Save, Goto, TypeOK, Phases, Nexts
    <3>2. CallInv'
      BY <1>33, <2>2 DEF HeadFails, End, Save, Goto, TypeOK, CallInv, Inside
    <3> QED BY <3>1, <3>2
  <2>3. CASE Leave(c)
    <3>1. TypeOK'
      BY <1>33, <2>1, <2>3 DEF HeadFails, Fault, HeadError, End, Save, Goto, Leave, Point, TypeOK, CallInv, Phases, Nexts
    <3>2. CallInv'
      BY <1>33, <2>3 DEF HeadFails, Fault, HeadError, End, Save, Goto, Leave, TypeOK, CallInv, Inside
    <3> QED BY <3>1, <3>2
  <2> QED BY <1>33, <2>2, <2>3 DEF HeadFails, HeadError
<1>34. ASSUME NEW c \in Callers, FlushFails(c) PROVE TypeInv'
  <2>1. /\ [local[c] EXCEPT !.status = "interrupted"] \in Head
        /\ Absent \in Head /\ local[c].completed \in 0..Points
    BY DEF TypeOK, Head, Absent, Statuses, Open
  <2>2. CASE pc[c] = "result" /\ End(c, "interrupted")
    <3>1. Point(c) \in 1..Points
      BY <2>1, <2>2 DEF Point, CallInv
    <3>2. TypeOK'
      <4>1. /\ receipts' = [receipts EXCEPT ![job[c]] = @ \cup {Point(c)}]
            /\ faults' \in 0..MaxFaults
            /\ UNCHANGED <<made, request, head, stale, model, evidence, cancellation>>
        BY <1>34, <2>2 DEF FlushFails, Fault, TypeOK
      <4>2. receipts' \in [Batches -> SUBSET (1..Points)]
        <5>1. receipts \in [Batches -> SUBSET (1..Points)] /\ job[c] \in Batches
          BY <2>2 DEF TypeOK, CallInv
        <5> HIDE DEF TypeInv
        <5> QED BY <3>1, <4>1, <5>1
      <4> QED BY <2>1, <2>2, <4>1, <4>2 DEF End, Save, Goto, TypeOK, Phases, Nexts
    <3>3. CallInv'
      BY <1>34, <2>2 DEF FlushFails, End, Save, Goto, TypeOK, CallInv, Inside
    <3> QED BY <3>2, <3>3
  <2>3. CASE pc[c] = "saving" /\ End(c, "interrupted")
    <3>1. TypeOK'
      BY <1>34, <2>1, <2>3 DEF FlushFails, Fault, HeadError, End, Save, Goto, Leave, Point, TypeOK, CallInv, Phases, Nexts
    <3>2. CallInv'
      BY <1>34, <2>3 DEF FlushFails, Fault, HeadError, End, Save, Goto, Leave, Point, TypeOK, CallInv, Inside
    <3> QED BY <3>1, <3>2
  <2>4. CASE pc[c] = "saving" /\ Leave(c)
    <3>1. TypeOK'
      <4>1. /\ head' = [head EXCEPT ![job[c]] = local[c]] /\ faults' \in 0..MaxFaults
            /\ UNCHANGED <<made, request, stale, receipts, model, evidence, cancellation>>
            /\ answers' = answers \/ \E s : End(c, s)
        BY <1>34, <2>4 DEF FlushFails, Fault, HeadError, TypeOK
      <4>2. answers' = answers
        BY <4>1 DEF End, Save
      <4>3. head' \in [Batches -> Head]
        BY <4>1 DEF TypeOK
      <4> QED BY <2>1, <2>4, <4>1, <4>2, <4>3 DEF Leave, TypeOK, Phases, Nexts
    <3>2. CallInv'
      BY <1>34, <2>4 DEF FlushFails, Fault, HeadError, End, Save, Goto, Leave, Point, TypeOK, CallInv, Inside
    <3> QED BY <3>1, <3>2
  <2> QED BY <1>34, <2>2, <2>3, <2>4 DEF FlushFails, HeadError
<1>35. ASSUME NEW c \in Callers, Crash(c) PROVE TypeInv'
  <2>1. TypeOK'
    BY <1>35 DEF Crash, Fault, Leave, TypeOK, CallInv, Inside, Head, Absent, Statuses, Open, Phases, Nexts, Answer
  <2>2. CallInv'
    BY <1>35 DEF Crash, Fault, Leave, TypeOK, CallInv, Inside
  <2> QED BY <2>1, <2>2
<1>36. ASSUME NEW b \in Batches, CancelCreate(b) PROVE TypeInv'
  BY <1>36 DEF CancelCreate, TypeOK, CallInv, Inside
<1>37. ASSUME NEW b \in Batches, CancelWrite(b) PROVE TypeInv'
  BY <1>37 DEF CancelWrite, TypeOK, CallInv, Inside
<1>38. CASE UNCHANGED vars
  BY <1>38 DEF vars, TypeOK, CallInv, Inside
<1> QED BY <1>1, <1>2, <1>3, <1>4, <1>5, <1>6, <1>7, <1>8, <1>9, <1>10, <1>11, <1>12, <1>13, <1>14, <1>15, <1>16, <1>17, <1>18, <1>19, <1>20, <1>21, <1>22, <1>23, <1>24, <1>25, <1>26, <1>27, <1>28, <1>29, <1>30, <1>31, <1>32, <1>33, <1>34, <1>35, <1>36, <1>37, <1>38 DEF Next, Work, Fail

(* Whatever fails or dies, every variable keeps its type, and two callers  *)
(* are never past the locks with one batch or one resource.                *)
THEOREM ExclusiveCallers == Spec => [](TypeOK /\ Exclusive)
<1>1. TypeInv => TypeOK /\ Exclusive
  BY DEF TypeInv, CallInv, Exclusive, TypeOK
<1> QED BY <1>1, InitTypeInv, NextTypeInv, PTL DEF Spec

-----------------------------------------------------------------------------
(***************************************************************************)
(* The head is backed by receipts and evidence, and answers stand.  The    *)
(* argument: only the caller inside a batch touches its files; the head it *)
(* carries is the one on disk, or that with the point whose receipt it has *)
(* just written; and it never saves the head of a batch that was answered. *)
(***************************************************************************)
Unanswered(b) ==
    \A r \in Requests : <<b, r, "completed">> \notin answers /\ <<b, r, "cancelled">> \notin answers

(* What the caller inside a batch has established at each phase. *)
WorkOK(c) ==
    /\ pc[c] = "made" => job[c] \in made /\ request[job[c]] = NoRequest
    /\ pc[c] \in {"opened", "begin", "points", "modelled", "result", "saving", "stop", "verify"} =>
          request[job[c]] = wants[c]
    /\ pc[c] \in {"opened", "begin", "points", "modelled", "result", "saving"} => Unanswered(job[c])
    /\ pc[c] \in {"opened", "begin", "points", "modelled", "result"} =>
          local[c].completed = head[job[c]].completed
    /\ pc[c] = "modelled" => Modelled(c)
    /\ pc[c] = "result" => Evident(c)
    /\ pc[c] = "saving" =>
          /\ local[c].completed \in {head[job[c]].completed, head[job[c]].completed + 1}
          /\ 1..local[c].completed \subseteq receipts[job[c]]
    /\ pc[c] = "stop" => head[job[c]] = local[c]

WorkInv == \A c \in Callers : WorkOK(c)

BatchOK(b) ==
    /\ b \notin made => request[b] = NoRequest
    /\ request[b] = NoRequest => head[b] = Absent
    /\ 1..head[b].completed \subseteq receipts[b]
    /\ receipts[b] \subseteq evidence[b] /\ evidence[b] \subseteq model[b]
    /\ model[b] \subseteq 1..(head[b].completed + 1)
    /\ \A r \in Requests :
          /\ <<b, r, "completed">> \in answers =>
                request[b] = r /\ head[b] = [status |-> "completed", completed |-> Points]
          /\ <<b, r, "cancelled">> \in answers => request[b] = r /\ head[b].status = "cancelled"
          /\ <<b, r, "conflict">> \in answers => request[b] \notin {NoRequest, r}

BatchInv == \A b \in Batches : BatchOK(b)

SafeInv == TypeInv /\ BatchInv /\ WorkInv

(* What a step of caller c leaves alone: the other callers, and the other   *)
(* batches if it is inside one.                                             *)
CallerFrame(c) ==
    \A d \in Callers \ {c} :
        pc'[d] = pc[d] /\ job'[d] = job[d] /\ wants'[d] = wants[d] /\ local'[d] = local[d]

SameBatch(b) ==
    /\ b \in made' <=> b \in made
    /\ request'[b] = request[b] /\ head'[b] = head[b] /\ receipts'[b] = receipts[b]
    /\ model'[b] = model[b] /\ evidence'[b] = evidence[b]
    /\ \A r \in Requests :
          /\ <<b, r, "completed">> \in answers' => <<b, r, "completed">> \in answers
          /\ <<b, r, "cancelled">> \in answers' => <<b, r, "cancelled">> \in answers
          /\ <<b, r, "conflict">> \in answers' => <<b, r, "conflict">> \in answers

(* Initially there is no batch, no caller at work and no answer. *)
LEMMA InitSafeInv == Init => SafeInv
<1> SUFFICES ASSUME Init PROVE SafeInv
  OBVIOUS
<1>1. BatchInv
  BY DEF Init, BatchInv, BatchOK, Absent
<1>2. WorkInv
  BY DEF Init, WorkInv, WorkOK
<1> QED BY <1>1, <1>2, InitTypeInv DEF SafeInv

(* A caller whose batch is left alone keeps what it established. *)
LEMMA OtherCaller ==
    ASSUME SafeInv, NEW c \in Callers, CallerFrame(c), NEW d \in Callers \ {c},
           NEW b, b = job[d], SameBatch(b)
    PROVE  WorkOK(d)'
<1>1. WorkOK(d) /\ pc'[d] = pc[d] /\ job'[d] = b /\ wants'[d] = wants[d] /\ local'[d] = local[d]
  BY DEF SafeInv, WorkInv, CallerFrame
<1>2. Unanswered(b) => Unanswered(b)'
  BY DEF Unanswered, SameBatch
<1>3. Unanswered(job[d]) <=> Unanswered(b)
  OBVIOUS
<1>4. Unanswered(job[d])' <=> Unanswered(b)'
  BY <1>1 DEF Unanswered
<1> QED BY <1>1, <1>2, <1>3, <1>4 DEF WorkOK, SameBatch, Modelled, Evident, Point

(* A step outside the batches, or inside one, leaves the others alone. *)
LEMMA QuietStep ==
    ASSUME SafeInv, NEW c \in Callers, CallerFrame(c), WorkOK(c)', \A b \in Batches : SameBatch(b)
    PROVE  BatchInv' /\ WorkInv'
<1>1. BatchInv'
  BY DEF SafeInv, BatchInv, BatchOK, SameBatch
<1>2. ASSUME NEW d \in Callers \ {c} PROVE WorkOK(d)'
  <2>1. CASE pc[d] = "idle"
    BY <2>1 DEF CallerFrame, WorkOK
  <2>2. CASE pc[d] # "idle"
    BY <2>2, OtherCaller DEF SafeInv, TypeInv, CallInv
  <2> QED BY <2>1, <2>2
<1> QED BY <1>1, <1>2 DEF WorkInv

(* A step inside a batch leaves the callers of other batches alone: the     *)
(* locks keep every other caller out of this one.                           *)
LEMMA InsideStep ==
    ASSUME SafeInv, NEW c \in Callers, Inside(c), CallerFrame(c), WorkOK(c)',
           NEW b \in Batches, b = job[c], BatchOK(b)', \A a \in Batches \ {b} : SameBatch(a)
    PROVE  BatchInv' /\ WorkInv'
<1>1. ASSUME NEW a \in Batches PROVE BatchOK(a)'
  <2>1. CASE a = b
    BY <2>1
  <2>2. CASE a # b
    BY <2>2 DEF SafeInv, BatchInv, BatchOK, SameBatch
  <2> QED BY <2>1, <2>2
<1>2. ASSUME NEW d \in Callers \ {c} PROVE WorkOK(d)'
  <2>1. CASE Inside(d)
    <3>1. job[d] \in Batches \ {b}
      BY <2>1, BatchAssumption DEF SafeInv, TypeInv, CallInv, Inside
    <3> QED BY <3>1, OtherCaller
  <2>2. CASE ~Inside(d)
    BY <2>2 DEF CallerFrame, WorkOK, Inside
  <2> QED BY <2>1, <2>2
<1> QED BY <1>1, <1>2 DEF WorkInv, BatchInv

(* Every step keeps the invariant. *)
LEMMA NextSafeInv == SafeInv /\ [Next]_vars => SafeInv'
<1> SUFFICES ASSUME SafeInv, [Next]_vars PROVE SafeInv'
  OBVIOUS
<1>0. TypeInv'
  BY NextTypeInv DEF SafeInv
<1> SUFFICES BatchInv' /\ WorkInv'
  BY <1>0 DEF SafeInv
<1> USE BatchAssumption, BoundAssumption DEF disk, locks, caller
<1>1. ASSUME NEW c \in Callers, NEW b \in Batches, NEW r \in Requests, Call(c, b, r)
      PROVE BatchInv' /\ WorkInv'
  <2>1. CallerFrame(c) /\ \A a \in Batches : SameBatch(a)
    BY <1>1 DEF Call, Goto, CallerFrame, SameBatch, SafeInv, TypeInv, TypeOK
  <2>2. WorkOK(c)'
    BY <1>1 DEF Call, Goto, WorkOK, SafeInv, TypeInv, TypeOK
  <2> QED BY <2>1, <2>2, QuietStep
<1>2. ASSUME NEW c \in Callers, LockBatch(c) PROVE BatchInv' /\ WorkInv'
  <2>1. CallerFrame(c) /\ \A a \in Batches : SameBatch(a)
    BY <1>2 DEF LockBatch, Goto, CallerFrame, SameBatch, SafeInv, TypeInv, TypeOK
  <2>2. WorkOK(c)'
    BY <1>2 DEF LockBatch, Goto, WorkOK, SafeInv, TypeInv, TypeOK, CallInv, WorkInv, Unanswered, Modelled, Evident, Point, BatchInv, BatchOK, Inside
  <2> QED BY <2>1, <2>2, QuietStep
<1>3. ASSUME NEW c \in Callers, LockResource(c) PROVE BatchInv' /\ WorkInv'
  <2>1. CallerFrame(c) /\ \A a \in Batches : SameBatch(a)
    BY <1>3 DEF LockResource, Goto, CallerFrame, SameBatch, SafeInv, TypeInv, TypeOK
  <2>2. WorkOK(c)'
    BY <1>3 DEF LockResource, Goto, WorkOK, SafeInv, TypeInv, TypeOK, CallInv, WorkInv, Unanswered, Modelled, Evident, Point, BatchInv, BatchOK, Inside
  <2> QED BY <2>1, <2>2, QuietStep
<1>4. ASSUME NEW c \in Callers, Busy(c) PROVE BatchInv' /\ WorkInv'
  <2>1. CallerFrame(c) /\ \A a \in Batches : SameBatch(a)
    BY <1>4 DEF Busy, Leave, CallerFrame, SameBatch, SafeInv, TypeInv, TypeOK
  <2>2. WorkOK(c)'
    BY <1>4 DEF Busy, Leave, WorkOK, SafeInv, TypeInv, TypeOK, CallInv, WorkInv, Unanswered, Modelled, Evident, Point, BatchInv, BatchOK, Inside
  <2> QED BY <2>1, <2>2, QuietStep
<1>5. ASSUME NEW c \in Callers, Conflict(c) PROVE BatchInv' /\ WorkInv'
  <2>0. PICK b \in Batches : b = job[c]
    BY <1>5 DEF Conflict, Tell, Leave, SafeInv, TypeInv, CallInv
  <2>1. Inside(c) /\ CallerFrame(c) /\ \A a \in Batches \ {b} : SameBatch(a)
    BY <1>5, <2>0 DEF Conflict, Tell, Leave, CallerFrame, SameBatch, SafeInv, TypeInv, TypeOK, CallInv, Inside
  <2>2. WorkOK(c)'
    BY <1>5 DEF Conflict, Tell, Leave, WorkOK, SafeInv, TypeInv, TypeOK, CallInv, WorkInv, Unanswered, Modelled, Evident, Point, BatchInv, BatchOK, Inside
  <2>3. BatchOK(b)'
    BY <1>5, <2>0 DEF Conflict, Tell, Leave, WorkOK, SafeInv, TypeInv, TypeOK, CallInv, WorkInv, Unanswered, Modelled, Evident, Point, BatchInv, BatchOK, Inside, Absent, Head
  <2> QED BY <2>0, <2>1, <2>2, <2>3, InsideStep
<1>6. ASSUME NEW c \in Callers, Unopenable(c) PROVE BatchInv' /\ WorkInv'
  <2>1. CallerFrame(c) /\ \A a \in Batches : SameBatch(a)
    BY <1>6 DEF Unopenable, Leave, CallerFrame, SameBatch, SafeInv, TypeInv, TypeOK
  <2>2. WorkOK(c)'
    BY <1>6 DEF Unopenable, Leave, WorkOK, SafeInv, TypeInv, TypeOK, CallInv, WorkInv, Unanswered, Modelled, Evident, Point, BatchInv, BatchOK, Inside
  <2> QED BY <2>1, <2>2, QuietStep
<1>7. ASSUME NEW c \in Callers, Replay(c) PROVE BatchInv' /\ WorkInv'
  <2>1. CallerFrame(c) /\ \A a \in Batches : SameBatch(a)
    BY <1>7 DEF Replay, Bound, Goto, CallerFrame, SameBatch, SafeInv, TypeInv, TypeOK
  <2>2. WorkOK(c)'
    BY <1>7 DEF Replay, Bound, Goto, WorkOK, SafeInv, TypeInv, TypeOK, CallInv, WorkInv, Unanswered, Modelled, Evident, Point, BatchInv, BatchOK, Inside
  <2> QED BY <2>1, <2>2, QuietStep
<1>8. ASSUME NEW c \in Callers, AlreadyCancelled(c) PROVE BatchInv' /\ WorkInv'
  <2>0. PICK b \in Batches : b = job[c]
    BY <1>8 DEF AlreadyCancelled, Bound, Tell, Leave, SafeInv, TypeInv, CallInv
  <2>1. Inside(c) /\ CallerFrame(c) /\ \A a \in Batches \ {b} : SameBatch(a)
    BY <1>8, <2>0 DEF AlreadyCancelled, Bound, Tell, Leave, CallerFrame, SameBatch, SafeInv, TypeInv, TypeOK, CallInv, Inside
  <2>2. WorkOK(c)'
    BY <1>8 DEF AlreadyCancelled, Bound, Tell, Leave, WorkOK, SafeInv, TypeInv, TypeOK, CallInv, WorkInv, Unanswered, Modelled, Evident, Point, BatchInv, BatchOK, Inside
  <2>3. BatchOK(b)'
    BY <1>8, <2>0 DEF AlreadyCancelled, Bound, Tell, Leave, WorkOK, SafeInv, TypeInv, TypeOK, CallInv, WorkInv, Unanswered, Modelled, Evident, Point, BatchInv, BatchOK, Inside, Absent, Head
  <2> QED BY <2>0, <2>1, <2>2, <2>3, InsideStep
<1>9. ASSUME NEW c \in Callers, Resume(c) PROVE BatchInv' /\ WorkInv'
  <2>1. CallerFrame(c) /\ \A a \in Batches : SameBatch(a)
    BY <1>9 DEF Resume, Bound, Goto, CallerFrame, SameBatch, SafeInv, TypeInv, TypeOK
  <2>2. WorkOK(c)'
    <3>0. job[c] \in Batches /\ wants[c] \in Requests /\ WorkOK(c) /\ BatchOK(job[c])
      BY <1>9 DEF Resume, SafeInv, TypeInv, CallInv, WorkInv, BatchInv, Bound
    <3>1. head[job[c]] \in Head /\ local[c] \in Head /\ local \in [Callers -> Head] /\ pc \in [Callers -> Phases]
      BY <3>0 DEF SafeInv, TypeInv, TypeOK
    <3>2. head[job[c]].completed \in Nat /\ local[c].completed \in Nat
      BY <3>1 DEF Head
    <3>3. Unanswered(job[c])
      <4>1. head[job[c]].status \in Open
        BY <1>9 DEF Resume
      <4>2. head[job[c]].status # "completed" /\ head[job[c]].status # "cancelled"
        BY <4>1 DEF Open
      <4>3. ASSUME NEW r \in Requests PROVE <<job[c], r, "completed">> \notin answers
        <5>1. head[job[c]] # [status |-> "completed", completed |-> Points]
          BY <4>2
        <5> QED BY <3>0, <5>1 DEF BatchOK
      <4>4. ASSUME NEW r \in Requests PROVE <<job[c], r, "cancelled">> \notin answers
        BY <3>0, <4>2 DEF BatchOK
      <4> QED BY <4>3, <4>4 DEF Unanswered
    <3>4. pc'[c] = "opened" /\ job'[c] = job[c] /\ wants'[c] = wants[c] /\ local'[c] = head[job[c]]
          /\ head' = head /\ answers' = answers /\ request' = request /\ request[job[c]] = wants[c]
      BY <1>9, <3>1 DEF Resume, Bound, Goto
    <3> QED BY <3>3, <3>4 DEF WorkOK, Unanswered
  <2> QED BY <2>1, <2>2, QuietStep
<1>10. ASSUME NEW c \in Callers, Make(c) PROVE BatchInv' /\ WorkInv'
  <2>0. PICK b \in Batches : b = job[c]
    BY <1>10 DEF Make, Goto, SafeInv, TypeInv, CallInv
  <2>1. Inside(c) /\ CallerFrame(c) /\ \A a \in Batches \ {b} : SameBatch(a)
    BY <1>10, <2>0 DEF Make, Goto, CallerFrame, SameBatch, SafeInv, TypeInv, TypeOK, CallInv, Inside
  <2>2. WorkOK(c)'
    BY <1>10 DEF Make, Goto, WorkOK, SafeInv, TypeInv, TypeOK, CallInv, WorkInv, Unanswered, Modelled, Evident, Point, BatchInv, BatchOK, Inside
  <2>3. BatchOK(b)'
    BY <1>10, <2>0 DEF Make, Goto, WorkOK, SafeInv, TypeInv, TypeOK, CallInv, WorkInv, Unanswered, Modelled, Evident, Point, BatchInv, BatchOK, Inside, Absent, Head
  <2> QED BY <2>0, <2>1, <2>2, <2>3, InsideStep
<1>11. ASSUME NEW c \in Callers, Bind(c) PROVE BatchInv' /\ WorkInv'
  <2>0. PICK b \in Batches : b = job[c]
    BY <1>11 DEF Bind, Save, Goto, SafeInv, TypeInv, CallInv
  <2>1. Inside(c) /\ CallerFrame(c) /\ \A a \in Batches \ {b} : SameBatch(a)
    BY <1>11, <2>0 DEF Bind, Save, Goto, CallerFrame, SameBatch, SafeInv, TypeInv, TypeOK, CallInv, Inside
  <2>2. WorkOK(c)'
    <3>0. job[c] \in Batches /\ wants[c] \in Requests /\ WorkOK(c) /\ BatchOK(job[c])
      BY <1>11 DEF Bind, SafeInv, TypeInv, CallInv, WorkInv, BatchInv
    <3>1. head[job[c]] \in Head /\ local[c] \in Head /\ local \in [Callers -> Head] /\ pc \in [Callers -> Phases]
      BY <3>0 DEF SafeInv, TypeInv, TypeOK
    <3>2. head[job[c]].completed \in Nat /\ local[c].completed \in Nat
      BY <3>1 DEF Head
    <3>3. request[job[c]] = NoRequest /\ head[job[c]].completed = 0 /\ Unanswered(job[c])
      <4>1. request[job[c]] = NoRequest
        BY <1>11, <3>0 DEF Bind, WorkOK
      <4>2. head[job[c]] = Absent
        BY <3>0, <4>1 DEF BatchOK
      <4>3. Unanswered(job[c])
        BY <3>0, <4>1 DEF BatchOK, Unanswered
      <4> QED BY <4>1, <4>2, <4>3 DEF Absent
    <3>4. pc'[c] = "saving" /\ job'[c] = job[c] /\ wants'[c] = wants[c] /\ local'[c].completed = 0
          /\ head' = head /\ receipts' = receipts /\ answers' = answers /\ request'[job[c]] = wants[c]
      BY <1>11, <3>0, <3>1 DEF Bind, Save, Goto, SafeInv, TypeInv, TypeOK
    <3>5. 1..0 = {}
      OBVIOUS
    <3> QED BY <3>3, <3>4, <3>5 DEF WorkOK, Unanswered
  <2>3. BatchOK(b)'
    <3>1. request[b] = NoRequest /\ b \in made
      BY <1>11, <2>0 DEF Bind, WorkOK, SafeInv, WorkInv, TypeInv, CallInv
    <3>2. BatchOK(b)
      BY DEF SafeInv, BatchInv
    <3>3. made' = made /\ request'[b] \in Requests /\ head' = head /\ receipts' = receipts
          /\ model' = model /\ evidence' = evidence /\ answers' = answers
      BY <1>11, <2>0 DEF Bind, Save, SafeInv, TypeInv, TypeOK, CallInv
    <3>4. \A r \in Requests : <<b, r, "completed">> \notin answers /\ <<b, r, "cancelled">> \notin answers
                              /\ <<b, r, "conflict">> \notin answers
      BY <3>1, <3>2 DEF BatchOK
    <3> QED BY <3>1, <3>2, <3>3, <3>4 DEF BatchOK
  <2> QED BY <2>0, <2>1, <2>2, <2>3, InsideStep
<1>12. ASSUME NEW c \in Callers, CancelBefore(c) PROVE BatchInv' /\ WorkInv'
  <2>1. CallerFrame(c) /\ \A a \in Batches : SameBatch(a)
    BY <1>12 DEF CancelBefore, End, Save, Goto, CallerFrame, SameBatch, SafeInv, TypeInv, TypeOK
  <2>2. WorkOK(c)'
    BY <1>12 DEF CancelBefore, End, Save, Goto, WorkOK, SafeInv, TypeInv, TypeOK, CallInv, WorkInv, Unanswered, Modelled, Evident, Point, BatchInv, BatchOK, Inside
  <2> QED BY <2>1, <2>2, QuietStep
<1>13. ASSUME NEW c \in Callers, TornBefore(c) PROVE BatchInv' /\ WorkInv'
  <2>1. CallerFrame(c) /\ \A a \in Batches : SameBatch(a)
    BY <1>13 DEF TornBefore, Leave, CallerFrame, SameBatch, SafeInv, TypeInv, TypeOK
  <2>2. WorkOK(c)'
    BY <1>13 DEF TornBefore, Leave, WorkOK, SafeInv, TypeInv, TypeOK, CallInv, WorkInv, Unanswered, Modelled, Evident, Point, BatchInv, BatchOK, Inside
  <2> QED BY <2>1, <2>2, QuietStep
<1>14. ASSUME NEW c \in Callers, Start(c) PROVE BatchInv' /\ WorkInv'
  <2>1. CallerFrame(c) /\ \A a \in Batches : SameBatch(a)
    BY <1>14 DEF Start, Save, Goto, CallerFrame, SameBatch, SafeInv, TypeInv, TypeOK
  <2>2. WorkOK(c)'
    BY <1>14 DEF Start, Save, Goto, WorkOK, SafeInv, TypeInv, TypeOK, CallInv, WorkInv, Unanswered, Modelled, Evident, Point, BatchInv, BatchOK, Inside
  <2> QED BY <2>1, <2>2, QuietStep
<1>15. ASSUME NEW c \in Callers, Begin(c) PROVE BatchInv' /\ WorkInv'
  <2>1. CallerFrame(c) /\ \A a \in Batches : SameBatch(a)
    BY <1>15 DEF Begin, Goto, CallerFrame, SameBatch, SafeInv, TypeInv, TypeOK
  <2>2. WorkOK(c)'
    BY <1>15 DEF Begin, Goto, WorkOK, SafeInv, TypeInv, TypeOK, CallInv, WorkInv, Unanswered, Modelled, Evident, Point, BatchInv, BatchOK, Inside
  <2> QED BY <2>1, <2>2, QuietStep
<1>16. ASSUME NEW c \in Callers, CancelBetween(c) PROVE BatchInv' /\ WorkInv'
  <2>1. CallerFrame(c) /\ \A a \in Batches : SameBatch(a)
    BY <1>16 DEF CancelBetween, Left, End, Save, Goto, CallerFrame, SameBatch, SafeInv, TypeInv, TypeOK
  <2>2. WorkOK(c)'
    BY <1>16 DEF CancelBetween, Left, End, Save, Goto, WorkOK, SafeInv, TypeInv, TypeOK, CallInv, WorkInv, Unanswered, Modelled, Evident, Point, BatchInv, BatchOK, Inside
  <2> QED BY <2>1, <2>2, QuietStep
<1>17. ASSUME NEW c \in Callers, TornBetween(c) PROVE BatchInv' /\ WorkInv'
  <2>1. CallerFrame(c) /\ \A a \in Batches : SameBatch(a)
    BY <1>17 DEF TornBetween, Left, End, Save, Goto, CallerFrame, SameBatch, SafeInv, TypeInv, TypeOK
  <2>2. WorkOK(c)'
    BY <1>17 DEF TornBetween, Left, End, Save, Goto, WorkOK, SafeInv, TypeInv, TypeOK, CallInv, WorkInv, Unanswered, Modelled, Evident, Point, BatchInv, BatchOK, Inside
  <2> QED BY <2>1, <2>2, QuietStep
<1>18. ASSUME NEW c \in Callers, Deadline(c) PROVE BatchInv' /\ WorkInv'
  <2>1. CallerFrame(c) /\ \A a \in Batches : SameBatch(a)
    BY <1>18 DEF Deadline, End, Save, Goto, CallerFrame, SameBatch, SafeInv, TypeInv, TypeOK
  <2>2. WorkOK(c)'
    BY <1>18 DEF Deadline, End, Save, Goto, WorkOK, SafeInv, TypeInv, TypeOK, CallInv, WorkInv, Unanswered, Modelled, Evident, Point, BatchInv, BatchOK, Inside
  <2> QED BY <2>1, <2>2, QuietStep
<1>19. ASSUME NEW c \in Callers, Adopt(c) PROVE BatchInv' /\ WorkInv'
  <2>1. CallerFrame(c) /\ \A a \in Batches : SameBatch(a)
    BY <1>19 DEF Adopt, Left, Goto, CallerFrame, SameBatch, SafeInv, TypeInv, TypeOK
  <2>2. WorkOK(c)'
    BY <1>19 DEF Adopt, Left, Goto, WorkOK, SafeInv, TypeInv, TypeOK, CallInv, WorkInv, Unanswered, Modelled, Evident, Point, BatchInv, BatchOK, Inside
  <2> QED BY <2>1, <2>2, QuietStep
<1>20. ASSUME NEW c \in Callers, Incomplete(c) PROVE BatchInv' /\ WorkInv'
  <2>1. CallerFrame(c) /\ \A a \in Batches : SameBatch(a)
    BY <1>20 DEF Incomplete, Left, End, Save, Goto, CallerFrame, SameBatch, SafeInv, TypeInv, TypeOK
  <2>2. WorkOK(c)'
    BY <1>20 DEF Incomplete, Left, End, Save, Goto, WorkOK, SafeInv, TypeInv, TypeOK, CallInv, WorkInv, Unanswered, Modelled, Evident, Point, BatchInv, BatchOK, Inside
  <2> QED BY <2>1, <2>2, QuietStep
<1>21. ASSUME NEW c \in Callers, RunPoint(c) PROVE BatchInv' /\ WorkInv'
  <2>0. PICK b \in Batches : b = job[c]
    BY <1>21 DEF RunPoint, Left, Goto, Point, SafeInv, TypeInv, CallInv
  <2>1. Inside(c) /\ CallerFrame(c) /\ \A a \in Batches \ {b} : SameBatch(a)
    BY <1>21, <2>0 DEF RunPoint, Left, Goto, Point, CallerFrame, SameBatch, SafeInv, TypeInv, TypeOK, CallInv, Inside
  <2>2. WorkOK(c)'
    BY <1>21 DEF RunPoint, Left, Goto, Point, WorkOK, SafeInv, TypeInv, TypeOK, CallInv, WorkInv, Unanswered, Modelled, Evident, Point, BatchInv, BatchOK, Inside
  <2>3. BatchOK(b)'
    BY <1>21, <2>0 DEF RunPoint, Left, Goto, Point, WorkOK, SafeInv, TypeInv, TypeOK, CallInv, WorkInv, Unanswered, Modelled, Evident, Point, BatchInv, BatchOK, Inside, Absent, Head
  <2> QED BY <2>0, <2>1, <2>2, <2>3, InsideStep
<1>22. ASSUME NEW c \in Callers, PublishEvidence(c) PROVE BatchInv' /\ WorkInv'
  <2>0. PICK b \in Batches : b = job[c]
    BY <1>22 DEF PublishEvidence, Goto, Point, SafeInv, TypeInv, CallInv
  <2>1. Inside(c) /\ CallerFrame(c) /\ \A a \in Batches \ {b} : SameBatch(a)
    BY <1>22, <2>0 DEF PublishEvidence, Goto, Point, CallerFrame, SameBatch, SafeInv, TypeInv, TypeOK, CallInv, Inside
  <2>2. WorkOK(c)'
    BY <1>22 DEF PublishEvidence, Goto, Point, WorkOK, SafeInv, TypeInv, TypeOK, CallInv, WorkInv, Unanswered, Modelled, Evident, Point, BatchInv, BatchOK, Inside
  <2>3. BatchOK(b)'
    BY <1>22, <2>0 DEF PublishEvidence, Goto, Point, WorkOK, SafeInv, TypeInv, TypeOK, CallInv, WorkInv, Unanswered, Modelled, Evident, Point, BatchInv, BatchOK, Inside, Absent, Head
  <2> QED BY <2>0, <2>1, <2>2, <2>3, InsideStep
<1>23. ASSUME NEW c \in Callers, AlreadyReceipted(c) PROVE BatchInv' /\ WorkInv'
  <2>1. CallerFrame(c) /\ \A a \in Batches : SameBatch(a)
    BY <1>23 DEF AlreadyReceipted, End, Save, Goto, CallerFrame, SameBatch, SafeInv, TypeInv, TypeOK
  <2>2. WorkOK(c)'
    BY <1>23 DEF AlreadyReceipted, End, Save, Goto, WorkOK, SafeInv, TypeInv, TypeOK, CallInv, WorkInv, Unanswered, Modelled, Evident, Point, BatchInv, BatchOK, Inside
  <2> QED BY <2>1, <2>2, QuietStep
<1>24. ASSUME NEW c \in Callers, WriteReceipt(c) PROVE BatchInv' /\ WorkInv'
  <2>0. PICK b \in Batches : b = job[c]
    BY <1>24 DEF WriteReceipt, Save, Goto, Point, SafeInv, TypeInv, CallInv
  <2>1. Inside(c) /\ CallerFrame(c) /\ \A a \in Batches \ {b} : SameBatch(a)
    BY <1>24, <2>0 DEF WriteReceipt, Save, Goto, Point, CallerFrame, SameBatch, SafeInv, TypeInv, TypeOK, CallInv, Inside
  <2>2. WorkOK(c)'
    <3>0. job[c] \in Batches /\ wants[c] \in Requests /\ WorkOK(c) /\ BatchOK(job[c])
      BY <1>24 DEF WriteReceipt, SafeInv, TypeInv, CallInv, WorkInv, BatchInv
    <3>1. head[job[c]] \in Head /\ local[c] \in Head /\ local \in [Callers -> Head] /\ pc \in [Callers -> Phases]
      BY <3>0 DEF SafeInv, TypeInv, TypeOK
    <3>2. head[job[c]].completed \in Nat /\ local[c].completed \in Nat
      BY <3>1 DEF Head
    <3>3. request[job[c]] = wants[c] /\ Unanswered(job[c]) /\ local[c].completed = head[job[c]].completed
      BY <1>24, <3>0 DEF WriteReceipt, WorkOK
    <3>4. pc'[c] = "saving" /\ job'[c] = job[c] /\ wants'[c] = wants[c]
          /\ local'[c].completed = local[c].completed + 1 /\ head' = head /\ answers' = answers
          /\ request' = request /\ receipts'[job[c]] = receipts[job[c]] \cup {local[c].completed + 1}
      BY <1>24, <3>0, <3>1 DEF WriteReceipt, Save, Goto, Point, SafeInv, TypeInv, TypeOK, Head
    <3>5. 1..(local[c].completed + 1) \subseteq receipts'[job[c]]
      BY <3>0, <3>2, <3>3, <3>4 DEF BatchOK
    <3>6. Unanswered(job[c])'
      BY <3>3, <3>4 DEF Unanswered
    <3> QED BY <3>3, <3>4, <3>5, <3>6 DEF WorkOK
  <2>3. BatchOK(b)'
    BY <1>24, <2>0 DEF WriteReceipt, Save, Goto, Point, WorkOK, SafeInv, TypeInv, TypeOK, CallInv, WorkInv, Unanswered, Modelled, Evident, Point, BatchInv, BatchOK, Inside, Absent, Head
  <2> QED BY <2>0, <2>1, <2>2, <2>3, InsideStep
<1>25. ASSUME NEW c \in Callers, Finish(c) PROVE BatchInv' /\ WorkInv'
  <2>1. CallerFrame(c) /\ \A a \in Batches : SameBatch(a)
    BY <1>25 DEF Finish, Save, Goto, CallerFrame, SameBatch, SafeInv, TypeInv, TypeOK
  <2>2. WorkOK(c)'
    BY <1>25 DEF Finish, Save, Goto, WorkOK, SafeInv, TypeInv, TypeOK, CallInv, WorkInv, Unanswered, Modelled, Evident, Point, BatchInv, BatchOK, Inside
  <2> QED BY <2>1, <2>2, QuietStep
<1>26. ASSUME NEW c \in Callers, SaveHead(c) PROVE BatchInv' /\ WorkInv'
  <2>0. PICK b \in Batches : b = job[c]
    BY <1>26 DEF SaveHead, Goto, SafeInv, TypeInv, CallInv
  <2>1. Inside(c) /\ CallerFrame(c) /\ \A a \in Batches \ {b} : SameBatch(a)
    BY <1>26, <2>0 DEF SaveHead, Goto, CallerFrame, SameBatch, SafeInv, TypeInv, TypeOK, CallInv, Inside
  <2>2. WorkOK(c)'
    <3>0. job[c] \in Batches /\ wants[c] \in Requests /\ WorkOK(c) /\ BatchOK(job[c])
      BY <1>26 DEF SaveHead, SafeInv, TypeInv, CallInv, WorkInv, BatchInv
    <3>1. head[job[c]] \in Head /\ local[c] \in Head /\ local \in [Callers -> Head] /\ pc \in [Callers -> Phases]
      BY <3>0 DEF SafeInv, TypeInv, TypeOK
    <3>2. head[job[c]].completed \in Nat /\ local[c].completed \in Nat
      BY <3>1 DEF Head
    <3>3. request[job[c]] = wants[c] /\ Unanswered(job[c])
      BY <1>26, <3>0 DEF SaveHead, WorkOK
    <3>4. pc'[c] \in Nexts /\ job'[c] = job[c] /\ wants'[c] = wants[c] /\ local'[c] = local[c]
          /\ head'[job[c]] = local[c] /\ answers' = answers /\ request' = request
      BY <1>26, <3>0, <3>1 DEF SaveHead, Goto, SafeInv, TypeInv, TypeOK
    <3>6. Unanswered(job[c])'
      BY <3>3, <3>4 DEF Unanswered
    <3> QED BY <3>3, <3>4, <3>6 DEF WorkOK, Nexts
  <2>3. BatchOK(b)'
    <3>0. job[c] \in Batches /\ wants[c] \in Requests /\ WorkOK(c) /\ BatchOK(job[c])
      BY <1>26 DEF SaveHead, SafeInv, TypeInv, CallInv, WorkInv, BatchInv
    <3>1. head[job[c]] \in Head /\ local[c] \in Head /\ local \in [Callers -> Head] /\ pc \in [Callers -> Phases]
      BY <3>0 DEF SafeInv, TypeInv, TypeOK
    <3>2. head[job[c]].completed \in Nat /\ local[c].completed \in Nat
      BY <3>1 DEF Head
    <3>3. request[b] = wants[c] /\ Unanswered(b) /\ 1..local[c].completed \subseteq receipts[b]
          /\ head[b].completed <= local[c].completed
      BY <1>26, <2>0, <3>0, <3>2 DEF SaveHead, WorkOK
    <3>4. made' = made /\ request' = request /\ head'[b] = local[c] /\ receipts' = receipts
          /\ model' = model /\ evidence' = evidence /\ answers' = answers
      BY <1>26, <2>0 DEF SaveHead, SafeInv, TypeInv, TypeOK
    <3>5. model[b] \subseteq 1..(local[c].completed + 1)
      BY <2>0, <3>0, <3>2, <3>3 DEF BatchOK
    <3>6. BatchOK(b) /\ request[b] # NoRequest
      BY <2>0, <3>0, <3>3
    <3> QED BY <3>3, <3>4, <3>5, <3>6 DEF BatchOK, Unanswered
  <2> QED BY <2>0, <2>1, <2>2, <2>3, InsideStep
<1>27. ASSUME NEW c \in Callers, Raise(c) PROVE BatchInv' /\ WorkInv'
  <2>0. PICK b \in Batches : b = job[c]
    BY <1>27 DEF Raise, Tell, Leave, SafeInv, TypeInv, CallInv
  <2>1. Inside(c) /\ CallerFrame(c) /\ \A a \in Batches \ {b} : SameBatch(a)
    BY <1>27, <2>0 DEF Raise, Tell, Leave, CallerFrame, SameBatch, SafeInv, TypeInv, TypeOK, CallInv, Inside
  <2>2. WorkOK(c)'
    BY <1>27 DEF Raise, Tell, Leave, WorkOK, SafeInv, TypeInv, TypeOK, CallInv, WorkInv, Unanswered, Modelled, Evident, Point, BatchInv, BatchOK, Inside
  <2>3. BatchOK(b)'
    BY <1>27, <2>0 DEF Raise, Tell, Leave, WorkOK, SafeInv, TypeInv, TypeOK, CallInv, WorkInv, Unanswered, Modelled, Evident, Point, BatchInv, BatchOK, Inside, Absent, Head
  <2> QED BY <2>0, <2>1, <2>2, <2>3, InsideStep
<1>28. ASSUME NEW c \in Callers, Verify(c) PROVE BatchInv' /\ WorkInv'
  <2>0. PICK b \in Batches : b = job[c]
    BY <1>28 DEF Verify, Tell, Leave, SafeInv, TypeInv, CallInv
  <2>1. Inside(c) /\ CallerFrame(c) /\ \A a \in Batches \ {b} : SameBatch(a)
    BY <1>28, <2>0 DEF Verify, Tell, Leave, CallerFrame, SameBatch, SafeInv, TypeInv, TypeOK, CallInv, Inside
  <2>2. WorkOK(c)'
    BY <1>28 DEF Verify, Tell, Leave, WorkOK, SafeInv, TypeInv, TypeOK, CallInv, WorkInv, Unanswered, Modelled, Evident, Point, BatchInv, BatchOK, Inside
  <2>3. BatchOK(b)'
    <3>0. BatchOK(b) /\ request[b] = wants[c]
      BY <1>28, <2>0 DEF Verify, WorkOK, SafeInv, WorkInv, BatchInv
    <3>1. made' = made /\ request' = request /\ head' = head /\ receipts' = receipts
          /\ model' = model /\ evidence' = evidence
      BY <1>28 DEF Verify
    <3>2. CASE Verified(job[c])
      <4>1. head[b] = [status |-> "completed", completed |-> Points]
        BY <2>0, <3>2 DEF Verified
      <4>2. \A r \in Requests :
              /\ <<b, r, "completed">> \in answers' => <<b, r, "completed">> \in answers \/ r = wants[c]
              /\ <<b, r, "cancelled">> \in answers' => <<b, r, "cancelled">> \in answers
              /\ <<b, r, "conflict">> \in answers' => <<b, r, "conflict">> \in answers
        BY <1>28, <2>0, <3>2 DEF Verify, Tell
      <4> QED BY <3>0, <3>1, <4>1, <4>2 DEF BatchOK
    <3>3. CASE ~Verified(job[c])
      <4>1. answers' = answers
        BY <1>28, <3>3 DEF Verify
      <4> QED BY <3>0, <3>1, <4>1 DEF BatchOK
    <3> QED BY <3>2, <3>3
  <2> QED BY <2>0, <2>1, <2>2, <2>3, InsideStep
<1>29. ASSUME NEW c \in Callers, CancelToken(c) PROVE BatchInv' /\ WorkInv'
  <2>1. CallerFrame(c) /\ \A a \in Batches : SameBatch(a)
    BY <1>29 DEF CancelToken, CallerFrame, SameBatch, SafeInv, TypeInv, TypeOK
  <2>2. WorkOK(c)'
    BY <1>29 DEF CancelToken, WorkOK, SafeInv, TypeInv, TypeOK, CallInv, WorkInv, Unanswered, Modelled, Evident, Point, BatchInv, BatchOK, Inside
  <2> QED BY <2>1, <2>2, QuietStep
<1>30. ASSUME NEW c \in Callers, PointFails(c) PROVE BatchInv' /\ WorkInv'
  <2>1. CallerFrame(c) /\ \A a \in Batches : SameBatch(a)
    BY <1>30 DEF PointFails, Fault, End, Save, Goto, CallerFrame, SameBatch, SafeInv, TypeInv, TypeOK
  <2>2. WorkOK(c)'
    BY <1>30 DEF PointFails, Fault, End, Save, Goto, WorkOK, SafeInv, TypeInv, TypeOK, CallInv, WorkInv, Unanswered, Modelled, Evident, Point, BatchInv, BatchOK, Inside
  <2> QED BY <2>1, <2>2, QuietStep
<1>31. ASSUME NEW c \in Callers, PartialFails(c) PROVE BatchInv' /\ WorkInv'
  <2>1. CallerFrame(c) /\ \A a \in Batches : SameBatch(a)
    BY <1>31 DEF PartialFails, Fault, End, Save, Goto, CallerFrame, SameBatch, SafeInv, TypeInv, TypeOK
  <2>2. WorkOK(c)'
    BY <1>31 DEF PartialFails, Fault, End, Save, Goto, WorkOK, SafeInv, TypeInv, TypeOK, CallInv, WorkInv, Unanswered, Modelled, Evident, Point, BatchInv, BatchOK, Inside
  <2> QED BY <2>1, <2>2, QuietStep
<1>32. ASSUME NEW c \in Callers, ReceiptFails(c) PROVE BatchInv' /\ WorkInv'
  <2>1. CallerFrame(c) /\ \A a \in Batches : SameBatch(a)
    BY <1>32 DEF ReceiptFails, Fault, End, Save, Goto, CallerFrame, SameBatch, SafeInv, TypeInv, TypeOK
  <2>2. WorkOK(c)'
    BY <1>32 DEF ReceiptFails, Fault, End, Save, Goto, WorkOK, SafeInv, TypeInv, TypeOK, CallInv, WorkInv, Unanswered, Modelled, Evident, Point, BatchInv, BatchOK, Inside
  <2> QED BY <2>1, <2>2, QuietStep
<1>33. ASSUME NEW c \in Callers, HeadFails(c) PROVE BatchInv' /\ WorkInv'
  <2>1. CallerFrame(c) /\ \A a \in Batches : SameBatch(a)
    BY <1>33 DEF HeadFails, Fault, HeadError, End, Save, Goto, Leave, CallerFrame, SameBatch, SafeInv, TypeInv, TypeOK
  <2>2. WorkOK(c)'
    <3>0. job[c] \in Batches /\ wants[c] \in Requests /\ WorkOK(c) /\ BatchOK(job[c])
      BY <1>33 DEF HeadFails, SafeInv, TypeInv, CallInv, WorkInv, BatchInv, Fault
    <3>1. head[job[c]] \in Head /\ local[c] \in Head /\ local \in [Callers -> Head] /\ pc \in [Callers -> Phases]
      BY <3>0 DEF SafeInv, TypeInv, TypeOK
    <3>2. head[job[c]].completed \in Nat /\ local[c].completed \in Nat
      BY <3>1 DEF Head
    <3>3. CASE after[c] \in {"points", "verify"}
      <4>1. pc'[c] = "saving" /\ job' = job /\ wants' = wants /\ local'[c].completed = local[c].completed
            /\ head' = head /\ receipts' = receipts /\ request' = request /\ answers' = answers
        BY <1>33, <3>1, <3>3 DEF HeadFails, HeadError, End, Save, Goto, Head
      <4>2. Unanswered(job[c])'  <=> Unanswered(job[c])
        BY <4>1 DEF Unanswered
      <4> QED BY <1>33, <3>0, <4>1, <4>2 DEF HeadFails, WorkOK
    <3>4. CASE after[c] \notin {"points", "verify"}
      BY <1>33, <3>1, <3>4 DEF HeadFails, HeadError, Leave, WorkOK
    <3> QED BY <3>3, <3>4
  <2> QED BY <2>1, <2>2, QuietStep
<1>34. ASSUME NEW c \in Callers, FlushFails(c) PROVE BatchInv' /\ WorkInv'
  <2>0. PICK b \in Batches : b = job[c]
    BY <1>34 DEF FlushFails, Fault, HeadError, End, Save, Goto, Leave, Point, SafeInv, TypeInv, CallInv
  <2>1. Inside(c) /\ CallerFrame(c) /\ \A a \in Batches \ {b} : SameBatch(a)
    BY <1>34, <2>0 DEF FlushFails, Fault, HeadError, End, Save, Goto, Leave, Point, CallerFrame, SameBatch, SafeInv, TypeInv, TypeOK, CallInv, Inside
  <2>2. WorkOK(c)'
    <3>0. job[c] \in Batches /\ wants[c] \in Requests /\ WorkOK(c) /\ BatchOK(job[c])
      BY <1>34 DEF FlushFails, SafeInv, TypeInv, CallInv, WorkInv, BatchInv, Fault
    <3>1. head[job[c]] \in Head /\ local[c] \in Head /\ local \in [Callers -> Head] /\ pc \in [Callers -> Phases]
      BY <3>0 DEF SafeInv, TypeInv, TypeOK
    <3>2. head[job[c]].completed \in Nat /\ local[c].completed \in Nat
      BY <3>1 DEF Head
    <3>3. pc[c] \in {"result", "saving"} /\ request[job[c]] = wants[c] /\ Unanswered(job[c])
          /\ request' = request
      BY <1>34, <3>0 DEF FlushFails, WorkOK
    <3>4. CASE pc[c] = "result"
      <4>1. pc'[c] = "saving" /\ job' = job /\ wants' = wants /\ local'[c].completed = local[c].completed
            /\ head' = head /\ answers' = answers
            /\ receipts'[job[c]] = receipts[job[c]] \cup {Point(c)}
        BY <1>34, <3>0, <3>1, <3>4 DEF FlushFails, End, Save, Goto, Head, SafeInv, TypeInv, TypeOK
      <4>2. local[c].completed = head[job[c]].completed /\ 1..head[job[c]].completed \subseteq receipts[job[c]]
        BY <3>0, <3>4 DEF WorkOK, BatchOK
      <4>3. Unanswered(job[c])'
        BY <3>3, <4>1 DEF Unanswered
      <4> QED BY <3>3, <4>1, <4>2, <4>3 DEF WorkOK
    <3>5. CASE pc[c] = "saving" /\ after[c] \in {"points", "verify"}
      <4>1. pc'[c] = "saving" /\ job' = job /\ wants' = wants /\ local'[c].completed = local[c].completed
            /\ head'[job[c]] = local[c] /\ receipts' = receipts /\ answers' = answers
        BY <1>34, <3>0, <3>1, <3>5 DEF FlushFails, HeadError, End, Save, Goto, Head, SafeInv, TypeInv, TypeOK
      <4>2. 1..local[c].completed \subseteq receipts[job[c]]
        BY <3>0, <3>5 DEF WorkOK
      <4>3. Unanswered(job[c])'
        BY <3>3, <4>1 DEF Unanswered
      <4> QED BY <3>3, <4>1, <4>2, <4>3 DEF WorkOK
    <3>6. CASE pc[c] = "saving" /\ after[c] \notin {"points", "verify"}
      BY <1>34, <3>1, <3>6 DEF FlushFails, HeadError, Leave, WorkOK
    <3> QED BY <3>3, <3>4, <3>5, <3>6
  <2>3. BatchOK(b)'
    <3>0. job[c] \in Batches /\ wants[c] \in Requests /\ WorkOK(c) /\ BatchOK(job[c])
      BY <1>34 DEF FlushFails, SafeInv, TypeInv, CallInv, WorkInv, BatchInv, Fault
    <3>1. head[job[c]] \in Head /\ local[c] \in Head /\ local \in [Callers -> Head] /\ pc \in [Callers -> Phases]
      BY <3>0 DEF SafeInv, TypeInv, TypeOK
    <3>2. head[job[c]].completed \in Nat /\ local[c].completed \in Nat
      BY <3>1 DEF Head
    <3>3. pc[c] \in {"result", "saving"} /\ request[b] = wants[c] /\ Unanswered(b) /\ BatchOK(b)
          /\ made' = made /\ request' = request /\ model' = model /\ evidence' = evidence
          /\ request[b] # NoRequest
      BY <1>34, <2>0, <3>0 DEF FlushFails, WorkOK
    <3>4. CASE pc[c] = "result"
      <4>1. head' = head /\ answers' = answers /\ receipts'[b] = receipts[b] \cup {Point(c)}
        BY <1>34, <2>0, <3>4 DEF FlushFails, End, Save, SafeInv, TypeInv, TypeOK
      <4>2. Point(c) \in evidence[b]
        BY <2>0, <3>0, <3>4 DEF WorkOK, Evident
      <4> QED BY <3>3, <4>1, <4>2 DEF BatchOK
    <3>5. CASE pc[c] = "saving"
      <4>1. head'[b] = local[c] /\ receipts' = receipts /\ answers' = answers
        BY <1>34, <2>0, <3>5 DEF FlushFails, HeadError, End, Save, SafeInv, TypeInv, TypeOK
      <4>2. 1..local[c].completed \subseteq receipts[b] /\ head[b].completed <= local[c].completed
        BY <2>0, <3>0, <3>2, <3>5 DEF WorkOK
      <4>3. model[b] \subseteq 1..(local[c].completed + 1)
        BY <2>0, <3>2, <3>3, <4>2 DEF BatchOK
      <4> QED BY <3>3, <4>1, <4>2, <4>3 DEF BatchOK, Unanswered
    <3> QED BY <3>3, <3>4, <3>5
  <2> QED BY <2>0, <2>1, <2>2, <2>3, InsideStep
<1>35. ASSUME NEW c \in Callers, Crash(c) PROVE BatchInv' /\ WorkInv'
  <2>1. CallerFrame(c) /\ \A a \in Batches : SameBatch(a)
    BY <1>35 DEF Crash, Fault, Leave, CallerFrame, SameBatch, SafeInv, TypeInv, TypeOK
  <2>2. WorkOK(c)'
    BY <1>35 DEF Crash, Fault, Leave, WorkOK, SafeInv, TypeInv, TypeOK, CallInv, WorkInv, Unanswered, Modelled, Evident, Point, BatchInv, BatchOK, Inside
  <2> QED BY <2>1, <2>2, QuietStep
<1>36. ASSUME NEW b \in Batches, CancelCreate(b) PROVE BatchInv' /\ WorkInv'
  BY <1>36 DEF CancelCreate, SafeInv, BatchInv, BatchOK, WorkInv, WorkOK, Unanswered, Modelled, Evident, Point
<1>37. ASSUME NEW b \in Batches, CancelWrite(b) PROVE BatchInv' /\ WorkInv'
  BY <1>37 DEF CancelWrite, SafeInv, BatchInv, BatchOK, WorkInv, WorkOK, Unanswered, Modelled, Evident, Point
<1>38. CASE UNCHANGED vars
  BY <1>38 DEF vars, SafeInv, BatchInv, BatchOK, WorkInv, WorkOK, Unanswered, Modelled, Evident, Point
<1> QED BY <1>1, <1>2, <1>3, <1>4, <1>5, <1>6, <1>7, <1>8, <1>9, <1>10, <1>11, <1>12, <1>13, <1>14, <1>15, <1>16, <1>17, <1>18, <1>19, <1>20, <1>21, <1>22, <1>23, <1>24, <1>25, <1>26, <1>27, <1>28, <1>29, <1>30, <1>31, <1>32, <1>33, <1>34, <1>35, <1>36, <1>37, <1>38 DEF Next, Work, Fail

(* The head never runs ahead of the receipts and the evidence on disk, and  *)
(* what callers were told stays so, whatever fails at any step.             *)
THEOREM BatchSafe == Spec => [](HeadBacked /\ AnswersStand)
<1>1. SafeInv => HeadBacked /\ AnswersStand
  BY DEF SafeInv, BatchInv, BatchOK, HeadBacked, AnswersStand
<1> QED BY <1>1, InitSafeInv, NextSafeInv, PTL DEF Spec

-----------------------------------------------------------------------------
(***************************************************************************)
(* The batch is one step of BatchProgress at a time.  The argument: the    *)
(* head a caller is about to save differs from the one on disk by exactly  *)
(* one step, also when it is saved once more by the handler of the error   *)
(* that saving it raised, before or after the file was replaced.           *)
(***************************************************************************)
Saves(h, l, next) ==
    \/ next = "opened" /\ h.status = "absent" /\ l.status = "prepared" /\ l.completed = h.completed
    \/ next = "begin" /\ h.status \in Open /\ l.status = "running" /\ l.completed = h.completed
    \/ next = "points" /\ h.status = "running" /\ l.status = "running" /\ l.completed = h.completed + 1
    \/ /\ next = "verify" /\ h.status = "running" /\ l.status = "completed"
       /\ l.completed = h.completed /\ h.completed = Points
    \/ /\ next = "stop"
       /\ \/ h.status \in Open /\ l.status = "cancelled" /\ l.completed = h.completed
          \/ /\ h.status = "running" /\ l.status \in {"interrupted", "deadline_exceeded"}
             /\ l.completed = h.completed
          \/ h.status = "running" /\ l.status = "interrupted" /\ l.completed = h.completed + 1
          \/ h.status = "completed" /\ l.status = "interrupted" /\ l.completed = h.completed

StepOK(c) ==
    /\ pc[c] = "opened" => local[c] = head[job[c]] /\ local[c].status \in Open
    /\ pc[c] \in {"begin", "points", "modelled", "result"} =>
          local[c] = head[job[c]] /\ local[c].status = "running"
    /\ pc[c] = "saving" => Saves(head[job[c]], local[c], after[c])

StepInv == \A c \in Callers : StepOK(c)

(* The caller that moves leaves the heads of the other callers alone. *)
LEMMA HeadFrame ==
    ASSUME SafeInv, StepInv, NEW c \in Callers, CallerFrame(c), StepOK(c)',
           \A d \in Callers \ {c} : after'[d] = after[d],
           \/ head' = head
           \/ Inside(c) /\ \A b \in Batches \ {job[c]} : head'[b] = head[b]
    PROVE  StepInv'
<1>1. SUFFICES ASSUME NEW d \in Callers \ {c} PROVE StepOK(d)'
  BY DEF StepInv
<1>2. /\ StepOK(d) /\ pc'[d] = pc[d] /\ job'[d] = job[d] /\ local'[d] = local[d]
      /\ after'[d] = after[d]
  BY DEF StepInv, CallerFrame
<1>3. Inside(d) => head'[job[d]] = head[job[d]]
  BY BatchAssumption DEF SafeInv, TypeInv, TypeOK, CallInv, Inside
<1> QED BY <1>2, <1>3 DEF StepOK, Inside

(* The head that was to be saved is saved. *)
LEMMA SavedHead ==
    ASSUME SafeInv, NEW c \in Callers, pc[c] = "saving", head' = [head EXCEPT ![job[c]] = local[c]]
    PROVE  /\ Inside(c) /\ job[c] \in Batches /\ head'[job[c]] = local[c]
           /\ \A b \in Batches \ {job[c]} : head'[b] = head[b]
           /\ local[c] \in Head /\ head[job[c]] \in Head
  BY DEF SafeInv, TypeInv, TypeOK, CallInv, Inside

LEMMA NextStepInv == SafeInv /\ StepInv /\ [Next]_vars => StepInv'
<1> SUFFICES ASSUME SafeInv, StepInv, [Next]_vars PROVE StepInv'
  OBVIOUS
<1>t. /\ pc \in [Callers -> Phases] /\ job \in [Callers -> Batches \cup {NoBatch}]
      /\ wants \in [Callers -> Requests \cup {NoRequest}] /\ local \in [Callers -> Head]
      /\ after \in [Callers -> Nexts] /\ head \in [Batches -> Head]
      /\ \A c \in Callers : pc[c] # "idle" => job[c] \in Batches
  BY DEF SafeInv, TypeInv, TypeOK, CallInv
<1> DEFINE Quiet(c) == /\ CallerFrame(c) /\ head' = head
                       /\ \A d \in Callers \ {c} : after'[d] = after[d]
<1>1. ASSUME NEW c \in Callers,
             \/ \E b \in Batches, r \in Requests : Call(c, b, r)
             \/ LockBatch(c) \/ LockResource(c) \/ Busy(c) \/ Conflict(c) \/ Unopenable(c)
             \/ Replay(c) \/ AlreadyCancelled(c) \/ Make(c) \/ TornBefore(c) \/ Raise(c)
             \/ Verify(c) \/ Crash(c)
      PROVE  StepInv'
  <2>1. Quiet(c)
    BY <1>1, <1>t DEF Call, LockBatch, LockResource, Busy, Conflict, Unopenable, Replay,
       AlreadyCancelled, Make, TornBefore, Raise, Verify, Crash, Leave, Goto, CallerFrame,
       disk, locks, caller
  <2>2. pc'[c] \in {"idle", "batchLock", "resourceLock", "locked", "made", "verify"}
    BY <1>1, <1>t DEF Call, LockBatch, LockResource, Busy, Conflict, Unopenable, Replay,
       AlreadyCancelled, Make, TornBefore, Raise, Verify, Crash, Leave, Goto
  <2> QED BY <2>1, <2>2, HeadFrame DEF StepOK
<1>2. ASSUME NEW c \in Callers, Resume(c) PROVE StepInv'
  <2>1. Quiet(c) /\ StepOK(c)'
    BY <1>2, <1>t DEF Resume, Bound, Goto, CallerFrame, StepOK, disk, locks, caller
  <2> QED BY <2>1, HeadFrame
<1>3. ASSUME NEW c \in Callers, Begin(c) \/ Adopt(c) \/ RunPoint(c) \/ PublishEvidence(c)
      PROVE  StepInv'
  <2>1. Quiet(c) /\ local' = local /\ job' = job
    BY <1>3, <1>t DEF Begin, Adopt, RunPoint, PublishEvidence, Goto, CallerFrame, disk, locks, caller
  <2>2. /\ pc[c] \in {"begin", "points", "modelled", "result"}
        /\ pc'[c] \in {"points", "modelled", "result"}
    BY <1>3, <1>t DEF Begin, Adopt, RunPoint, PublishEvidence, Left, Goto
  <2>3. StepOK(c)'
    BY <2>1, <2>2 DEF StepInv, StepOK
  <2> QED BY <2>1, <2>3, HeadFrame
<1>4. ASSUME NEW c \in Callers, CancelToken(c) PROVE StepInv'
  BY <1>4 DEF CancelToken, disk, locks, StepInv, StepOK
<1>5. ASSUME NEW c \in Callers, NEW h \in Head, NEW next \in Nexts, Save(c, h, next), head' = head,
             pc[c] # "idle", Saves(head[job[c]], h, next)
      PROVE  StepInv'
  <2>1. Quiet(c) /\ pc'[c] = "saving" /\ local'[c] = h /\ after'[c] = next /\ job' = job
    BY <1>5, <1>t DEF Save, Goto, CallerFrame
  <2>2. StepOK(c)'
    BY <2>1, <1>5 DEF StepOK
  <2> QED BY <2>1, <2>2, HeadFrame
<1>6. ASSUME NEW c \in Callers, Bind(c) PROVE StepInv'
  <2>1. head[job[c]] = Absent
    BY <1>6, <1>t DEF Bind, SafeInv, WorkInv, WorkOK, BatchInv, BatchOK
  <2>2. [status |-> "prepared", completed |-> 0] \in Head /\ "opened" \in Nexts
    BY BoundAssumption DEF Head, Statuses, Open, Nexts
  <2> QED BY <1>5, <1>6, <2>1, <2>2 DEF Bind, Saves, Absent
<1>7. ASSUME NEW c \in Callers, Start(c) PROVE StepInv'
  <2>1. local[c] = head[job[c]] /\ local[c].status \in Open
    BY <1>7 DEF Start, StepInv, StepOK
  <2>2. "begin" \in Nexts /\ [local[c] EXCEPT !.status = "running"] \in Head
    BY <1>t DEF Nexts, Head, Statuses, Open
  <2>3. Saves(head[job[c]], [local[c] EXCEPT !.status = "running"], "begin")
    BY <1>t, <2>1 DEF Saves, Head
  <2> QED BY <1>5, <1>7, <2>2, <2>3 DEF Start, disk
<1>8. ASSUME NEW c \in Callers, WriteReceipt(c) PROVE StepInv'
  <2>1. local[c] = head[job[c]] /\ local[c].status = "running"
    BY <1>8 DEF WriteReceipt, StepInv, StepOK
  <2>2. "points" \in Nexts /\ [local[c] EXCEPT !.completed = Point(c)] \in Head
    <3>1. local[c].completed < Points /\ local[c].completed \in 0..Points
      BY <1>8, <1>t DEF WriteReceipt, SafeInv, TypeInv, CallInv, Head
    <3> QED BY <1>t, <3>1, BoundAssumption DEF Nexts, Head, Point
  <2>3. Saves(head[job[c]], [local[c] EXCEPT !.completed = Point(c)], "points")
    BY <1>t, <2>1 DEF Saves, Head, Point
  <2> QED BY <1>5, <1>8, <2>2, <2>3 DEF WriteReceipt
<1>9. ASSUME NEW c \in Callers, Finish(c) PROVE StepInv'
  <2>1. local[c] = head[job[c]] /\ local[c].status = "running" /\ local[c].completed = Points
    BY <1>9 DEF Finish, StepInv, StepOK
  <2>2. "verify" \in Nexts /\ [local[c] EXCEPT !.status = "completed"] \in Head
    BY <1>t DEF Nexts, Head, Statuses
  <2>3. Saves(head[job[c]], [local[c] EXCEPT !.status = "completed"], "verify")
    BY <1>t, <2>1 DEF Saves, Head
  <2> QED BY <1>5, <1>9, <2>2, <2>3 DEF Finish, disk
<1>10. ASSUME NEW c \in Callers, CancelBefore(c) \/ CancelBetween(c) PROVE StepInv'
  <2>1. /\ local[c] = head[job[c]] /\ local[c].status \in Open
        /\ End(c, "cancelled") /\ head' = head /\ pc[c] # "idle"
    BY <1>10 DEF CancelBefore, CancelBetween, Left, StepInv, StepOK, Open, disk
  <2>2. "stop" \in Nexts /\ [local[c] EXCEPT !.status = "cancelled"] \in Head
    BY <1>t DEF Nexts, Head, Statuses
  <2>3. Saves(head[job[c]], [local[c] EXCEPT !.status = "cancelled"], "stop")
    BY <1>t, <2>1 DEF Saves, Head
  <2> QED BY <1>5, <2>1, <2>2, <2>3 DEF End
<1>11. ASSUME NEW c \in Callers, NEW s \in {"interrupted", "deadline_exceeded"}, End(c, s),
              head' = head, pc[c] \in {"points", "modelled", "result"}
       PROVE  StepInv'
  <2>1. local[c] = head[job[c]] /\ local[c].status = "running"
    BY <1>11 DEF StepInv, StepOK
  <2>2. "stop" \in Nexts /\ [local[c] EXCEPT !.status = s] \in Head
    BY <1>t DEF Nexts, Head, Statuses, Open
  <2>3. Saves(head[job[c]], [local[c] EXCEPT !.status = s], "stop")
    BY <1>t, <2>1 DEF Saves, Head
  <2> QED BY <1>5, <1>11, <2>2, <2>3 DEF End
<1>12. ASSUME NEW c \in Callers,
              \/ TornBetween(c) \/ Deadline(c) \/ Incomplete(c) \/ AlreadyReceipted(c)
              \/ PointFails(c) \/ PartialFails(c) \/ ReceiptFails(c)
       PROVE  StepInv'
  BY <1>11, <1>12 DEF TornBetween, Deadline, Incomplete, AlreadyReceipted, PointFails, PartialFails,
     ReceiptFails, Left, disk
<1>13. ASSUME NEW c \in Callers, SaveHead(c) PROVE StepInv'
  <2>1. /\ pc[c] = "saving" /\ pc'[c] = after[c] /\ local' = local /\ job' = job /\ after' = after
        /\ CallerFrame(c) /\ head' = [head EXCEPT ![job[c]] = local[c]]
    BY <1>13, <1>t DEF SaveHead, Goto, CallerFrame
  <2>2. head'[job[c]] = local[c] /\ Saves(head[job[c]], local[c], after[c])
    BY <2>1, SavedHead DEF StepInv, StepOK
  <2>3. StepOK(c)'
    BY <2>1, <2>2 DEF StepOK, Saves, Open
  <2> QED BY <2>1, <2>3, HeadFrame, SavedHead
<1>14. ASSUME NEW c \in Callers, HeadError(c), pc[c] = "saving",
              head' = head \/ head' = [head EXCEPT ![job[c]] = local[c]]
       PROVE  StepInv'
  <2>1. Saves(head[job[c]], local[c], after[c]) /\ local[c] \in Head /\ head[job[c]] \in Head
    BY <1>14, <1>t DEF StepInv, StepOK
  <2>2. head' = head \/ (Inside(c) /\ \A b \in Batches \ {job[c]} : head'[b] = head[b])
    BY <1>14, SavedHead
  <2>3. CASE after[c] \in {"points", "verify"}
    <3>1. /\ CallerFrame(c) /\ \A d \in Callers \ {c} : after'[d] = after[d]
          /\ pc'[c] = "saving" /\ after'[c] = "stop" /\ job' = job
          /\ local'[c] = [local[c] EXCEPT !.status = "interrupted"]
      BY <1>14, <1>t, <2>3 DEF HeadError, End, Save, Goto, CallerFrame
    <3>2. local'[c].status = "interrupted" /\ local'[c].completed = local[c].completed
      BY <2>1, <3>1 DEF Head
    <3>3. head'[job[c]] \in {head[job[c]], local[c]}
      BY <1>14, SavedHead
    <3>4. Saves(head'[job[c]], local'[c], "stop")
      BY <2>1, <2>3, <3>2, <3>3 DEF Saves
    <3>5. StepOK(c)'
      BY <3>1, <3>4 DEF StepOK
    <3> QED BY <2>2, <3>1, <3>5, HeadFrame
  <2>4. CASE after[c] \notin {"points", "verify"}
    <3>1. /\ CallerFrame(c) /\ \A d \in Callers \ {c} : after'[d] = after[d]
          /\ pc'[c] = "idle"
      BY <1>14, <1>t, <2>4 DEF HeadError, Leave, CallerFrame
    <3>2. StepOK(c)'
      BY <3>1 DEF StepOK
    <3> QED BY <2>2, <3>1, <3>2, HeadFrame
  <2> QED BY <2>3, <2>4
<1>15. ASSUME NEW c \in Callers, HeadFails(c) PROVE StepInv'
  BY <1>14, <1>15 DEF HeadFails, disk
<1>16. ASSUME NEW c \in Callers, FlushFails(c) PROVE StepInv'
  <2>1. CASE pc[c] = "result" /\ End(c, "interrupted") /\ head' = head
    BY <1>11, <2>1
  <2>2. CASE pc[c] = "saving" /\ head' = [head EXCEPT ![job[c]] = local[c]] /\ HeadError(c)
    BY <1>14, <2>2
  <2> QED BY <1>16, <2>1, <2>2 DEF FlushFails
<1>17. ASSUME NEW b \in Batches, CancelCreate(b) \/ CancelWrite(b) PROVE StepInv'
  BY <1>17 DEF CancelCreate, CancelWrite, disk, locks, caller, StepInv, StepOK
<1>18. CASE UNCHANGED vars
  BY <1>18 DEF vars, disk, locks, caller, StepInv, StepOK
<1> QED
  BY <1>1, <1>2, <1>3, <1>4, <1>6, <1>7, <1>8, <1>9, <1>10, <1>12, <1>13, <1>15, <1>16, <1>17, <1>18
  DEF Next, Work, Fail

-----------------------------------------------------------------------------
progress == <<request, HeadStatus, HeadDone, answers>>

(* A head that is saved is a step of its batch. *)
LEMMA SaveProgresses ==
    ASSUME SafeInv, StepInv, NEW c \in Callers, pc[c] = "saving",
           head' = [head EXCEPT ![job[c]] = local[c]], UNCHANGED <<request, answers>>
    PROVE  Progress!Next
<1>1. PICK b \in Batches : b = job[c]
  BY SavedHead
<1> DEFINE h == head[b]
           l == local[c]
<1>2. /\ l \in Head /\ h \in Head /\ Saves(h, l, after[c]) /\ head \in [Batches -> Head]
      /\ HeadStatus[b] = h.status /\ HeadDone[b] = h.completed
  BY <1>1, SavedHead DEF StepInv, StepOK, SafeInv, TypeInv, TypeOK, HeadStatus, HeadDone
<1>3. HeadStatus' = [HeadStatus EXCEPT ![b] = l.status]
  BY <1>1, <1>2 DEF HeadStatus
<1>4. HeadDone' = [HeadDone EXCEPT ![b] = l.completed]
  BY <1>1, <1>2 DEF HeadDone
<1>5. l.completed = h.completed => HeadDone' = HeadDone
  BY <1>2, <1>4 DEF HeadDone
<1>6. ASSUME NEW s, l.status = s, l.completed = h.completed PROVE Progress!Become(b, s)
  BY <1>3, <1>5, <1>6 DEF Progress!Become
<1>7. request[b] # NoRequest /\ Unanswered(b)
  BY <1>1, BatchAssumption DEF SafeInv, WorkInv, WorkOK, TypeInv, CallInv
<1> HIDE DEF h, l
<1>8. \/ Progress!Prepare(b) \/ Progress!Start(b) \/ Progress!Stop(b) \/ Progress!Cancel(b)
      \/ Progress!Complete(b) \/ Progress!Retract(b) \/ Progress!Advance(b)
  <2>1. CASE after[c] = "opened"
    BY <1>2, <1>6, <1>7, <2>1 DEF Saves, Progress!Prepare
  <2>2. CASE after[c] = "begin"
    BY <1>2, <1>6, <2>2 DEF Saves, Progress!Start, Progress!Open, Open
  <2>3. CASE l.completed = h.completed + 1
    <3>1. HeadDone[b] < Points /\ HeadDone' = [HeadDone EXCEPT ![b] = @ + 1]
      BY <1>2, <1>4, <2>3, BoundAssumption DEF Head
    <3>2. h.status = "running" /\ l.status \in {"running", "interrupted"}
      BY <1>2, <2>3 DEF Saves, Head
    <3> QED BY <1>2, <1>3, <3>1, <3>2 DEF Progress!Advance
  <2>4. CASE after[c] = "verify"
    BY <1>2, <1>6, <2>4 DEF Saves, Progress!Complete
  <2>5. CASE after[c] = "stop" /\ l.completed = h.completed
    <3>1. CASE h.status \in Open /\ l.status = "cancelled"
      BY <1>2, <1>6, <2>5, <3>1 DEF Progress!Cancel, Progress!Open, Open
    <3>2. CASE h.status = "running" /\ l.status \in {"interrupted", "deadline_exceeded"}
      BY <1>2, <1>6, <2>5, <3>2 DEF Progress!Stop
    <3>3. CASE h.status = "completed" /\ l.status = "interrupted"
      BY <1>2, <1>6, <1>7, <2>5, <3>3 DEF Progress!Retract, Unanswered
    <3> QED BY <1>2, <2>5, <3>1, <3>2, <3>3 DEF Saves, Head
  <2> QED BY <1>2, <2>1, <2>2, <2>3, <2>4, <2>5 DEF Saves
<1> QED BY <1>8 DEF Progress!Next

(* Every step of a caller is a step of a batch, or none. *)
LEMMA NextProgresses == SafeInv /\ StepInv /\ [Next]_vars => [Progress!Next]_progress
<1> SUFFICES ASSUME SafeInv, StepInv, [Next]_vars PROVE [Progress!Next]_progress
  OBVIOUS
<1>0. UNCHANGED <<request, head, answers>> => UNCHANGED progress
  BY DEF progress, HeadStatus, HeadDone
<1>1. ASSUME NEW c \in Callers,
             \/ \E b \in Batches, r \in Requests : Call(c, b, r)
             \/ LockBatch(c) \/ LockResource(c) \/ Busy(c) \/ Unopenable(c) \/ Replay(c) \/ Resume(c)
             \/ Make(c) \/ TornBefore(c) \/ Begin(c) \/ Adopt(c) \/ RunPoint(c) \/ PublishEvidence(c)
             \/ CancelToken(c) \/ Crash(c)
      PROVE  UNCHANGED progress
  BY <1>0, <1>1 DEF Call, LockBatch, LockResource, Busy, Unopenable, Replay, Resume, Make, TornBefore,
     Begin, Adopt, RunPoint, PublishEvidence, CancelToken, Crash, disk
<1>2. ASSUME NEW c \in Callers,
             \/ CancelBefore(c) \/ Start(c) \/ CancelBetween(c) \/ TornBetween(c) \/ Deadline(c)
             \/ Incomplete(c) \/ AlreadyReceipted(c) \/ WriteReceipt(c) \/ Finish(c)
             \/ PointFails(c) \/ PartialFails(c) \/ ReceiptFails(c) \/ HeadFails(c)
      PROVE  UNCHANGED progress
  BY <1>0, <1>2 DEF CancelBefore, Start, CancelBetween, TornBetween, Deadline, Incomplete,
     AlreadyReceipted, WriteReceipt, Finish, PointFails, PartialFails, ReceiptFails, HeadFails,
     HeadError, End, Save, disk
<1>3. ASSUME NEW c \in Callers, Bind(c) PROVE Progress!Next
  <2>1. PICK b \in Batches, r \in Requests : b = job[c] /\ r = wants[c]
    BY <1>3 DEF Bind, SafeInv, TypeInv, CallInv
  <2>2. request[b] = NoRequest
    BY <1>3, <2>1 DEF Bind, SafeInv, WorkInv, WorkOK
  <2>3. Progress!Bind(b, r)
    BY <1>3, <2>1, <2>2 DEF Bind, Save, HeadStatus, HeadDone, Progress!Bind
  <2> QED BY <2>3 DEF Progress!Next
<1>4. ASSUME NEW c \in Callers, Conflict(c) PROVE [Progress!Next]_progress
  <2>1. /\ pc[c] # "idle" /\ Tell(c, "conflict") /\ UNCHANGED <<request, head>>
        /\ request[job[c]] \notin {NoRequest, wants[c]}
    BY <1>4 DEF Conflict, disk
  <2>2. PICK b \in Batches, r \in Requests : b = job[c] /\ r = wants[c]
    BY <2>1 DEF SafeInv, TypeInv, CallInv
  <2>3. Progress!Tell(b, r, "conflict")
    BY <2>1, <2>2 DEF Tell, Progress!Tell, HeadStatus, HeadDone
  <2> QED BY <2>3 DEF Progress!Next
<1>5. ASSUME NEW c \in Callers, NEW s \in {"completed", "cancelled"}, pc[c] # "idle", Tell(c, s),
             request[job[c]] = wants[c], head[job[c]].status = s, UNCHANGED <<request, head>>
      PROVE  [Progress!Next]_progress
  <2>1. PICK b \in Batches, r \in Requests : b = job[c] /\ r = wants[c]
    BY <1>5 DEF SafeInv, TypeInv, CallInv
  <2>2. Progress!Tell(b, r, s)
    BY <1>5, <2>1 DEF Tell, Progress!Tell, HeadStatus, HeadDone
  <2> QED BY <2>2 DEF Progress!Next
<1>6. ASSUME NEW c \in Callers, AlreadyCancelled(c) PROVE [Progress!Next]_progress
  BY <1>5, <1>6 DEF AlreadyCancelled, Bound, disk
<1>7. ASSUME NEW c \in Callers, Raise(c) PROVE [Progress!Next]_progress
  <2>1. request[job[c]] = wants[c] /\ head[job[c]] = local[c] /\ pc[c] # "idle"
    BY <1>7 DEF Raise, SafeInv, WorkInv, WorkOK
  <2>2. CASE answers' = answers
    BY <1>0, <1>7, <2>2 DEF Raise, disk
  <2>3. CASE local[c].status = "cancelled" /\ Tell(c, "cancelled")
    BY <1>5, <1>7, <2>1, <2>3 DEF Raise, disk
  <2> QED BY <1>7, <2>2, <2>3 DEF Raise
<1>8. ASSUME NEW c \in Callers, Verify(c) PROVE [Progress!Next]_progress
  <2>1. request[job[c]] = wants[c] /\ pc[c] # "idle"
    BY <1>8 DEF Verify, SafeInv, WorkInv, WorkOK
  <2>2. CASE answers' = answers
    BY <1>0, <1>8, <2>2 DEF Verify, disk
  <2>3. CASE Verified(job[c]) /\ Tell(c, "completed")
    BY <1>5, <1>8, <2>1, <2>3 DEF Verify, Verified, disk
  <2> QED BY <1>8, <2>2, <2>3 DEF Verify
<1>9. ASSUME NEW c \in Callers, SaveHead(c) PROVE Progress!Next
  BY <1>9, SaveProgresses DEF SaveHead
<1>10. ASSUME NEW c \in Callers, FlushFails(c) PROVE [Progress!Next]_progress
  <2>1. UNCHANGED <<request, answers>>
    BY <1>10 DEF FlushFails, HeadError, End, Save
  <2>2. CASE head' = head
    BY <1>0, <2>1, <2>2
  <2>3. CASE pc[c] = "saving" /\ head' = [head EXCEPT ![job[c]] = local[c]]
    BY <2>1, <2>3, SaveProgresses
  <2> QED BY <1>10, <2>2, <2>3 DEF FlushFails
<1>11. ASSUME NEW b \in Batches, CancelCreate(b) \/ CancelWrite(b) PROVE UNCHANGED progress
  BY <1>0, <1>11 DEF CancelCreate, CancelWrite, disk
<1>12. CASE UNCHANGED vars
  BY <1>0, <1>12 DEF vars, disk
<1> QED
  BY <1>1, <1>2, <1>3, <1>4, <1>6, <1>7, <1>8, <1>9, <1>10, <1>11, <1>12 DEF Next, Work, Fail

(* run_circuit_batch, _run_locked and every error handler amount to one     *)
(* batch: bound once, advanced point by point, and final when it was told.  *)
THEOREM ProgressImplemented == Spec => ImplementsProgress
<1>1. Init => SafeInv /\ StepInv /\ Progress!Init
  BY InitSafeInv DEF Init, StepInv, StepOK, Progress!Init, HeadStatus, HeadDone, Absent
<1>2. (SafeInv /\ StepInv) /\ [Next]_vars => (SafeInv /\ StepInv)'
  BY NextSafeInv, NextStepInv
<1>3. SafeInv /\ StepInv /\ [Next]_vars => [Progress!Next]_<<request, HeadStatus, HeadDone, answers>>
  BY NextProgresses DEF progress
<1> QED BY <1>1, <1>2, <1>3, PTL DEF Spec, ImplementsProgress, Progress!Spec

-----------------------------------------------------------------------------
(* The execution of a point. *)

(* A step of a point belongs to a call that has that point to execute. *)
PlaceInv ==
    \A c \in Callers :
        step[c] # "none" => pc[c] \in {"points", "modelled"} /\ local[c].completed < Points

ExecutionTypes == TypeInv /\ ExecutionTypeOK /\ PlaceInv

(* What a step of caller c leaves alone: the other callers. *)
FlightFrame(c) ==
    \A d \in Callers \ {c} :
        step'[d] = step[d] /\ known'[d] = known[d] /\ draft'[d] = draft[d] /\ seen'[d] = seen[d]

(* The steps of the batch outside its points neither make evidence nor     *)
(* touch the other callers.                                                *)
Quiet(c) == CallerFrame(c) /\ UNCHANGED <<model, evidence>>

(* Every step of the batch outside a point is a quiet step of CircuitBatch. *)
LEMMA BatchStepQuiet ==
    ASSUME TypeOK, NEW c \in Callers, BatchStep(c)
    PROVE  Work(c) /\ Quiet(c)
<1> USE DEF Quiet, CallerFrame, TypeOK, disk, locks, caller
<1>1. CASE LockBatch(c) \/ LockResource(c) \/ Busy(c) \/ Conflict(c) \/ Unopenable(c)
  BY <1>1 DEF Work, LockBatch, LockResource, Busy, Conflict, Unopenable, Leave, Goto
<1>2. CASE Replay(c) \/ AlreadyCancelled(c) \/ Resume(c) \/ Make(c) \/ Bind(c)
  BY <1>2 DEF Work, Replay, AlreadyCancelled, Resume, Make, Bind, Leave, Save, Goto
<1>3. CASE CancelBefore(c) \/ TornBefore(c) \/ Start(c) \/ Begin(c)
  BY <1>3 DEF Work, CancelBefore, TornBefore, Start, Begin, Leave, End, Save, Goto
<1>4. CASE CancelBetween(c) \/ TornBetween(c) \/ Deadline(c) \/ Incomplete(c)
  BY <1>4 DEF Work, CancelBetween, TornBetween, Deadline, Incomplete, End, Save, Goto
<1>5. CASE AlreadyReceipted(c) \/ WriteReceipt(c) \/ Finish(c)
  BY <1>5 DEF Work, AlreadyReceipted, WriteReceipt, Finish, End, Save, Goto
<1>6. CASE SaveHead(c) \/ Raise(c) \/ Verify(c)
  BY <1>6 DEF Work, SaveHead, Raise, Verify, Leave, Goto
<1> QED BY <1>1, <1>2, <1>3, <1>4, <1>5, <1>6 DEF BatchStep

(* A failure makes no evidence, and is one of CircuitBatch. *)
LEMMA FailStepQuiet ==
    ASSUME TypeOK, NEW c \in Callers, FailStep(c)
    PROVE  Fail(c) /\ Quiet(c)
<1> USE DEF Quiet, CallerFrame, TypeOK, disk, locks, caller
<1>1. CASE PointFails(c) \/ PartialFails(c) \/ ReceiptFails(c)
  BY <1>1 DEF Fail, PointFails, PartialFails, ReceiptFails, End, Save, Goto
<1>2. CASE HeadFails(c) \/ FlushFails(c)
  BY <1>2 DEF Fail, HeadFails, FlushFails, HeadError, Leave, End, Save, Goto
<1>3. CASE Crash(c)
  BY <1>3 DEF Fail, Crash, Leave
<1> QED BY <1>1, <1>2, <1>3 DEF FailStep, Fail

-----------------------------------------------------------------------------
(* What is known of the point at hand: it is not made with what is not     *)
(* there, and more is known at some of its steps.                          *)
Base(c) ==
    /\ \A kind \in Kinds, part \in Parts : draft[c][kind] <= authority[kind][part]
    /\ draft[c].recorded <= Approved("model")

FlightOK(c) ==
    /\ Base(c)
    /\ seen[c] # {} => Verifying(c)
    /\ step[c] \in {"published", "reopen", "reopened", "verified"} =>
          Modelled(c) /\ draft[c] = artifact[job[c]][Point(c)]
    /\ step[c] = "reopened" =>
          /\ seen[c] \subseteq held[job[c]][Point(c)]
          /\ known[c] = draft[c].model => "model" \in held[job[c]][Point(c)]
    /\ step[c] = "verified" =>
          /\ held[job[c]][Point(c)] = Kinds
          /\ draft[c].worker = draft[c].model /\ draft[c].recorded = draft[c].model

(* What is known of a point on the disk. *)
PointOK(b, p) ==
    /\ \A kind \in Kinds, part \in Parts : artifact[b][p][kind] <= authority[kind][part]
    /\ artifact[b][p].recorded <= Approved("model")
    /\ \A kind \in Kinds \ held[b][p] : p \in model[b] =>
          \E part \in Parts : artifact[b][p][kind] < authority[kind][part]
    /\ p \in model[b] /\ "model" \in held[b][p] => artifact[b][p].recorded <= artifact[b][p].model
    /\ p \in evidence[b] =>
          /\ p \in model[b] /\ held[b][p] = Kinds
          /\ artifact[b][p].worker = artifact[b][p].model
          /\ artifact[b][p].recorded = artifact[b][p].model

FlightInv == \A c \in Callers : FlightOK(c)
PointInv == \A b \in Batches, p \in 1..Points : PointOK(b, p)

ExecutionInv == ExecutionTypes /\ FlightInv /\ PointInv

(* Authorities go forward, and what was published is not made again. *)
Forward ==
    /\ \A kind \in Kinds, part \in Parts : authority[kind][part] <= authority'[kind][part]
    /\ \A b \in Batches, p \in 1..Points :
          p \in model[b] =>
              /\ p \in model'[b]
              /\ artifact'[b][p] = artifact[b][p] /\ held'[b][p] = held[b][p]

(* Versions are numbers. *)
LEMMA Numbers ==
    ASSUME ExecutionTypeOK
    PROVE  /\ \A kind \in Kinds, part \in Parts : authority[kind][part] \in Nat
           /\ \A c \in Callers : /\ \A kind \in Kinds : draft[c][kind] \in Nat
                                 /\ draft[c].recorded \in Nat
           /\ \A b \in Batches, p \in 1..Points :
                  /\ \A kind \in Kinds : artifact[b][p][kind] \in Nat
                  /\ artifact[b][p].recorded \in Nat
<1>1. DOMAIN Blank = Kinds \cup {"worker", "recorded"} /\ 0..Versions \subseteq Nat /\ 1..Versions \subseteq Nat
  BY VersionAssumption DEF Blank
<1>2. \A kind \in Kinds, part \in Parts : authority[kind][part] \in Nat
  BY <1>1 DEF ExecutionTypeOK
<1>3. ASSUME NEW c \in Callers, NEW part \in Kinds \cup {"worker", "recorded"}
      PROVE  draft[c][part] \in Nat
  BY <1>1 DEF ExecutionTypeOK
<1>4. ASSUME NEW b \in Batches, NEW p \in 1..Points, NEW part \in Kinds \cup {"worker", "recorded"}
      PROVE  artifact[b][p][part] \in Nat
  <2>1. artifact[b] \in [1..Points -> [DOMAIN Blank -> 0..Versions]]
    BY DEF ExecutionTypeOK
  <2>2. artifact[b][p] \in [DOMAIN Blank -> 0..Versions]
    BY <2>1
  <2> QED BY <1>1, <2>2
<1> QED BY <1>2, <1>3, <1>4

LEMMA NumbersNext ==
    ASSUME ExecutionTypeOK'
    PROVE  \A kind \in Kinds, part \in Parts : authority'[kind][part] \in Nat
  BY VersionAssumption DEF ExecutionTypeOK

(* A caller that does nothing keeps what it has established. *)
LEMMA OtherFlight ==
    ASSUME ExecutionInv, ExecutionTypeOK', Forward, NEW d \in Callers,
           step[d] = "none" \/ (job'[d] = job[d] /\ local'[d] = local[d]),
           step'[d] = step[d], known'[d] = known[d], draft'[d] = draft[d], seen'[d] = seen[d]
    PROVE  FlightOK(d)'
<1>1. step[d] # "none" => job[d] \in Batches /\ Point(d) \in 1..Points
  BY BoundAssumption, SMTT(20) DEF ExecutionInv, ExecutionTypes, PlaceInv, TypeInv, TypeOK, CallInv, Head, Point
<1>2. FlightOK(d) /\ (step[d] # "none" => job'[d] = job[d] /\ Point(d)' = Point(d))
  BY DEF ExecutionInv, FlightInv, Point
<1>3. /\ \A kind \in Kinds, part \in Parts : draft'[d][kind] <= authority'[kind][part]
      /\ draft'[d].recorded <= Approved("model")'
  BY <1>2, Numbers, NumbersNext DEF FlightOK, Base, Forward, ExecutionInv, ExecutionTypes, Kinds, Parts, Approved
<1>4. CASE step[d] \in {"published", "reopen", "reopened", "verified"}
  BY <1>1, <1>2, <1>3, <1>4 DEF FlightOK, Base, Forward, Modelled, Verifying
<1>5. CASE step[d] \notin {"published", "reopen", "reopened", "verified"}
  BY <1>2, <1>3, <1>5 DEF FlightOK, Base, Verifying
<1> QED BY <1>4, <1>5

(* A point that is there stays as it is known to be. *)
LEMMA PointKept ==
    ASSUME ExecutionInv, ExecutionTypeOK', Forward, NEW b \in Batches, NEW p \in 1..Points,
           artifact'[b][p] = artifact[b][p], held'[b][p] = held[b][p],
           p \in model'[b] => p \in model[b], p \in evidence'[b] => p \in evidence[b]
    PROVE  PointOK(b, p)'
<1>1. PointOK(b, p)
  BY DEF ExecutionInv, PointInv
<1>2. /\ \A kind \in Kinds, part \in Parts : artifact'[b][p][kind] <= authority'[kind][part]
      /\ artifact'[b][p].recorded <= Approved("model")'
  BY <1>1, Numbers, NumbersNext DEF PointOK, Forward, ExecutionInv, ExecutionTypes, Kinds, Parts, Approved
<1>3. ASSUME NEW kind \in Kinds \ held[b][p], p \in model[b]
      PROVE  \E part \in Parts : artifact'[b][p][kind] < authority'[kind][part]
  BY <1>1, <1>3, Numbers, NumbersNext DEF PointOK, Forward, ExecutionInv, ExecutionTypes
<1> QED BY <1>1, <1>2, <1>3 DEF PointOK, Forward

-----------------------------------------------------------------------------
(* The steps that begin, go on with or verify a point without touching the  *)
(* batch.                                                                   *)
Apart(c) ==
    \/ BeginPoint(c) \/ BeginReopen(c) \/ Admit(c) \/ Resolve(c)
    \/ PublishControl(c) \/ PublishCoefficients(c) \/ AskWorker(c) \/ RunWorker(c) \/ ReadResult(c)
    \/ WriteResult(c) \/ VerifyControl(c) \/ VerifyCoefficients(c) \/ VerifyResult(c)

(* The steps of other actors, and of calls that are not at a point. *)
Aside ==
    \/ \E c \in Callers :
          \/ \E b \in Batches, r \in Requests : CallOf(c, b, r)
          \/ BatchStep(c) \/ (CancelToken(c) /\ UNCHANGED execution)
    \/ \E b \in Batches : CancelWriteOf(b) \/ (CancelCreate(b) /\ UNCHANGED execution)

Editing == \E kind \in Kinds : BeginEdit(kind) \/ FinishEdit(kind)

LEMMA NextParts ==
    ASSUME ExecutionNext
    PROVE  \/ Aside \/ Editing
           \/ \E c \in Callers : \/ Apart(c) \/ FailStep(c) \/ PublishModel(c)
                                 \/ RecordEvidence(c) \/ AdoptVerified(c) \/ Refuse(c)
  BY DEF ExecutionNext, PointStep, Aside, Editing, Apart

(* They are steps of CircuitBatch that leave the point of every caller alone. *)
LEMMA AsideQuiet ==
    ASSUME ExecutionTypes, Aside
    PROVE  /\ [Next]_vars /\ UNCHANGED execution /\ UNCHANGED <<model, evidence>>
           /\ \A d \in Callers :
                  step[d] = "none" \/ (pc'[d] = pc[d] /\ job'[d] = job[d] /\ local'[d] = local[d])
<1> USE DEF disk, locks, caller
<1>1. ASSUME NEW c \in Callers, BatchStep(c)
      PROVE  [Next]_vars /\ Quiet(c) /\ UNCHANGED execution /\ step[c] = "none"
  BY <1>1, BatchStepQuiet DEF Next, BatchStep, ExecutionTypes, TypeInv
<1>2. ASSUME NEW c \in Callers, NEW b \in Batches, NEW r \in Requests, CallOf(c, b, r)
      PROVE  [Next]_vars /\ Quiet(c) /\ UNCHANGED execution /\ step[c] = "none"
  BY <1>2 DEF Next, CallOf, Call, Goto, Quiet, CallerFrame, ExecutionTypes, TypeInv, TypeOK, PlaceInv
<1>3. ASSUME NEW c \in Callers, CancelToken(c), UNCHANGED execution
      PROVE  [Next]_vars /\ UNCHANGED execution /\ UNCHANGED <<pc, job, local, model, evidence>>
  BY <1>3 DEF Next, CancelToken
<1>4. ASSUME NEW b \in Batches, CancelWriteOf(b) \/ (CancelCreate(b) /\ UNCHANGED execution)
      PROVE  [Next]_vars /\ UNCHANGED execution /\ UNCHANGED <<pc, job, local, model, evidence>>
  BY <1>4 DEF Next, CancelWriteOf, CancelWrite, CancelCreate
<1> QED BY <1>1, <1>2, <1>3, <1>4 DEF Aside, Quiet, CallerFrame

(* The other steps leave the batch, or the points, alone. *)
LEMMA ApartSame == ASSUME NEW c \in Callers, Apart(c) PROVE UNCHANGED <<vars, authority, files>>
  BY DEF Apart, BeginPoint, BeginReopen, Admit, Resolve, PublishControl, PublishCoefficients, AskWorker,
     RunWorker, ReadResult, WriteResult, VerifyControl, VerifyCoefficients, VerifyResult

LEMMA EditSame == ASSUME Editing PROVE UNCHANGED <<vars, files, inFlight>>
  BY DEF Editing, BeginEdit, FinishEdit, Edit

(* Every step keeps the types of the batch, and its locks. *)
LEMMA NextBatchTypes == ASSUME ExecutionTypes, [ExecutionNext]_everything PROVE TypeInv'
<1> USE BoundAssumption DEF ExecutionTypes, disk, locks, caller
<1>1. CASE UNCHANGED vars
  BY <1>1, NextTypeInv
<1>2. CASE Aside
  BY <1>2, AsideQuiet, NextTypeInv
<1>3. ASSUME NEW c \in Callers, FailStep(c) PROVE TypeInv'
  BY <1>3, FailStepQuiet, NextTypeInv DEF TypeInv, Next
<1>4. ASSUME NEW c \in Callers, RecordEvidence(c) PROVE TypeInv'
  BY <1>4, NextTypeInv DEF RecordEvidence, Work, Next
<1>5. ASSUME NEW c \in Callers, PublishModel(c) PROVE TypeInv'
  <2>1. local[c].completed < Points /\ job[c] \in Batches /\ Point(c) \in 1..Points /\ Inside(c)
    BY <1>5 DEF PublishModel, At, PlaceInv, TypeInv, TypeOK, CallInv, Head, Point, Inside
  <2>2. TypeOK'
    BY <1>5, <2>1 DEF PublishModel, Goto, TypeInv, TypeOK, Phases
  <2>3. CallInv'
    BY <1>5, <2>1 DEF PublishModel, Goto, TypeInv, TypeOK, CallInv, Inside
  <2> QED BY <2>2, <2>3 DEF TypeInv
<1>6. ASSUME NEW c \in Callers, AdoptVerified(c) PROVE TypeInv'
  <2>1. local[c].completed < Points /\ Inside(c)
    BY <1>6 DEF AdoptVerified, At, PlaceInv, TypeInv, TypeOK, Inside
  <2>2. TypeOK'
    BY <1>6 DEF AdoptVerified, Goto, TypeInv, TypeOK, Phases
  <2>3. CallInv'
    BY <1>6, <2>1 DEF AdoptVerified, Goto, TypeInv, TypeOK, CallInv, Inside
  <2> QED BY <2>2, <2>3 DEF TypeInv
<1>7. ASSUME NEW c \in Callers, Refuse(c) PROVE TypeInv'
  <2>1. Inside(c) /\ [local[c] EXCEPT !.status = "interrupted"] \in Head
    BY <1>7, SMTT(20) DEF Refuse, PlaceInv, TypeInv, TypeOK, Inside, Head, Statuses, Open
  <2>2. TypeOK'
    BY <1>7, <2>1 DEF Refuse, End, Save, Goto, TypeInv, TypeOK, Phases, Nexts
  <2>3. CallInv'
    BY <1>7, <2>1 DEF Refuse, End, Save, Goto, TypeInv, TypeOK, CallInv, Inside
  <2> QED BY <2>2, <2>3 DEF TypeInv
<1>8. CASE Editing \/ \E c \in Callers : Apart(c)
  BY <1>1, <1>8, ApartSame, EditSame
<1> QED BY <1>1, <1>2, <1>3, <1>4, <1>5, <1>6, <1>7, <1>8, NextParts DEF everything

(* What a step of a point changes of its own: versions that are versions.  *)
LEMMA NextTypes == ASSUME ExecutionTypes, [ExecutionNext]_everything PROVE ExecutionTypes'
<1> USE VersionAssumption DEF execution, files, inFlight
<1>0. TypeInv' /\ TypeOK'
  BY NextBatchTypes DEF TypeInv
<1>a. /\ DOMAIN Blank = Kinds \cup {"worker", "recorded"}
      /\ Blank \in [DOMAIN Blank -> 0..Versions]
      /\ \A kind \in Kinds : Approved(kind) \in 0..Versions
  BY DEF Blank, Approved, ExecutionTypes, ExecutionTypeOK, Kinds, Parts
<1>b. \A c \in Callers : step[c] # "none" => job[c] \in Batches /\ Point(c) \in 1..Points
  BY BoundAssumption, SMTT(20) DEF ExecutionTypes, PlaceInv, TypeInv, TypeOK, CallInv, Head, Point
<1>1. CASE UNCHANGED everything
  BY <1>0, <1>1 DEF everything, vars, caller, ExecutionTypes, ExecutionTypeOK, PlaceInv
<1>2. CASE Aside
  BY <1>0, <1>2, AsideQuiet DEF ExecutionTypes, ExecutionTypeOK, PlaceInv
<1>3. CASE Editing
  <2>1. PICK kind \in Kinds, part \in Parts : Edit(kind, part)
    BY <1>3 DEF Editing, BeginEdit, FinishEdit
  <2>2. authority[kind] \in [Parts -> 1..Versions] /\ authority[kind][part] + 1 \in 1..Versions
    BY <2>1 DEF Edit, ExecutionTypes, ExecutionTypeOK
  <2>3. authority' \in [Kinds -> [Parts -> 1..Versions]]
    BY <2>1, <2>2 DEF Edit, ExecutionTypes, ExecutionTypeOK
  <2>4. ExecutionTypeOK'
    BY <1>0, <1>3, <2>3, EditSame DEF ExecutionTypes, ExecutionTypeOK
  <2>5. PlaceInv'
    BY <1>3, EditSame DEF vars, caller, ExecutionTypes, PlaceInv
  <2> QED BY <1>0, <2>4, <2>5 DEF ExecutionTypes
<1>4. ASSUME NEW c \in Callers, Apart(c) PROVE ExecutionTypes'
  <2>1. UNCHANGED <<vars, authority, files>>
    BY <1>4, ApartSame
  <2>2. step' \in [Callers -> Steps]
    BY <1>4 DEF Apart, BeginPoint, BeginReopen, Admit, Resolve, PublishControl, PublishCoefficients,
       AskWorker, RunWorker, ReadResult, WriteResult, VerifyControl, VerifyCoefficients, VerifyResult,
       To, Steps, ExecutionTypes, ExecutionTypeOK
  <2>3. draft' \in [Callers -> [DOMAIN Blank -> 0..Versions]]
    <3>1. draft \in [Callers -> [DOMAIN Blank -> 0..Versions]]
      BY DEF ExecutionTypes, ExecutionTypeOK
    <3>2. ASSUME NEW part \in DOMAIN Blank, Made(c, part, Approved("model")) \/ Made(c, part, Approved("control"))
                      \/ Made(c, part, Approved("physics"))
          PROVE  draft' \in [Callers -> [DOMAIN Blank -> 0..Versions]]
      BY <3>1, <3>2, <1>a DEF Made, Kinds
    <3>3. CASE BeginReopen(c)
      <4>1. job[c] \in Batches /\ Point(c) \in 1..Points
        BY <3>3, BoundAssumption DEF BeginReopen, Left, ExecutionTypes, TypeInv, TypeOK, CallInv, Head, Point
      <4>2. artifact[job[c]] \in [1..Points -> [DOMAIN Blank -> 0..Versions]]
        BY <4>1 DEF ExecutionTypes, ExecutionTypeOK
      <4>3. artifact[job[c]][Point(c)] \in [DOMAIN Blank -> 0..Versions]
        BY <4>1, <4>2
      <4> QED BY <3>1, <3>3, <4>3 DEF BeginReopen
    <3> QED BY <1>4, <1>a, <3>1, <3>2, <3>3
            DEF Apart, BeginPoint, Admit, Resolve, PublishControl, PublishCoefficients,
            AskWorker, RunWorker, ReadResult, WriteResult, VerifyControl, VerifyCoefficients, VerifyResult, Kinds
  <2>4. known' \in [Callers -> 0..Versions]
    BY <1>4, <1>a DEF Apart, BeginPoint, BeginReopen, Admit, Resolve, PublishControl, PublishCoefficients,
       AskWorker, RunWorker, ReadResult, WriteResult, VerifyControl, VerifyCoefficients, VerifyResult,
       Kinds, ExecutionTypes, ExecutionTypeOK
  <2>6. asked' \in [Callers -> 0..Versions]
    BY <1>4, <1>a DEF Apart, BeginPoint, BeginReopen, Admit, Resolve, PublishControl, PublishCoefficients,
       AskWorker, RunWorker, ReadResult, WriteResult, VerifyControl, VerifyCoefficients, VerifyResult,
       Kinds, ExecutionTypes, ExecutionTypeOK
  <2>7. seen' \in [Callers -> SUBSET Kinds]
    <3>1. {} \in SUBSET Kinds /\ {"control"} \in SUBSET Kinds /\ {"control", "physics"} \in SUBSET Kinds
      BY DEF Kinds
    <3> QED BY <1>4, <3>1 DEF Apart, BeginPoint, BeginReopen, Admit, Resolve, PublishControl, PublishCoefficients,
       AskWorker, RunWorker, ReadResult, WriteResult, VerifyControl, VerifyCoefficients, VerifyResult,
       ExecutionTypes, ExecutionTypeOK
  <2>5. PlaceInv'
    <3>1. pc[c] \in {"points", "modelled"} /\ local[c].completed < Points
      <4>1. CASE BeginPoint(c) \/ BeginReopen(c)
        BY <4>1 DEF BeginPoint, BeginReopen, Left
      <4>2. CASE ~(BeginPoint(c) \/ BeginReopen(c))
        <5>1. step[c] # "none"
          BY <1>4, <4>2 DEF Apart, Admit, Resolve, PublishControl, PublishCoefficients, AskWorker,
             RunWorker, ReadResult, WriteResult, VerifyControl, VerifyCoefficients, VerifyResult,
             At, Verifying
        <5> QED BY <5>1 DEF ExecutionTypes, PlaceInv
      <4> QED BY <4>1, <4>2
    <3>2. \A d \in Callers \ {c} : step'[d] = step[d]
      BY <1>4 DEF Apart, BeginPoint, BeginReopen, Admit, Resolve, PublishControl, PublishCoefficients,
         AskWorker, RunWorker, ReadResult, WriteResult, VerifyControl, VerifyCoefficients, VerifyResult,
         To, ExecutionTypes, ExecutionTypeOK
    <3> QED BY <2>1, <3>1, <3>2 DEF vars, caller, ExecutionTypes, PlaceInv
  <2> QED BY <1>0, <2>1, <2>2, <2>3, <2>4, <2>5, <2>6, <2>7 DEF ExecutionTypes, ExecutionTypeOK
<1>5. ASSUME NEW c \in Callers, Rest(c), CallerFrame(c), UNCHANGED <<authority, files>> PROVE ExecutionTypes'
  <2>1. step' \in [Callers -> Steps] /\ seen' \in [Callers -> SUBSET Kinds]
    BY <1>5 DEF Rest, Steps, ExecutionTypes, ExecutionTypeOK
  <2>3. known' \in [Callers -> 0..Versions] /\ asked' \in [Callers -> 0..Versions]
    BY <1>5 DEF Rest, ExecutionTypes, ExecutionTypeOK
  <2>4. draft' \in [Callers -> [DOMAIN Blank -> 0..Versions]]
    BY <1>5, <1>a DEF Rest, ExecutionTypes, ExecutionTypeOK
  <2>5. ExecutionTypeOK'
    BY <1>0, <1>5, <2>1, <2>3, <2>4 DEF ExecutionTypes, ExecutionTypeOK
  <2>2. PlaceInv'
    BY <1>5 DEF Rest, CallerFrame, ExecutionTypes, ExecutionTypeOK, PlaceInv
  <2> QED BY <1>0, <2>2, <2>5 DEF ExecutionTypes
<1>6. ASSUME NEW c \in Callers, FailStep(c) \/ RecordEvidence(c) \/ AdoptVerified(c) \/ Refuse(c)
      PROVE  ExecutionTypes'
  BY <1>5, <1>6, FailStepQuiet
  DEF FailStep, RecordEvidence, AdoptVerified, Refuse, PublishEvidence, End, Save, Goto, Quiet, CallerFrame,
      ExecutionTypes, TypeInv, TypeOK
<1>7. ASSUME NEW c \in Callers, PublishModel(c) PROVE ExecutionTypes'
  <2>1. ExecutionTypeOK'
    BY <1>0, <1>7, <1>b DEF PublishModel, At, To, Steps, Holds, ExecutionTypes, ExecutionTypeOK
  <2>2. PlaceInv'
    BY <1>7 DEF PublishModel, At, To, Goto, ExecutionTypes, ExecutionTypeOK, TypeInv, TypeOK, PlaceInv
  <2> QED BY <1>0, <2>1, <2>2 DEF ExecutionTypes
<1> QED BY <1>1, <1>2, <1>3, <1>4, <1>6, <1>7, NextParts
-----------------------------------------------------------------------------
LEMMA InitExecutionInv == ExecutionInit => ExecutionInv
<1> SUFFICES ASSUME ExecutionInit PROVE ExecutionInv
  OBVIOUS
<1> USE DEF ExecutionInit
<1>1. TypeInv /\ TypeOK
  BY InitTypeInv DEF TypeInv
<1>2. Blank \in [DOMAIN Blank -> 0..Versions] /\ Fresh \in [Kinds -> [Parts -> 1..Versions]]
  BY VersionAssumption DEF Blank, Fresh
<1>3. ExecutionTypeOK
  BY <1>1, <1>2, VersionAssumption DEF ExecutionTypeOK, Steps
<1>4. PlaceInv
  BY DEF PlaceInv
<1>5. FlightInv
  BY DEF FlightInv, FlightOK, Base, Blank, Fresh, Approved, Kinds, Parts
<1>6. PointInv
  BY DEF PointInv, PointOK, Blank, Fresh, Approved, Kinds, Parts, Init
<1> QED BY <1>1, <1>3, <1>4, <1>5, <1>6 DEF ExecutionInv, ExecutionTypes

(* A step that makes no evidence keeps every point, and one of caller c     *)
(* alone keeps what the other callers have established.                     *)
LEMMA PointsKept ==
    ASSUME ExecutionInv, ExecutionTypeOK', Forward, UNCHANGED <<files, model, evidence>>
    PROVE  PointInv'
  BY PointKept DEF files, PointInv

LEMMA FlightKept ==
    ASSUME ExecutionInv, ExecutionTypeOK', Forward, NEW c \in Callers, CallerFrame(c), FlightFrame(c),
           FlightOK(c)'
    PROVE  FlightInv'
  BY OtherFlight DEF CallerFrame, FlightFrame, FlightInv

(* A step that moves no caller keeps what all of them have established. *)
LEMMA FlightStays ==
    ASSUME ExecutionInv, ExecutionTypeOK', Forward, UNCHANGED inFlight,
           \A d \in Callers : step[d] = "none" \/ (job'[d] = job[d] /\ local'[d] = local[d])
    PROVE  FlightInv'
  BY OtherFlight DEF inFlight, FlightInv

(* A call that is at no point has nothing to establish. *)
LEMMA AtRest ==
    ASSUME ExecutionTypeOK', NEW c \in Callers, step'[c] = "none", draft'[c] = Blank, seen'[c] = {}
    PROVE  FlightOK(c)'
<1>1. \A kind \in Kinds, part \in Parts : draft'[c][kind] <= authority'[kind][part]
  BY NumbersNext DEF Blank
<1>2. draft'[c].recorded <= Approved("model")'
  BY NumbersNext DEF Blank, Approved, Kinds, Parts
<1> QED BY <1>1, <1>2 DEF FlightOK, Base

LEMMA SameForward ==
    ASSUME ExecutionTypeOK, UNCHANGED <<authority, files, model>>
    PROVE  Forward
  BY Numbers DEF Forward, files
(* What a step that passes has read. *)
LEMMA Passing ==
    ASSUME NEW c \in Callers, Passes(c)
    PROVE  /\ step[c] \in {"begin", "published", "reopen"} => Loads("model")
           /\ step[c] = "control" => Loads("control")
           /\ step[c] = "coefficients" => Loads("physics")
           /\ step[c] = "checked" => ~Modelled(c)
<1>1. step[c] = "begin" => Loads("model")
  BY DEF Passes, Verifying
<1>2. step[c] = "published" => Loads("model")
  BY DEF Passes, Verifying
<1>3. step[c] = "reopen" => Loads("model")
  BY DEF Passes, Verifying
<1>4. step[c] = "control" => Loads("control")
  BY DEF Passes, Verifying
<1>5. step[c] = "coefficients" => Loads("physics")
  BY DEF Passes, Verifying
<1>6. step[c] = "checked" => ~Modelled(c)
  BY DEF Passes, Verifying
<1> QED BY <1>1, <1>2, <1>3, <1>4, <1>5, <1>6

(* The steps of a point that leave the batch alone. *)
LEMMA ApartFlight ==
    ASSUME ExecutionInv, ExecutionTypeOK', NEW c \in Callers, Apart(c)
    PROVE  FlightOK(c)' /\ FlightFrame(c)
<1> DEFINE b == job[c]
           p == Point(c)
<1>1. UNCHANGED <<vars, authority, files>> /\ FlightOK(c)
  BY ApartSame DEF ExecutionInv, FlightInv
<1>2. /\ job'[c] = b /\ Point(c)' = p /\ Modelled(c)' = Modelled(c)
      /\ artifact'[b][p] = artifact[b][p] /\ held'[b][p] = held[b][p]
      /\ \A kind \in Kinds : Loads(kind)' = Loads(kind) /\ Approved(kind)' = Approved(kind)
  BY <1>1 DEF vars, disk, caller, files, Point, Modelled, Loads, Approved
<1>3. Modelled(c) /\ (step[c] # "none" \/ Left(c)) => b \in Batches /\ p \in 1..Points /\ PointOK(b, p)
  <2>1. SUFFICES ASSUME step[c] # "none" \/ Left(c) PROVE b \in Batches /\ p \in 1..Points
    BY DEF ExecutionInv, PointInv
  <2> QED BY <2>1, BoundAssumption
          DEF Left, ExecutionInv, ExecutionTypes, PlaceInv, TypeInv, TypeOK, CallInv, Head, Point
<1>4. FlightFrame(c)
  BY <1>1 DEF Apart, BeginPoint, BeginReopen, Admit, Resolve, PublishControl, PublishCoefficients, AskWorker,
     RunWorker, ReadResult, WriteResult, VerifyControl, VerifyCoefficients, VerifyResult, To, Made,
     FlightFrame, ExecutionInv, ExecutionTypes, ExecutionTypeOK
<1>5. ASSUME NEW kind \in Kinds, Loads(kind)
      PROVE  \A part \in Parts : authority[kind][part] = Approved(kind)
  BY <1>5 DEF Loads, Approved, Parts
<1>6. ASSUME NEW kind \in Kinds, Loads(kind), p \in model[b], PointOK(b, p), artifact[b][p][kind] = Approved(kind),
             b \in Batches, p \in 1..Points
      PROVE  kind \in held[b][p]
  <2> SUFFICES ASSUME kind \notin held[b][p] PROVE FALSE
    OBVIOUS
  <2>1. PICK part \in Parts : artifact[b][p][kind] < authority[kind][part]
    BY <1>6 DEF PointOK
  <2> QED BY <1>5, <1>6, <2>1, Numbers DEF ExecutionInv, ExecutionTypes
<1>7. Base(c)' <=> /\ \A kind \in Kinds, part \in Parts : draft'[c][kind] <= authority[kind][part]
                   /\ draft'[c].recorded <= Approved("model")
  BY <1>1, <1>2 DEF Base, Kinds
<1>8. Base(c) /\ draft \in [Callers -> [DOMAIN Blank -> 0..Versions]] /\ step \in [Callers -> Steps]
      /\ seen \in [Callers -> SUBSET Kinds]
  BY <1>1 DEF FlightOK, ExecutionInv, ExecutionTypes, ExecutionTypeOK
<1>9. draft'[c] = draft[c] => Base(c)'
  BY <1>7, <1>8 DEF Base
<1>10. ASSUME NEW kind \in Kinds, Loads(kind), Made(c, kind, Approved(kind)) PROVE Base(c)'
  <2>1. draft'[c].recorded = draft[c].recorded
        /\ \A other \in Kinds : draft'[c][other] = IF other = kind THEN Approved(kind) ELSE draft[c][other]
    BY <1>8, <1>10 DEF Made, Blank, Kinds
  <2> QED BY <1>5, <1>7, <1>8, <1>10, <2>1, Numbers DEF Base, ExecutionInv, ExecutionTypes
<1>11. ASSUME NEW part \in {"worker", "recorded"}, Made(c, part, Approved("model")) PROVE Base(c)'
  <2>1. (\A kind \in Kinds : draft'[c][kind] = draft[c][kind])
        /\ draft'[c].recorded \in {draft[c].recorded, Approved("model")}
    BY <1>8, <1>11 DEF Made, Blank, Kinds
  <2> QED BY <1>7, <1>8, <2>1, Numbers DEF Base, ExecutionInv, ExecutionTypes, Approved, Kinds, Parts
<1> HIDE DEF b, p
<1>12. ASSUME BeginPoint(c) PROVE FlightOK(c)'
  <2>1. step'[c] = "begin" /\ seen'[c] = {}
    BY <1>1, <1>8, <1>12 DEF BeginPoint, To, FlightOK, Verifying
  <2>2. Base(c)'
    BY <1>9, <1>12 DEF BeginPoint
  <2> QED BY <2>1, <2>2 DEF FlightOK, Verifying
<1>13. ASSUME BeginReopen(c) PROVE FlightOK(c)'
  <2>1. p \in model[b] /\ b \in Batches /\ p \in 1..Points /\ PointOK(b, p)
    BY <1>3, <1>13 DEF BeginReopen, Modelled, b, p
  <2>2. draft'[c] = artifact[b][p] /\ step'[c] = "reopen" /\ seen'[c] = {}
    BY <1>1, <1>8, <1>13 DEF BeginReopen, To, FlightOK, Verifying, b, p
  <2>3. Base(c)'
    BY <1>7, <2>1, <2>2 DEF PointOK
  <2> QED BY <1>2, <1>13, <2>1, <2>2, <2>3 DEF FlightOK, BeginReopen, b, p
<1>14. ASSUME Admit(c) PROVE FlightOK(c)'
  <2>1. Base(c)'
    BY <1>10, <1>14, Passing DEF Admit, At, Kinds
  <2> QED BY <1>1, <1>8, <1>14, <2>1 DEF Admit, At, To, FlightOK, Verifying
<1>15. ASSUME PublishControl(c) PROVE FlightOK(c)'
  <2>1. Base(c)'
    BY <1>10, <1>15, Passing DEF PublishControl, At, Kinds
  <2> QED BY <1>1, <1>8, <1>15, <2>1 DEF PublishControl, At, To, FlightOK, Verifying
<1>16. ASSUME PublishCoefficients(c) PROVE FlightOK(c)'
  <2>1. Base(c)'
    BY <1>10, <1>16, Passing DEF PublishCoefficients, At, Kinds
  <2> QED BY <1>1, <1>8, <1>16, <2>1 DEF PublishCoefficients, At, To, FlightOK, Verifying
<1>17. ASSUME AskWorker(c) PROVE FlightOK(c)'
  BY <1>1, <1>8, <1>9, <1>17 DEF AskWorker, At, To, FlightOK, Verifying
<1>18. ASSUME RunWorker(c) PROVE FlightOK(c)'
  <2>1. Base(c)'
    BY <1>11, <1>18 DEF RunWorker
  <2> QED BY <1>1, <1>8, <1>18, <2>1 DEF RunWorker, At, To, FlightOK, Verifying
<1>19. ASSUME ReadResult(c) PROVE FlightOK(c)'
  BY <1>1, <1>8, <1>9, <1>19 DEF ReadResult, At, To, FlightOK, Verifying
<1>20. ASSUME WriteResult(c) PROVE FlightOK(c)'
  <2>1. Base(c)'
    BY <1>11, <1>20 DEF WriteResult
  <2> QED BY <1>1, <1>8, <1>20, <2>1 DEF WriteResult, At, To, FlightOK, Verifying
<1>21. ASSUME Resolve(c) PROVE FlightOK(c)'
  <2>1. /\ p \in model[b] /\ b \in Batches /\ p \in 1..Points /\ PointOK(b, p)
        /\ draft[c] = artifact[b][p] /\ Loads("model")
    BY <1>1, <1>3, <1>21, Passing DEF Resolve, At, FlightOK, Modelled, b, p
  <2>2. /\ step'[c] = "reopened" /\ seen'[c] = {} /\ draft'[c] = draft[c]
        /\ known'[c] = Approved("model")
    BY <1>1, <1>8, <1>21 DEF Resolve, At, To, FlightOK, Verifying, ExecutionInv, ExecutionTypes, ExecutionTypeOK
  <2>3. known'[c] = draft'[c].model => "model" \in held[b][p]
    BY <1>6, <2>1, <2>2 DEF Kinds
  <2>4. Base(c)' /\ Modelled(c)' /\ draft'[c] = artifact'[job'[c]][Point(c)']
    BY <1>2, <1>9, <2>1, <2>2 DEF Modelled, b, p
  <2> QED BY <1>2, <2>2, <2>3, <2>4 DEF FlightOK, Verifying
<1>22. ASSUME VerifyControl(c) PROVE FlightOK(c)'
  <2>1. step'[c] = step[c] /\ seen'[c] = {"control"} /\ draft'[c] = draft[c] /\ known'[c] = known[c]
        /\ Verifying(c) /\ ControlVerifies(c)
    BY <1>8, <1>22 DEF VerifyControl, Passes, Verifying
  <2>2. step[c] = "reopened" => "control" \in held[b][p]
    <3>1. SUFFICES ASSUME step[c] = "reopened" PROVE "control" \in held[b][p]
      OBVIOUS
    <3>2. p \in model[b] /\ b \in Batches /\ p \in 1..Points /\ PointOK(b, p) /\ draft[c] = artifact[b][p]
      BY <1>1, <1>3, <3>1 DEF FlightOK, Modelled, b, p
    <3> QED BY <1>6, <2>1, <3>2 DEF ControlVerifies, Holds, Kinds
  <2>3. CASE step[c] = "staged"
    BY <1>9, <2>1, <2>3 DEF FlightOK, Verifying
  <2>4. CASE step[c] = "reopened"
    <3>1. /\ seen'[c] \subseteq held'[job'[c]][Point(c)']
          /\ known'[c] = draft'[c].model => "model" \in held'[job'[c]][Point(c)']
      BY <1>1, <1>2, <2>1, <2>2, <2>4 DEF FlightOK, b, p
    <3>2. Modelled(c)' /\ draft'[c] = artifact'[job'[c]][Point(c)']
      BY <1>1, <1>2, <2>1, <2>4 DEF FlightOK, b, p
    <3> QED BY <1>9, <2>1, <2>4, <3>1, <3>2 DEF FlightOK, Verifying
  <2> QED BY <2>1, <2>3, <2>4 DEF Verifying
<1>23. ASSUME VerifyCoefficients(c) PROVE FlightOK(c)'
  <2>1. step'[c] = step[c] /\ seen[c] = {"control"} /\ seen'[c] = {"control", "physics"} /\ draft'[c] = draft[c]
        /\ known'[c] = known[c] /\ Verifying(c) /\ CoefficientsVerify(c)
    BY <1>8, <1>23 DEF VerifyCoefficients, Passes, Verifying
  <2>2. step[c] = "reopened" => {"control", "physics"} \subseteq held[b][p]
    <3>1. SUFFICES ASSUME step[c] = "reopened" PROVE {"control", "physics"} \subseteq held[b][p]
      OBVIOUS
    <3>2. p \in model[b] /\ b \in Batches /\ p \in 1..Points /\ PointOK(b, p) /\ draft[c] = artifact[b][p]
          /\ "control" \in held[b][p]
      BY <1>1, <1>3, <2>1, <3>1 DEF FlightOK, Modelled, b, p
    <3> QED BY <1>6, <2>1, <3>2 DEF CoefficientsVerify, Holds, Kinds
  <2>3. CASE step[c] = "staged"
    BY <1>9, <2>1, <2>3 DEF FlightOK, Verifying
  <2>4. CASE step[c] = "reopened"
    <3>1. /\ seen'[c] \subseteq held'[job'[c]][Point(c)']
          /\ known'[c] = draft'[c].model => "model" \in held'[job'[c]][Point(c)']
      BY <1>1, <1>2, <2>1, <2>2, <2>4 DEF FlightOK, b, p
    <3>2. Modelled(c)' /\ draft'[c] = artifact'[job'[c]][Point(c)']
      BY <1>1, <1>2, <2>1, <2>4 DEF FlightOK, b, p
    <3> QED BY <1>9, <2>1, <2>4, <3>1, <3>2 DEF FlightOK, Verifying
  <2> QED BY <2>1, <2>3, <2>4 DEF Verifying
<1>24. ASSUME VerifyResult(c) PROVE FlightOK(c)'
  <2>1. step'[c] = (IF step[c] = "staged" THEN "checked" ELSE "verified") /\ seen'[c] = {}
        /\ seen[c] = {"control", "physics"} /\ draft'[c] = draft[c]
        /\ known'[c] = known[c] /\ Verifying(c) /\ ResultVerifies(c)
    BY <1>8, <1>24 DEF VerifyResult, To, Passes, Verifying
  <2>2. CASE step[c] = "staged"
    BY <1>9, <2>1, <2>2 DEF FlightOK, Verifying
  <2>3. CASE step[c] = "reopened"
    <3>1. p \in model[b] /\ b \in Batches /\ p \in 1..Points /\ PointOK(b, p) /\ draft[c] = artifact[b][p]
          /\ {"control", "physics"} \subseteq held[b][p] /\ "model" \in held[b][p]
      BY <1>1, <1>3, <2>1, <2>3 DEF FlightOK, Modelled, ResultVerifies, b, p
    <3>2. held[b][p] = Kinds
      <4>1. held[b] \in [1..Points -> SUBSET Kinds]
        BY <3>1 DEF ExecutionInv, ExecutionTypes, ExecutionTypeOK
      <4>2. held[b][p] \in SUBSET Kinds
        BY <3>1, <4>1
      <4> QED BY <3>1, <4>2 DEF Kinds
    <3>3. draft[c].recorded <= draft[c].model /\ draft[c].model <= Approved("model")
      BY <1>1, <3>1 DEF PointOK, FlightOK, Approved, Kinds, Parts
    <3>4. draft[c].recorded = draft[c].model
      BY <2>1, <3>1, <3>3, Numbers DEF ResultVerifies, ExecutionInv, ExecutionTypes, Kinds, Approved, Parts
    <3>5. draft'[c] = artifact'[job'[c]][Point(c)'] /\ Modelled(c)' /\ held'[job'[c]][Point(c)'] = Kinds
      BY <1>2, <2>1, <3>1, <3>2 DEF Modelled, b, p
    <3> QED BY <1>9, <2>1, <2>3, <3>4, <3>5 DEF FlightOK, Verifying, ResultVerifies
  <2> QED BY <2>1, <2>2, <2>3 DEF Verifying
<1> QED BY <1>4, <1>12, <1>13, <1>14, <1>15, <1>16, <1>17, <1>18, <1>19, <1>20, <1>21, <1>22, <1>23, <1>24
        DEF Apart
(* A publication: what is ahead of the artifact now was ahead of it then.   *)
LEMMA PublishPoints ==
    ASSUME ExecutionInv, ExecutionTypeOK', NEW c \in Callers, PublishModel(c)
    PROVE  Forward /\ PointInv' /\ FlightOK(c)' /\ FlightFrame(c) /\ CallerFrame(c)
<1>0. PICK b \in Batches, p \in 1..Points : b = job[c] /\ p = Point(c)
  BY BoundAssumption DEF PublishModel, At, ExecutionInv, ExecutionTypes, PlaceInv, TypeInv, TypeOK, CallInv,
     Head, Point
<1>1. b \in Batches /\ p \in 1..Points /\ b = job[c] /\ p = Point(c) /\ FlightOK(c) /\ PointOK(b, p)
  BY <1>0 DEF ExecutionInv, FlightInv, PointInv
<1>2. p \notin model[b] /\ p \notin evidence[b]
  BY <1>1, Passing DEF PublishModel, At, Modelled, PointOK
<1>3. /\ authority' = authority /\ evidence' = evidence /\ draft' = draft /\ seen' = seen /\ known' = known
      /\ job' = job /\ local' = local /\ step' = [step EXCEPT ![c] = "published"]
      /\ pc' = [pc EXCEPT ![c] = "modelled"] /\ wants' = wants
  BY DEF PublishModel, To, Goto
<1>4. /\ p \in model'[b] /\ artifact'[b][p] = draft[c]
      /\ held'[b][p] = {kind \in Kinds : Holds(kind, draft[c])}
  <2>1. artifact[b] \in [1..Points -> [DOMAIN Blank -> 0..Versions]] /\ held[b] \in [1..Points -> SUBSET Kinds]
    BY <1>1 DEF ExecutionInv, ExecutionTypes, ExecutionTypeOK
  <2> QED BY <1>1, <2>1 DEF PublishModel, ExecutionInv, ExecutionTypes, ExecutionTypeOK, TypeOK
<1>5. ASSUME NEW a \in Batches, NEW q \in 1..Points, a # b \/ q # p
      PROVE  /\ artifact'[a][q] = artifact[a][q] /\ held'[a][q] = held[a][q]
             /\ q \in model'[a] <=> q \in model[a]
  <2>1. artifact[b] \in [1..Points -> [DOMAIN Blank -> 0..Versions]] /\ held[b] \in [1..Points -> SUBSET Kinds]
    BY <1>1 DEF ExecutionInv, ExecutionTypes, ExecutionTypeOK
  <2>2. /\ artifact \in [Batches -> [1..Points -> [DOMAIN Blank -> 0..Versions]]]
        /\ held \in [Batches -> [1..Points -> SUBSET Kinds]]
        /\ model \in [Batches -> SUBSET (1..Points)]
    BY DEF ExecutionInv, ExecutionTypes, ExecutionTypeOK, TypeOK
  <2>3. /\ model' = [model EXCEPT ![b] = @ \cup {p}]
        /\ artifact' = [artifact EXCEPT ![b][p] = draft[c]]
        /\ held' = [held EXCEPT ![b][p] = {kind \in Kinds : Holds(kind, draft[c])}]
    BY <1>1 DEF PublishModel
  <2>4. artifact'[a][q] = artifact[a][q]
    BY <1>1, <1>5, <2>1, <2>2, <2>3
  <2>5. held'[a][q] = held[a][q]
    BY <1>1, <1>5, <2>1, <2>2, <2>3
  <2>6. q \in model'[a] <=> q \in model[a]
    BY <1>1, <1>5, <2>2, <2>3
  <2> QED BY <2>4, <2>5, <2>6
<1>6. Forward
  BY <1>2, <1>3, <1>4, <1>5, Numbers DEF Forward, ExecutionInv, ExecutionTypes
<1>7. PointOK(b, p)'
  <2>1. ASSUME NEW kind \in Kinds, kind \notin held'[b][p]
        PROVE  \E part \in Parts : draft[c][kind] < authority[kind][part]
    <3>1. ~Holds(kind, draft[c])
      BY <1>4, <2>1
    <3> QED BY <1>1, <3>1, Numbers
            DEF Holds, Loads, Approved, FlightOK, Base, Parts, ExecutionInv, ExecutionTypes
  <2>2. "model" \in held'[b][p] => draft[c].recorded <= draft[c].model
    BY <1>1, <1>4 DEF Holds, FlightOK, Base
  <2>3. /\ \A kind \in Kinds, part \in Parts : artifact'[b][p][kind] <= authority'[kind][part]
        /\ artifact'[b][p].recorded <= Approved("model")'
    BY <1>1, <1>3, <1>4 DEF FlightOK, Base, Approved
  <2> QED BY <1>2, <1>3, <1>4, <2>1, <2>2, <2>3 DEF PointOK
<1>8. ASSUME NEW a \in Batches, NEW q \in 1..Points PROVE PointOK(a, q)'
  <2>1. CASE a # b \/ q # p
    BY <1>3, <1>5, <1>6, <2>1, PointKept
  <2> QED BY <1>7, <2>1
<1>9. FlightOK(c)'
  <2>1. step'[c] = "published" /\ seen'[c] = {} /\ Base(c)'
    BY <1>1, <1>3 DEF PublishModel, At, FlightOK, Base, Verifying, Approved, ExecutionInv, ExecutionTypes,
       ExecutionTypeOK
  <2>2. Modelled(c)' /\ draft'[c] = artifact'[job'[c]][Point(c)']
    BY <1>1, <1>3, <1>4 DEF Modelled, Point
  <2> QED BY <2>1, <2>2 DEF FlightOK, Verifying
<1>10. FlightFrame(c) /\ CallerFrame(c)
  BY <1>3 DEF FlightFrame, CallerFrame, ExecutionInv, ExecutionTypes, ExecutionTypeOK, TypeOK
<1> QED BY <1>6, <1>8, <1>9, <1>10 DEF PointInv

(* The evidence of a point is published once its verification has passed.   *)
LEMMA RecordPoints ==
    ASSUME ExecutionInv, ExecutionTypeOK', Forward, NEW c \in Callers, RecordEvidence(c)
    PROVE  PointInv'
<1>1. /\ step[c] = "verified" /\ pc[c] = "modelled" /\ FlightOK(c)
      /\ UNCHANGED <<files, model>>
      /\ evidence' = [evidence EXCEPT ![job[c]] = @ \cup {Point(c)}]
  BY DEF RecordEvidence, At, PublishEvidence, ExecutionInv, FlightInv
<1>2. job[c] \in Batches /\ Point(c) \in 1..Points
  BY <1>1, BoundAssumption DEF ExecutionInv, ExecutionTypes, PlaceInv, TypeInv, TypeOK, CallInv, Head, Point
<1>3. ASSUME NEW b \in Batches, NEW p \in 1..Points PROVE PointOK(b, p)'
  <2>1. CASE b # job[c] \/ p # Point(c)
    <3>1. p \in evidence'[b] => p \in evidence[b]
      BY <1>1, <2>1 DEF ExecutionInv, ExecutionTypes, TypeInv, TypeOK
    <3> QED BY <1>1, <3>1, PointKept DEF files
  <2>2. CASE b = job[c] /\ p = Point(c)
    <3>1. /\ p \in model[b] /\ held[b][p] = Kinds
          /\ artifact[b][p].worker = artifact[b][p].model /\ artifact[b][p].recorded = artifact[b][p].model
      BY <1>1, <2>2 DEF FlightOK, Modelled
    <3>2. PointOK(b, p) /\ artifact' = artifact /\ held' = held /\ model' = model
      BY <1>1 DEF files, ExecutionInv, PointInv
    <3>3. /\ \A kind \in Kinds, part \in Parts : artifact'[b][p][kind] <= authority'[kind][part]
          /\ artifact'[b][p].recorded <= Approved("model")'
      BY <3>2 DEF RecordEvidence, PointOK, Approved
    <3> QED BY <3>1, <3>2, <3>3 DEF PointOK
  <2> QED BY <2>1, <2>2
<1> QED BY <1>3 DEF PointInv

(* Every step keeps the invariant. *)
LEMMA NextExecutionInv == ExecutionInv /\ [ExecutionNext]_everything => ExecutionInv'
<1> SUFFICES ASSUME ExecutionInv, [ExecutionNext]_everything PROVE ExecutionInv'
  OBVIOUS
<1>0. ExecutionTypes' /\ ExecutionTypeOK' /\ ExecutionTypeOK
  BY NextTypes DEF ExecutionInv, ExecutionTypes
<1>1. SUFFICES FlightInv' /\ PointInv'
  BY <1>0 DEF ExecutionInv
<1>2. CASE UNCHANGED everything
  <2>1. /\ UNCHANGED <<authority, files, model, evidence, inFlight>>
        /\ \A d \in Callers : job'[d] = job[d] /\ local'[d] = local[d]
    BY <1>2 DEF everything, vars, disk, caller, execution
  <2> QED BY <1>0, <2>1, SameForward, PointsKept, FlightStays
<1>3. CASE Aside
  <2>1. /\ UNCHANGED <<authority, files, model, evidence, inFlight>>
        /\ \A d \in Callers : step[d] = "none" \/ (job'[d] = job[d] /\ local'[d] = local[d])
    BY <1>3, AsideQuiet DEF execution, ExecutionInv
  <2> QED BY <1>0, <2>1, SameForward, PointsKept, FlightStays
<1>4. CASE Editing
  <2>1. /\ UNCHANGED <<files, model, evidence, inFlight>>
        /\ \A d \in Callers : job'[d] = job[d] /\ local'[d] = local[d]
    BY <1>4, EditSame DEF vars, disk, caller
  <2>2. PICK kind \in Kinds, part \in Parts : Edit(kind, part)
    BY <1>4 DEF Editing, BeginEdit, FinishEdit
  <2>3. \A k \in Kinds, q \in Parts : authority[k][q] <= authority'[k][q]
    BY <1>0, <2>2, Numbers DEF Edit, ExecutionTypeOK
  <2>4. Forward
    BY <2>1, <2>3 DEF Forward, files
  <2> QED BY <1>0, <2>1, <2>4, PointsKept, FlightStays
<1>5. ASSUME NEW c \in Callers, Apart(c) PROVE FlightInv' /\ PointInv'
  <2>1. UNCHANGED <<authority, files, model, evidence>> /\ CallerFrame(c)
    BY <1>5, ApartSame DEF vars, disk, caller, CallerFrame
  <2> QED BY <1>0, <1>5, <2>1, SameForward, PointsKept, FlightKept, ApartFlight
<1>6. ASSUME NEW c \in Callers, Rest(c), UNCHANGED <<authority, files, model>>, CallerFrame(c)
      PROVE  Forward /\ FlightInv'
  <2>1. Forward
    BY <1>0, <1>6, SameForward
  <2>2. step'[c] = "none" /\ draft'[c] = Blank /\ seen'[c] = {} /\ FlightFrame(c)
    BY <1>0, <1>6 DEF Rest, FlightFrame, ExecutionTypeOK
  <2> QED BY <1>0, <1>6, <2>1, <2>2, AtRest, FlightKept
<1>7. ASSUME NEW c \in Callers, FailStep(c) \/ AdoptVerified(c) \/ Refuse(c) PROVE FlightInv' /\ PointInv'
  <2>1. Rest(c) /\ UNCHANGED <<authority, files, model, evidence>> /\ CallerFrame(c)
    BY <1>0, <1>7, FailStepQuiet, SMTT(20)
    DEF FailStep, AdoptVerified, Refuse, End, Save, Goto, Quiet, CallerFrame, disk, ExecutionTypeOK, TypeOK
  <2> QED BY <1>0, <1>6, <2>1, PointsKept
<1>8. ASSUME NEW c \in Callers, RecordEvidence(c) PROVE FlightInv' /\ PointInv'
  <2>1. Rest(c) /\ UNCHANGED <<authority, files, model>> /\ CallerFrame(c)
    BY <1>0, <1>8 DEF RecordEvidence, PublishEvidence, Goto, CallerFrame, ExecutionTypeOK, TypeOK
  <2> QED BY <1>0, <1>6, <1>8, <2>1, RecordPoints
<1>9. ASSUME NEW c \in Callers, PublishModel(c) PROVE FlightInv' /\ PointInv'
  BY <1>0, <1>9, PublishPoints, FlightKept
<1> QED BY <1>2, <1>3, <1>4, <1>5, <1>7, <1>8, <1>9, NextParts

(* A point that has circuit evidence was made under authorities that held   *)
(* together, for every number of callers, batches, points and versions,     *)
(* whatever is upgraded while the point is executed, and whatever fails.    *)
THEOREM PointsCoherent == ExecutionSpec => []Coherent
<1>1. ExecutionInv => Coherent
  <2> SUFFICES ASSUME ExecutionInv, NEW b \in Batches, NEW p \in evidence[b]
      PROVE  /\ held[b][p] = Kinds
             /\ artifact[b][p].worker = artifact[b][p].model
             /\ artifact[b][p].recorded = artifact[b][p].model
    BY DEF Coherent
  <2>1. p \in 1..Points
    BY DEF ExecutionInv, ExecutionTypes, TypeInv, TypeOK
  <2> QED BY <2>1 DEF ExecutionInv, PointInv, PointOK
<1> QED BY <1>1, InitExecutionInv, NextExecutionInv, PTL DEF ExecutionSpec
=============================================================================
