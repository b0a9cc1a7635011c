---------------------------- MODULE RunEvidence ----------------------------
(***************************************************************************)
(* What the directory of an experiment run holds, and what its verifiers   *)
(* accept: src/sqvm/runtime (schema 0.1) and src/sqvm/runtime_v02 (0.2).   *)
(*                                                                         *)
(* A directory is a record of what its files say.  The files that are      *)
(* written together before the journal exists (request, point table,       *)
(* snapshots, program) are its "inputs"; an event is its type; the hash    *)
(* that a manifest has of the journal is the number of events it binds.    *)
(***************************************************************************)
EXTENDS Naturals, Sequences, SequencesExt

CONSTANT Points      \* number of points of the scan

Statuses == {"completed", "failed", "cancelled"}
TerminalEvent == [completed |-> "run_completed", failed |-> "run_failed", cancelled |-> "run_cancelled"]
Terminals == {TerminalEvent[s] : s \in Statuses}
Outcomes == {"point_completed", "point_failed"}

(* The phases in which each event that is not the first or the last may occur. *)
InPhase == [run_prepared |-> {"reserved"}, run_started |-> {"prepared"},
            cancel_requested |-> {"prepared", "running"},
            point_started |-> {"running"}, point_completed |-> {"running"}, point_failed |-> {"running"},
            run_finalizing |-> {"running"}]
Moves == [run_prepared |-> "prepared", run_started |-> "running", run_finalizing |-> "finalizing"]

EventTypes == {"run_reserved"} \cup DOMAIN InPhase \cup Terminals

Tree == [inputs: BOOLEAN, events: Seq(EventTypes), torn: BOOLEAN,
         data: {"none", "torn", "binary", "whole"},
         docs: 0..3, status: Statuses \cup {"none"}, sealed: Nat]

Fresh == [inputs |-> FALSE, events |-> <<>>, torn |-> FALSE, data |-> "none",
          docs |-> 0, status |-> "none", sealed |-> 0]

-----------------------------------------------------------------------------
(* verify_event_journal: whole lines, one chain. *)
JournalReads(t) == t.events # <<>> /\ ~t.torn

(* One step of the loop of _verify_events. *)
Walk(s, e) ==
    [phase  |-> IF e \in DOMAIN Moves THEN Moves[e] ELSE s.phase,
     active |-> e = "point_started" \/ (s.active /\ e \notin Outcomes),
     done   |-> IF e = "point_completed" THEN s.done + 1 ELSE s.done,
     ok     |-> /\ s.ok
                /\ e \in DOMAIN InPhase /\ s.phase \in InPhase[e]
                /\ e = "point_started" => ~s.active /\ s.done < Points
                /\ e = "run_finalizing" => ~s.active
                /\ e \in Outcomes => s.active]

Whole(n) == <<"run_reserved", "run_prepared", "run_started">>
                \o FlattenSeq([i \in 1..n |-> <<"point_started", "point_completed">>])
                \o <<"run_finalizing", "run_completed">>

(* _verify_events of schema 0.1. *)
EventsHold(t) ==
    LET inner == SubSeq(t.events, 2, Len(t.events) - 1)
        end == FoldLeft(Walk, [phase |-> "reserved", active |-> FALSE, done |-> 0, ok |-> TRUE], inner)
    IN  /\ t.sealed = Len(t.events) /\ Len(t.events) >= 2
        /\ Head(t.events) = "run_reserved"
        /\ Last(t.events) = TerminalEvent[t.status]
        /\ \A i \in 1..Len(t.events) - 1 : t.events[i] \notin Terminals
        /\ end.ok /\ ~end.active
        /\ t.status = "completed" => t.events = Whole(Points)
        /\ t.status = "cancelled" => /\ "cancel_requested" \in {inner[i] : i \in DOMAIN inner}
                                     /\ end.phase \in {"prepared", "running"}

(* _verify_manifest, _verify_dataset: a dataset in a completed run and in no other. *)
PayloadHolds(t) == t.inputs /\ t.data = IF t.status = "completed" THEN "whole" ELSE "none"

(* _verify_report_receipt: the three documents are there and agree. *)
DocumentsHold(t) == t.docs = 3 /\ t.status \in Statuses

(* verify_experiment_run. *)
Verified01(t) == DocumentsHold(t) /\ PayloadHolds(t) /\ JournalReads(t) /\ EventsHold(t)

-----------------------------------------------------------------------------
(* _verify_common_event_prefix of schema 0.2. *)
Prefix02(e) == Len(e) >= 3 /\ e[1] = "run_reserved" /\ e[2] = "run_prepared"

(* _verify_completed_event_semantics. *)
Completed02(e) == Prefix02(e) /\ e = Whole(Points)

(* _verify_noncompleted_event_semantics: i is a position before the terminal event. *)
Stopped02(e, status) ==
    LET n == Len(e)
        InOrder(i) ==
            \/ e[i] = "run_finalizing" /\ status = "failed" /\ i = n - 1
            \/ e[i] = "cancel_requested" /\ status = "cancelled" /\ i = n - 1
            \/ e[i] = "point_started" /\ e[i + 1] \in Outcomes
            \/ e[i] = "point_completed" /\ e[i - 1] = "point_started"
            \/ e[i] = "point_failed" /\ e[i - 1] = "point_started" /\ status = "failed" /\ i = n - 1
    IN  /\ Prefix02(e) /\ e[n] = TerminalEvent[status]
        /\ \/ e[3] = "cancel_requested" /\ status = "cancelled" /\ n = 4
           \/ /\ e[3] = "run_started"
              /\ \A i \in 4..n - 1 : InOrder(i)
              /\ Len(SelectSeq(e, LAMBDA x : x = "point_completed")) <= Points

(* _verify_terminal_schemas: documents that agree, with the checks of their status. *)
Terminal02(t) == t.docs = 3 /\ t.status \in Statuses /\ t.sealed = Len(t.events)

(* verify_experiment_run_v02. *)
Verified02(t) ==
    /\ t.inputs /\ Terminal02(t) /\ JournalReads(t)
    /\ IF t.status = "completed"
       THEN t.data = "whole" /\ Completed02(t.events)
       ELSE t.data = "none" /\ Stopped02(t.events, t.status)

-----------------------------------------------------------------------------
(* What a recovery may take for the prefix of a run, its locks aside: _verify_interrupted_prefix. *)
Prefix01(t) ==
    /\ t.inputs /\ JournalReads(t)
    /\ t.data # "torn"
    /\ t.docs \in {0, 3}
    /\ t.docs = 3 => Verified01(t)

(* verify_interrupted_prefix_v02, which reads no binary before the dataset names it. *)
PrefixOf02(t) ==
    /\ t.inputs /\ JournalReads(t)
    /\ t.docs \in {0, 3}
    /\ t.docs = 3 => Verified02(t)
=============================================================================
