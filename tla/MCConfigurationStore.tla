------------------------ MODULE MCConfigurationStore ------------------------
(* Small instances of ConfigurationStore for TLC. *)
EXTENDS ConfigurationStore, TLC

CONSTANTS a, r1, r2

TwoRuns == (r1 :> {[record |-> a, from |-> 0, to |-> 1]})
           @@ (r2 :> {[record |-> a, from |-> 1, to |-> 0]})

(* Bounds: histories with a draft are shorter, and two editors work at once only before the *)
(* first snapshot, at most one of them writing.                                            *)
Drafted == \E d \in Drafts : draft[d].used
Busy == {e \in Editors : pc[e] # "idle"}

Bounds ==
    /\ Drafted => issued <= 2 /\ ~ underOutput
    /\ kills > 0 => issued <= 1
    /\ Cardinality(Busy) > 1 => issued = 0 /\ kills = 0
    /\ \A d \in Drafts : Cardinality(Writers(d)) <= 1

(* Transactions and the steps of an editor touch different files: a transaction happens    *)
(* only while no editor is between two steps, which leaves out orders, not states.  Once    *)
(* there is a draft, pins and the active pointer change only together with more.            *)
Apart ==
    (store' # store /\ store.current.made /\ device = Free) =>
        /\ Busy = {}
        /\ Drafted => \/ issued' # issued \/ store'.current # store.current
                       \/ DOMAIN store'.snapshots # DOMAIN store.snapshots

EditorSymmetry == Permutations(Editors)
=============================================================================
