---------------------------- MODULE RunStorage ----------------------------
(***************************************************************************)
(* What the storage of a run promises: complete evidence is copied, moved   *)
(* and removed, but never all of it; and the state its journal shows        *)
(* changes along the life cycle, and only to one whose evidence is there.   *)
(***************************************************************************)
CONSTANT Places

VARIABLES
    state,   \* what the journal says
    places   \* where complete evidence is

vars == <<state, places>>

(* The state shown, and the places that must then hold complete evidence. *)
Claims ==
    [none |-> {}, archiving |-> {}, hot |-> {"hot"}, archived |-> {"archive"},
     archived_duplicate |-> {"hot", "archive"}, trash |-> {"payload"}]

LifeCycle ==
    {<<"none", "hot">>, <<"hot", "archiving">>, <<"archiving", "hot">>,
     <<"archiving", "archived_duplicate">>, <<"archived_duplicate", "archived">>,
     <<"archived", "archiving">>, <<"archiving", "archived">>,
     <<"hot", "trash">>, <<"archived", "trash">>,
     <<"trash", "hot">>, <<"trash", "archived">>}

Init == state = "none" /\ places = {"hot"}

Copy(p) == places' = places \cup {p} /\ UNCHANGED state
Remove(p) == places' = places \ {p} /\ places' # {} /\ UNCHANGED state
Move(p, q) == p \in places /\ places' = (places \ {p}) \cup {q} /\ UNCHANGED state

Become(s) ==
    /\ <<state, s>> \in LifeCycle /\ Claims[s] \subseteq places
    /\ state' = s
    /\ UNCHANGED places

Next ==
    \/ \E p \in Places : Copy(p) \/ Remove(p) \/ \E q \in Places : Move(p, q)
    \/ \E s \in DOMAIN Claims : Become(s)

Spec == Init /\ [][Next]_vars
==========================================================================
