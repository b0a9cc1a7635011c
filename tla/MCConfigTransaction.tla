----------------------- MODULE MCConfigTransaction -----------------------
(* Small instances of ConfigTransaction for TLC. *)
EXTENDS ConfigTransaction, TLC

OneFile == <<"current">>
TwoFiles == <<"current", "active">>

TwoContents == {"before", "after"}
Update(from, to) == [expects |-> from, writes |-> to]

(* An update, the one that undoes it, and one that only takes a snapshot. *)
Updates == {Update("before", "after"), Update("after", "before"), Update(AnyContent, AnyContent)}

Symmetry == Permutations(Clients) \cup Permutations(Ops) \cup Permutations(Imports)
==========================================================================
