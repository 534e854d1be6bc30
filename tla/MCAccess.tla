------------------------------- MODULE MCAccess -------------------------------
(***************************************************************************)
(* TLC model of the components that decide who may use what (Access.tla).  *)
(***************************************************************************)
EXTENDS Access, TLC

Symmetry == Permutations(Users) \cup Permutations(Orgs) \cup Permutations(Workers)

MCDescribed == [n \in 0..2 |-> CASE n = 0 -> {"m1"} [] n = 1 -> {"m1", "m2"} [] n = 2 -> {"m2"}]
MCLists == {{"m1"}, {"m2"}}
=============================================================================
