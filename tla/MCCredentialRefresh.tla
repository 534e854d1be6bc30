------------------------ MODULE MCCredentialRefresh ------------------------
(* Instances of CredentialRefresh for TLC. *)
EXTENDS CredentialRefresh, TLC

Symmetry == Permutations(Callers)
=============================================================================
