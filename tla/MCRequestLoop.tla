---------------------------- MODULE MCRequestLoop ----------------------------
(* RequestLoop on small instances. *)
EXTENDS RequestLoop, TLC

\* Accounts may be exchanged when all of them hold tokens.
Symmetry == Permutations(Account)

=============================================================================
