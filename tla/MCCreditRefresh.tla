--------------------------- MODULE MCCreditRefresh ---------------------------
(* Small instances of CreditRefresh for TLC.                               *)
EXTENDS CreditRefresh, TLC

Symmetry == Permutations(Query) \union Permutations(Request)

=============================================================================
