--------------------------- MODULE MCOAuthRefresh ---------------------------
(* OAuthRefresh on small instances. *)
EXTENDS OAuthRefresh, TLC

CONSTANTS c1, c2, i1, i2

\* An instance for each caller; callers may then be exchanged.
OwnHosts == (c1 :> i1) @@ (c2 :> i2)
Symmetry == Permutations(Caller)

=============================================================================
