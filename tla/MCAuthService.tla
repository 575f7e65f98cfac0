--------------------------- MODULE MCAuthService ---------------------------
(* Instances of AuthService for TLC. *)
EXTENDS AuthService, TLC

CONSTANTS lower, mixed

\* Two spellings of one address.
OnePerson == (lower :> lower) @@ (mixed :> lower)

Symmetry == Permutations(Request) \cup Permutations(Token)
=============================================================================
