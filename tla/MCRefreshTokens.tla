--------------------------- MODULE MCRefreshTokens ---------------------------
(***************************************************************************)
(* Instances of RefreshTokens.  Tokens are random strings and requests are *)
(* alike: neither appears in a definition by name.                         *)
(***************************************************************************)
EXTENDS RefreshTokens, TLC

Symmetry == Permutations(Worker) \cup Permutations(Token)
=============================================================================
