------------------------------ MODULE MCAccounts ------------------------------
(***************************************************************************)
(* An instance of Accounts for TLC.                                        *)
(***************************************************************************)
EXTENDS Accounts, TLC

\* Bound: once two requests worked on one user, links are not followed any more
Followed == crossed = {} \/ used \cap Link = {}

Symmetry == Permutations(User) \cup Permutations(Worker) \cup Permutations(Password) \cup Permutations(Link)
=============================================================================
