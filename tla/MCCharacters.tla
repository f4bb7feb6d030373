----------------------------- MODULE MCCharacters -----------------------------
(* The instance of Characters that TLC checks: three names, two accounts   *)
(* and two requests, each kind interchangeable.                            *)
EXTENDS Characters, TLC

CONSTANTS n1, n2, n3, a1, a2, r1, r2

MCNames == {n1, n2, n3}
MCAccounts == {a1, a2}
MCRequests == {r1, r2}
Symmetry == Permutations(MCNames) \cup Permutations(MCAccounts) \cup Permutations(MCRequests)
=============================================================================
