---------------------------- MODULE MCBadgeStore ----------------------------
(* Values for model-checking BadgeStore. *)
EXTENDS BadgeStore, TLC

CONSTANTS u1, u2, n1, n2, r1, r2

Users == {u1, u2}
Numbers == {n1, n2}
TwoRequests == {r1, r2}

Symmetric == Permutations(TwoRequests) \union Permutations(Users) \union Permutations(Numbers)

=============================================================================
