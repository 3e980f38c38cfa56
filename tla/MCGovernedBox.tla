---------------------------- MODULE MCGovernedBox ----------------------------
(* Small boxes for TLC. *)
EXTENDS GovernedBox, TLC

CONSTANTS a1, a2, c1, c2, w1, w2, f1

CallSymmetry == Permutations(Calls)
CallContentSymmetry == Permutations(Calls) \cup Permutations(Contents)

=============================================================================
