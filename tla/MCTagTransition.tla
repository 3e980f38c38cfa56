--------------------------- MODULE MCTagTransition ---------------------------
(* Small stores for TLC. *)
EXTENDS TagTransition, TLC

CONSTANTS m1, w1, w2, permanent

WriterSymmetry == Permutations(Writers)

=============================================================================
