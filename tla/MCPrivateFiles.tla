--------------------------- MODULE MCPrivateFiles ---------------------------
(* One file, sent as any bytes as often as a link allows, and four calls in flight; symmetric calls. *)
EXTENDS PrivateFiles, TLC

CONSTANTS c1, c2, c3, c4

MCCalls == {c1, c2, c3, c4}
Symmetry == Permutations(MCCalls)
=============================================================================
