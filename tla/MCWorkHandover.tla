--------------------------- MODULE MCWorkHandover ---------------------------
(* Members, requests and calls are in the configuration. *)
EXTENDS WorkHandover, TLC

CONSTANTS ana, beto, carla, c1, c2, c3

MCMembers == {ana, beto, carla}
MCCalls == {c1, c2}
Symmetry == Permutations(MCMembers) \cup Permutations(MCCalls)
=============================================================================
