--------------------------- MODULE MCAccountAccess ---------------------------
(* One account of either type, two calls in flight, two open sessions, two links and one secret,
   which may be confirmed twice. *)
EXTENDS AccountAccess, TLC

CONSTANTS c1, c2, s1, s2, l1, l2, x1

MCCalls == {c1, c2}
MCSessions == {s1, s2}
MCLinks == {l1, l2}
MCSecrets == {x1}
Symmetry == Permutations(MCCalls) \cup Permutations(MCSessions) \cup Permutations(MCLinks)
=============================================================================
