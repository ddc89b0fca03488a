------------------------ MODULE MCNotificationOutbox ------------------------
(* Two workers; events, recipients and bounds are in the configurations. *)
EXTENDS NotificationOutbox, TLC

CONSTANTS w1, w2, p1, p2

MCWorkers == {w1, w2}
MCPeople == {p1, p2}
Symmetry == Permutations(MCWorkers) \cup Permutations(MCPeople)
=============================================================================
