------------------------- MODULE MCQuotePublication -------------------------
(* One version, two edits, two server requests in flight. *)
EXTENDS QuotePublication, TLC

CONSTANTS w1, w2

MCContents == {[discount |-> "NINGUNO", special |-> FALSE, pending |-> FALSE]}
MCWorkers == {w1, w2}
Symmetry == Permutations(MCWorkers)
=============================================================================
