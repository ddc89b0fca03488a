-------------------------- MODULE MCQuoteLifecycle --------------------------
(***************************************************************************)
(* Two small instances of the expediente: three versions with few contents *)
(* (pointers, publications, the deal), and one version with contents that  *)
(* need authorisation, edits and two employees (approvals).                *)
(*                                                                         *)
(* A content is what QuotePricing says of one line, with rates in tenths   *)
(* and a threshold of one tenth.                                           *)
(***************************************************************************)
EXTENDS WorkspaceProjection, QuotePricing, TLC

CONSTANTS v1, v2, v3, ana, beto

ContentOfLine(kind, price, discount) ==
  ContentOf(LineTotals([kind |-> kind, price |-> price, quantity |-> QuantityScale,
                        discount |-> discount, tax |-> 0]), {kind}, 1)

Plain == ContentOfLine("lista", 20, 0)
Unpriced == ContentOfLine("por cotizar", 0, 0)
SmallDiscount == ContentOfLine("lista", 20, 1)
NeedsBoth == ContentOfLine("especial", 20, 2)

PointerVersions == {v1, v2, v3}
PointerContents == {Plain, Unpriced}

ApprovalContents == {SmallDiscount, NeedsBoth}

MCStaff == {ana, beto}
MCOverriders == {beto}

PointerSymmetry == Permutations(PointerVersions)

\* Rounding against its definition: the nearest integer, of two the greater.
Nearest(n, d) ==
  CHOOSE q \in 0..n + 1 : /\ \A p \in 0..n + 1 : (n - p * d) ^ 2 >= (n - q * d) ^ 2
                          /\ (n - (q + 1) * d) ^ 2 > (n - q * d) ^ 2

ASSUME RoundingIsNearest == \A n \in 0..40, d \in 1..10 : RoundHalfUp(n, d) = Nearest(n, d)
=============================================================================
