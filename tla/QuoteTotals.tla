----------------------------- MODULE QuoteTotals -----------------------------
(***************************************************************************)
(* buildQuoteVersionSnapshot: a version's totals are the sums of its       *)
(* lines', taken a line at a time; an amount out of range refuses them all.*)
(***************************************************************************)
EXTENDS QuotePricing

VARIABLES
  totals,  \* the sums so far
  lines,   \* history: how many lines they have
  kinds,   \* the kinds of concept among them
  asked,   \* history: the discount asked for, in rates of each line's subtotal, unrounded
  topRate  \* history: the highest rate of discount of a line

totalsVars == <<totals, lines, kinds, asked, topRate>>

TotalsInit == totals = NoTotals /\ lines = 0 /\ kinds = {} /\ asked = 0 /\ topRate = 0

AddLine(line) ==
  LET amounts == LineTotals(line)
  IN /\ amounts \in Totals /\ Plus(totals, amounts) \in Totals
     /\ totals' = Plus(totals, amounts)
     /\ lines' = lines + 1
     /\ kinds' = kinds \cup {line.kind}
     /\ asked' = asked + amounts.subtotal * line.discount
     /\ topRate' = IF line.discount > topRate THEN line.discount ELSE topRate

TotalsNext == \E line \in Lines : AddLine(line)

TotalsSpec == TotalsInit /\ [][TotalsNext]_totalsVars

-----------------------------------------------------------------------------
\* The five totals of a version tell one story, whatever each line was rounded by.
TotalsAgree ==
  /\ totals \in Totals
  /\ totals.subtotal = totals.discount + totals.taxable
  /\ totals.total = totals.taxable + totals.tax

\* The discount given is what was asked for, to half a cent a line.
DiscountIsFair ==
  /\ 2 * (BasisScale * totals.discount - asked) <= lines * BasisScale
  /\ 2 * (asked - BasisScale * totals.discount) <= lines * BasisScale

\* The approval a version needs: if no line goes over the threshold, the version does only by
\* what rounding gave away.
ThresholdByRounding ==
  \A threshold \in Rates :
    topRate <= threshold =>
      2 * (BasisScale * totals.discount) <= 2 * (threshold * totals.subtotal) + lines * BasisScale

\* The ratio is truncated: a version that needs no approval may be over the threshold, but by
\* less than one basis point of its subtotal; and one that needs it is over it.
GateWithinOnePoint ==
  \A threshold \in Rates :
    IF NeedsApproval(totals, threshold)
    THEN BasisScale * totals.discount >= (threshold + 1) * totals.subtotal
    ELSE totals.discount = 0 \/ BasisScale * totals.discount < (threshold + 1) * totals.subtotal
=============================================================================
