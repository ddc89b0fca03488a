---------------------------- MODULE QuotePricing ----------------------------
(***************************************************************************)
(* What a quote costs: a line's amounts from its price, quantity and       *)
(* rates, each rounded half up to a cent, and the discount of a version    *)
(* against the threshold from which it must be approved.                   *)
(*                                                                         *)
(* Amounts are integers of cents, quantities of thousandths, rates of      *)
(* hundredths of a percent; the scales and the bounds are parameters.      *)
(***************************************************************************)
EXTENDS Integers

CONSTANTS
  MaxMoney,       \* MAX_MONEY_MINOR_UNITS
  MaxQuantity,    \* MAX_QUANTITY_MILLIUNITS
  QuantityScale,  \* QUANTITY_SCALE
  BasisScale      \* BASIS_POINTS_SCALE

ASSUME PricingAssumption == {MaxMoney, MaxQuantity, QuantityScale, BasisScale} \subseteq Nat \ {0}

\* validateMinorUnits
Money == 0..MaxMoney

\* normalizeBasisPoints
Rates == 0..BasisScale

\* With a price of the list or another, outside the catalog, or with none yet.
Kinds == {"lista", "manual", "especial", "por cotizar"}

\* A concept without a price costs nothing and has no discount.
Lines ==
  {line \in [kind : Kinds, price : Money, quantity : 1..MaxQuantity, discount : Rates, tax : Rates] :
     line.kind = "por cotizar" => line.price = 0 /\ line.discount = 0}

RoundHalfUp(numerator, denominator) ==
  numerator \div denominator + IF 2 * (numerator % denominator) >= denominator THEN 1 ELSE 0

PercentageOf(amount, rate) == RoundHalfUp(amount * rate, BasisScale)

\* calculateLineTotals
LineTotals(line) ==
  LET subtotal == RoundHalfUp(line.price * line.quantity, QuantityScale)
      discount == PercentageOf(subtotal, line.discount)
      taxable == subtotal - discount
      tax == PercentageOf(taxable, line.tax)
  IN [subtotal |-> subtotal, discount |-> discount, taxable |-> taxable, tax |-> tax,
      total |-> taxable + tax]

Totals == [subtotal : Money, discount : Money, taxable : Money, tax : Money, total : Money]

\* addMoney, of each amount.
Plus(t, u) ==
  [subtotal |-> t.subtotal + u.subtotal, discount |-> t.discount + u.discount,
   taxable |-> t.taxable + u.taxable, tax |-> t.tax + u.tax, total |-> t.total + u.total]

NoTotals == [subtotal |-> 0, discount |-> 0, taxable |-> 0, tax |-> 0, total |-> 0]

\* discountRatioBps, of a version that has a discount.
DiscountRatio(t) == IF t.subtotal > 0 THEN (t.discount * BasisScale) \div t.subtotal ELSE BasisScale

\* The version cannot be sent without an approval of its discount.
NeedsApproval(t, threshold) == t.discount > 0 /\ DiscountRatio(t) > threshold

\* What the guards of the expediente read of a version: QuoteLifecycle's contents.
ContentOf(t, kinds, threshold) ==
  [discount |-> IF t.discount = 0 THEN "NINGUNO"
                ELSE IF NeedsApproval(t, threshold) THEN "SOBRE_UMBRAL" ELSE "BAJO_UMBRAL",
   special |-> "especial" \in kinds,
   pending |-> "por cotizar" \in kinds]
=============================================================================
