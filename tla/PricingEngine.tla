---------------------------- MODULE PricingEngine ----------------------------
(***************************************************************************)
(* PricingEngineService: the prices of a package's items and its totals.   *)
(*                                                                         *)
(* Amounts are integers, in thousandths of the currency: prices are        *)
(* rounded to cents, but a unit cost may be finer (the DTO asks for a      *)
(* number, not for two decimals).  The code computes with doubles; here    *)
(* arithmetic is exact, and the EPSILON that round2 adds to make up for    *)
(* binary fractions is nothing.                                            *)
(***************************************************************************)
EXTENDS Integers, Functions

Cent == 10

\* round2 of the quotient n / d: Math.round rounds a half up.
Round2(n, d) == ((2 * n + d * Cent) \div (2 * d * Cent)) * Cent

NonNegative(x) == IF x > 0 THEN x ELSE 0

MarkupType == {"PERCENTAGE", "FIXED"}

\* input: [unitCost, quantity, markupType, markupValue]; a percentage is a whole number.
CalculateItem(input) ==
  LET quantity == IF input.quantity > 0 THEN input.quantity ELSE 1
      unitCost == NonNegative(input.unitCost)
      markup == NonNegative(input.markupValue)
      unitSellPrice == IF input.markupType = "FIXED"
                         THEN Round2(unitCost + markup, 1)
                         ELSE Round2(unitCost * (100 + markup), 100)
      totalCost == Round2(unitCost * quantity, 1)
      totalSellPrice == Round2(unitSellPrice * quantity, 1)
  IN  [unitSellPrice |-> unitSellPrice, totalCost |-> totalCost,
       totalSellPrice |-> totalSellPrice, profit |-> Round2(totalSellPrice - totalCost, 1)]

\* The totals of the items of a finite set, given a function to their prices.
CalculatePackage(items, prices) ==
  LET cost == Round2(SumFunction([i \in items |-> prices[i].totalCost]), 1)
      sell == Round2(SumFunction([i \in items |-> prices[i].totalSellPrice]), 1)
      derived == Round2(sell - cost, 1)
  IN  [totalCost |-> cost, totalMarkup |-> derived, totalSellPrice |-> sell,
       expectedProfit |-> derived]

=============================================================================
