--------------------------- MODULE MCPackageCosting ---------------------------
(* TLC instances of PackageCosting: ids are model values, interchangeable. *)
EXTENDS PackageCosting, TLC

Input(unitCost, quantity, type, value) ==
  [unitCost |-> unitCost, quantity |-> quantity, markupType |-> type, markupValue |-> value]

\* One at 1.00 with 20 percent.
Priced == {Input(1000, 1, "PERCENTAGE", 20)}

\* Twice as many, or a unit cost of 0.504 (finer than a cent).
TwoChanges == {[quantity |-> 2], [unitCost |-> 504]}
OneChange == {[quantity |-> 2]}

Symmetry == Permutations(Items) \cup Permutations(Quotations) \cup Permutations(Requests)

=============================================================================
