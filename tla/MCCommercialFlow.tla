-------------------------- MODULE MCCommercialFlow --------------------------
(* TLC instances of CommercialFlow: ids are model values, interchangeable. *)
EXTENDS CommercialFlow, TLC

Snapshot(lines, price) ==
  [lines |-> lines, travelers |-> 1, price |-> price, datesValid |-> TRUE]

\* Two lines to book, and a quotation given away, which is never ready.
TwoLinesOrFree == {Snapshot(2, 10), Snapshot(1, 0)}

TwoLines == {Snapshot(2, 10)}

OneLine == {Snapshot(1, 10)}

Symmetry == Permutations(Proposals) \cup Permutations(Items) \cup Permutations(Requests)

=============================================================================
