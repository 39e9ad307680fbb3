--------------------------- MODULE MCSalesPipeline ---------------------------
(* TLC instances of SalesPipeline: ids are model values, interchangeable. *)
EXTENDS SalesPipeline, TLC

Symmetry ==
  Permutations(Proposals) \cup Permutations(Requests)
    \cup Permutations(OpenedIds)

=============================================================================
