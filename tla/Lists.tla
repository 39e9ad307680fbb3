------------------------------- MODULE Lists -------------------------------
(***************************************************************************)
(* Arrays as the code filters them.  The recursion is a function, unlike   *)
(* that of SelectSeq, so that the provers can reason about it.             *)
(***************************************************************************)
EXTENDS Naturals, Sequences

\* Array.prototype.filter: the elements at the positions in P, in their order.
Kept(s, P) ==
  LET kept[n \in 0..Len(s)] ==
        IF n = 0 THEN <<>>
        ELSE IF n \in P THEN Append(kept[n - 1], s[n])
        ELSE kept[n - 1]
  IN kept[Len(s)]

\* The positions at which a value occurs for the first time: the keys of a Map keep this order.
FirstPositions(s) == {n \in DOMAIN s : \A m \in 1..(n - 1) : s[m] # s[n]}

=============================================================================
