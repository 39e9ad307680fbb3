------------------------------ MODULE DealBook ------------------------------
(***************************************************************************)
(* What the proposals API promises its clients, with no queries, locks or  *)
(* retries: each proposal is a deal that is drafted, offered any number of *)
(* times, and then won or lost for good.  Winning a deal opens exactly one *)
(* order (a fulfillment) in the same step.                                 *)
(***************************************************************************)
CONSTANTS Proposals, OpenedIds, None

VARIABLES
  stage,  \* [Proposals -> stage of the deal]
  order   \* [OpenedIds -> the proposal the order was opened for, or None]

vars == <<stage, order>>

Absent == "ABSENT"  \* not drafted yet

Init ==
  /\ stage = [p \in Proposals |-> Absent]
  /\ order = [o \in OpenedIds |-> None]

Move(p, from, to) ==
  /\ stage[p] \in from
  /\ stage' = [stage EXCEPT ![p] = to]

Draft(p) == Move(p, {Absent}, "DRAFT") /\ UNCHANGED order

Offer(p) == Move(p, {"DRAFT", "SENT"}, "SENT") /\ UNCHANGED order

Lose(p) == Move(p, {"DRAFT", "SENT", "VIEWED"}, "REJECTED") /\ UNCHANGED order

Win(p) ==
  /\ Move(p, {"SENT", "VIEWED"}, "ACCEPTED")
  /\ \E o \in OpenedIds : order[o] = None /\ order' = [order EXCEPT ![o] = p]

Next == \E p \in Proposals : Draft(p) \/ Offer(p) \/ Lose(p) \/ Win(p)

Spec == Init /\ [][Next]_vars

\* A decided deal stays decided.
DecisionIsFinal ==
  [][\A p \in Proposals : stage[p] \in {"ACCEPTED", "REJECTED"} => stage'[p] = stage[p]]_vars

=============================================================================
