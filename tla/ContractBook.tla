----------------------------- MODULE ContractBook -----------------------------
(***************************************************************************)
(* What the commercial flow promises about terms and work: terms are       *)
(* issued once and never change; a contract carries terms the customer     *)
(* agreed to; work on a line starts only under a contract that was cleared *)
(* for booking, and clearing one requires its terms to be bookable.        *)
(***************************************************************************)
EXTENDS Naturals

CONSTANTS Quotations, Proposals, Terms, None, Bookable(_)

VARIABLES
  offer,     \* [Quotations -> the terms issued, or None]
  agreed,    \* the quotations the customer has agreed to, for good
  contract,  \* [Proposals -> the quotation and terms signed, or None]
  cleared,   \* the proposals cleared for booking, for good
  opened     \* the lines of work started, pairs of a proposal and a line number

vars == <<offer, agreed, contract, cleared, opened>>

Init ==
  /\ offer = [q \in Quotations |-> None]
  /\ agreed = {}
  /\ contract = [p \in Proposals |-> None]
  /\ cleared = {}
  /\ opened = {}

Issue(q, t) ==
  /\ offer[q] = None
  /\ offer' = [offer EXCEPT ![q] = t]
  /\ UNCHANGED <<agreed, contract, cleared, opened>>

Agree(q) ==
  /\ offer[q] # None
  /\ agreed' = agreed \cup {q}
  /\ UNCHANGED <<offer, contract, cleared, opened>>

Sign(p, q) ==
  /\ q \in agreed
  /\ contract[p] = None
  /\ contract' = [contract EXCEPT ![p] = [quotation |-> q, terms |-> offer[q]]]
  /\ UNCHANGED <<offer, agreed, cleared, opened>>

Clear(p) ==
  /\ contract[p] # None
  /\ Bookable(contract[p].terms)
  /\ cleared' = cleared \cup {p}
  /\ UNCHANGED <<offer, agreed, contract, opened>>

Lines(p) == IF contract[p] = None THEN {} ELSE 1 .. contract[p].terms.lines

Open(p, n) ==
  /\ p \in cleared
  /\ opened' = opened \cup {<<p, n>>}
  /\ UNCHANGED <<offer, agreed, contract, cleared>>

Next ==
  \/ \E q \in Quotations : Agree(q) \/ \E t \in Terms : Issue(q, t)
  \/ \E p \in Proposals :
       \/ Clear(p)
       \/ \E q \in Quotations : Sign(p, q)
       \/ \E n \in Lines(p) : Open(p, n)

Spec == Init /\ [][Next]_vars

=============================================================================
