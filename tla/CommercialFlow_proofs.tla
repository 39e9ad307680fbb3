------------------------ MODULE CommercialFlow_proofs ------------------------
(***************************************************************************)
(* Theorems about CommercialFlow, for any number of quotations, proposals, *)
(* items and concurrent requests, and any terms.                           *)
(*                                                                         *)
(* Every write of the flow rests on an earlier read that may be stale.     *)
(* The argument is that the facts the writes need never stop being true:   *)
(* a step only lets the documents grow (Grows), and what a request carries *)
(* (Carries) speaks of facts that growth preserves.                        *)
(***************************************************************************)
EXTENDS CommercialFlow, TLAPS

\* A quotation's terms come with its insert; its acceptance and its link to a proposal
\* speak of what is there.
QuotationSound(q) ==
  /\ quotation[q].status = Absent <=> quotation[q].terms = None
  /\ quotation[q].acceptedAt => quotation[q].terms # None
  /\ quotation[q].status = "ACCEPTED" => quotation[q].acceptedAt
  /\ quotation[q].converted # None =>
       /\ quotation[q].converted \in Proposals
       /\ Exists(quotation[q].converted)
       /\ proposal[quotation[q].converted].quotation = q

QuotationInv == \A q \in Quotations : QuotationSound(q)

\* A proposal holds the terms of a quotation that was accepted.
ProposalInv ==
  \A p \in Proposals : Exists(p) =>
    \E q \in Quotations : /\ proposal[p].quotation = q
                          /\ quotation[q].acceptedAt
                          /\ proposal[p].terms = quotation[q].terms

\* An item is work on a line of a proposal that was cleared for booking.
ItemInv ==
  \A i \in Items : item[i].status # Absent =>
    \E p \in Cleared : /\ item[i].proposal = p
                       /\ item[i].line \in 1 .. proposal[p].terms.lines

\* What request r knows, by the point it has reached.
Carries(r) ==
  LET q == req[r].quotation
      p == req[r].proposal
  IN
  /\ At(r, "transition") =>
       /\ q \in Quotations /\ quotation[q].terms # None
       /\ req[r].status \in {"SENT", "ACCEPTED", "REJECTED"}
  /\ At(r, "convert") =>
       q \in Quotations /\ quotation[q].acceptedAt /\ req[r].terms = quotation[q].terms
  /\ At(r, "markConverted") =>
       q \in Quotations /\ p \in Proposals /\ Exists(p) /\ proposal[p].quotation = q
  /\ At(r, "setReady") => p \in Proposals /\ Exists(p) /\ Ready(proposal[p].terms)
  /\ req[r].pc \in {"countItems", "createItem", "setBooked", "updateItem", "readItems",
                    "setDerived"} => p \in Cleared
  /\ At(r, "countItems") => req[r].line = 0
  /\ At(r, "createItem") => /\ req[r].line < proposal[p].terms.lines
                            /\ \A n \in 1 .. req[r].line : <<p, n>> \in Opened
  /\ At(r, "setBooked") => \A n \in 1 .. proposal[p].terms.lines : <<p, n>> \in Opened
  /\ At(r, "updateItem") => /\ req[r].item \in Items /\ item[req[r].item].status # Absent
                            /\ req[r].status \in ItemStatus \cup {None}
  /\ At(r, "setDerived") => req[r].status \in {"FULFILLING", "COMPLETED"}

DocumentsTyped ==
  /\ quotation \in [Quotations -> QuotationDoc]
  /\ proposal \in [Proposals -> ProposalDoc]
  /\ item \in [Items -> ItemDoc]

DocumentsInv ==
  /\ DocumentsTyped
  /\ QuotationInv
  /\ ProposalInv
  /\ ItemInv
  /\ BookedCoversSnapshot

\* The inductive invariant.
FlowInv ==
  /\ DocumentsInv
  /\ req \in [Requests -> Request]
  /\ \A r \in Requests : Carries(r)

\* Documents are never deleted, what they froze stays, and what was accepted or cleared
\* once stays so.
Grows ==
  /\ \A q \in Quotations :
       /\ quotation[q].terms # None => quotation'[q].terms = quotation[q].terms
       /\ quotation[q].acceptedAt => quotation'[q].acceptedAt
  /\ \A p \in Proposals :
       /\ Exists(p) => /\ Exists(p)'
                       /\ proposal'[p].quotation = proposal[p].quotation
                       /\ proposal'[p].terms = proposal[p].terms
       /\ p \in Cleared => p \in Cleared'
  /\ \A i \in Items : item[i].status # Absent =>
       /\ item'[i].status # Absent
       /\ item'[i].proposal = item[i].proposal
       /\ item'[i].line = item[i].line

-----------------------------------------------------------------------------
(* What growth preserves *)

LEMMA OpenedGrows == ASSUME Grows PROVE Opened \subseteq Opened'
<1> SUFFICES ASSUME NEW i \in Items, item[i].status # Absent
             PROVE  <<item[i].proposal, item[i].line>> \in Opened'
  BY DEF Opened
<1>1. /\ item'[i].status # Absent
      /\ <<item'[i].proposal, item'[i].line>> = <<item[i].proposal, item[i].line>>
  BY DEF Grows
<1>2. QED
  BY <1>1 DEF Opened

\* A cleared proposal exists.
LEMMA ClearedExist == \A p \in Cleared : p \in Proposals /\ Exists(p)
  BY DEF Cleared, Exists

LEMMA CarriesOn ==
  ASSUME QuotationInv, Grows, NEW r \in Requests, Carries(r), req'[r] = req[r]
  PROVE  Carries(r)'
<1>1. /\ \A x : At(r, x)' <=> At(r, x)
      /\ \A p, n : <<p, n>> \in Opened => <<p, n>> \in Opened'
  BY OpenedGrows DEF At
<1> DEFINE q == req[r].quotation
           p == req[r].proposal
<1>2. At(r, "transition") =>
        /\ q \in Quotations /\ quotation'[q].terms # None
        /\ req[r].status \in {"SENT", "ACCEPTED", "REJECTED"}
  BY DEF Carries, Grows
<1>3. At(r, "convert") =>
        q \in Quotations /\ quotation'[q].acceptedAt /\ req[r].terms = quotation'[q].terms
  BY DEF Carries, Grows, QuotationInv, QuotationSound
<1>4. At(r, "markConverted") =>
        q \in Quotations /\ p \in Proposals /\ Exists(p)' /\ proposal'[p].quotation = q
  BY DEF Carries, Grows
<1>5. At(r, "setReady") => p \in Proposals /\ Exists(p)' /\ Ready(proposal'[p].terms)
  BY DEF Carries, Grows
<1>6. p \in Cleared => p \in Cleared' /\ proposal'[p].terms = proposal[p].terms
  BY ClearedExist DEF Grows
<1>7. At(r, "updateItem") => req[r].item \in Items /\ item'[req[r].item].status # Absent
  BY DEF Carries, Grows
<1>8. QED
  BY <1>1, <1>2, <1>3, <1>4, <1>5, <1>6, <1>7 DEF Carries, At

-----------------------------------------------------------------------------
(* The writes of the documents, one by one: each keeps what is known of the *)
(* documents, lets them grow, and is one step of the contract book or none. *)

Growing == DocumentsInv' /\ Grows

LEMMA KeptDocuments ==
  ASSUME DocumentsInv, UNCHANGED <<quotation, proposal, item>>
  PROVE  Growing /\ UNCHANGED Contracts!vars
<1>1. DocumentsInv'
  BY DEF DocumentsInv, DocumentsTyped, QuotationInv, QuotationSound, ProposalInv, ItemInv,
     BookedCoversSnapshot, Exists, Cleared, Opened
<1>2. Grows
  BY DEF Grows, Exists, Cleared
<1>3. UNCHANGED Contracts!vars
  BY DEF Contracts!vars, Offer, Agreed, Contract, Cleared, Opened, Exists
<1>4. QED
  BY <1>1, <1>2, <1>3 DEF Growing

\* What holds of proposals and items is kept when only quotations grow.
LEMMA QuotationWriteKeeps ==
  ASSUME DocumentsInv, UNCHANGED <<proposal, item>>, quotation' \in [Quotations -> QuotationDoc],
         QuotationInv',
         \A q \in Quotations :
           /\ quotation[q].terms # None => quotation'[q].terms = quotation[q].terms
           /\ quotation[q].acceptedAt => quotation'[q].acceptedAt
  PROVE  Growing
<1>1. Grows
  BY DEF Grows, Exists, Cleared
<1>2. ProposalInv'
  BY DEF DocumentsInv, ProposalInv, QuotationInv, QuotationSound, Exists
<1>3. ItemInv' /\ BookedCoversSnapshot' /\ DocumentsTyped'
  BY DEF DocumentsInv, DocumentsTyped, ItemInv, BookedCoversSnapshot, Cleared, Opened
<1>4. QED
  BY <1>1, <1>2, <1>3 DEF Growing, DocumentsInv

LEMMA IssueGrows ==
  ASSUME DocumentsInv, NEW q \in Quotations, NEW t \in Terms, Issue(q, t)
  PROVE  Growing /\ Contracts!Issue(q, t)
<1> DEFINE d == [status |-> "DRAFT", terms |-> t, acceptedAt |-> FALSE, converted |-> None]
<1> USE DEF DocumentsInv, DocumentsTyped
<1>1. quotation' = [quotation EXCEPT ![q] = d] /\ UNCHANGED <<proposal, item>>
  BY DEF Issue
<1>2. d \in QuotationDoc /\ t # None
  BY ConstantsOK DEF QuotationDoc, QuotationStatus
<1>3. quotation[q].terms = None /\ ~quotation[q].acceptedAt
  BY DEF Issue, QuotationInv, QuotationSound
<1>4. quotation' \in [Quotations -> QuotationDoc]
  BY <1>1, <1>2
<1>5. quotation'[q] = d /\ \A x \in Quotations \ {q} : quotation'[x] = quotation[x]
  BY <1>1
<1>6. QuotationInv'
  <2>1. QuotationSound(q)'
    BY <1>2, <1>5 DEF QuotationSound, Absent
  <2>2. ASSUME NEW x \in Quotations, x # q
        PROVE  QuotationSound(x)'
    BY <1>1, <1>5, <2>2 DEF QuotationInv, QuotationSound, Exists
  <2>3. QED
    BY <2>1, <2>2 DEF QuotationInv
<1>7. Growing
  BY <1>1, <1>3, <1>4, <1>5, <1>6, QuotationWriteKeeps
<1>8. Offer' = [Offer EXCEPT ![q] = t] /\ Offer[q] = None
  BY <1>1, <1>3, <1>5 DEF Offer
<1>9. Agreed' = Agreed
  BY <1>3, <1>5 DEF Agreed
<1>10. Contract' = Contract /\ Cleared' = Cleared /\ Opened' = Opened
  BY <1>1 DEF Contract, Cleared, Opened, Exists
<1>11. QED
  BY <1>7, <1>8, <1>9, <1>10 DEF Contracts!Issue

\* A transition overwrites whatever the status has become, but the terms stay and so
\* does an acceptance once recorded.
LEMMA TransitionGrows ==
  ASSUME FlowInv, NEW r \in Requests, TransitionWrite(r)
  PROVE  Growing /\ [Contracts!Next]_Contracts!vars
<1> USE DEF FlowInv, DocumentsInv, DocumentsTyped
<1>1. PICK q \in Quotations, to \in {"SENT", "ACCEPTED", "REJECTED"} :
        /\ q = req[r].quotation /\ to = req[r].status /\ quotation[q].terms # None
  BY DEF TransitionWrite, Carries
<1> DEFINE d == [quotation[q] EXCEPT !.status = to, !.acceptedAt = @ \/ to = "ACCEPTED"]
<1>2. UNCHANGED <<proposal, item>>
  BY DEF TransitionWrite
<1>3. quotation' = [quotation EXCEPT ![q] = d]
  BY <1>1 DEF TransitionWrite
<1>4. d \in QuotationDoc
  BY DEF QuotationDoc, QuotationStatus
<1>5. /\ d.status = to /\ d.terms = quotation[q].terms /\ d.converted = quotation[q].converted
      /\ d.acceptedAt = (quotation[q].acceptedAt \/ to = "ACCEPTED")
  BY DEF QuotationDoc
<1> HIDE DEF d
<1>6. quotation'[q] = d /\ \A x \in Quotations \ {q} : quotation'[x] = quotation[x]
  BY <1>3
<1>7. QuotationInv'
  <2>1. QuotationSound(q)'
    BY <1>1, <1>2, <1>5, <1>6 DEF QuotationInv, QuotationSound, Absent, Exists
  <2>2. ASSUME NEW x \in Quotations, x # q
        PROVE  QuotationSound(x)'
    BY <1>2, <1>6, <2>2 DEF QuotationInv, QuotationSound, Exists
  <2>3. QED
    BY <2>1, <2>2 DEF QuotationInv
<1>8. Growing
  <2>1. quotation' \in [Quotations -> QuotationDoc]
    BY <1>3, <1>4
  <2>2. \A x \in Quotations :
          /\ quotation[x].terms # None => quotation'[x].terms = quotation[x].terms
          /\ quotation[x].acceptedAt => quotation'[x].acceptedAt
    BY <1>5, <1>6
  <2>3. QED
    BY <1>2, <1>7, <2>1, <2>2, QuotationWriteKeeps
<1>9. Offer' = Offer
  <2>1. \A x \in Quotations : quotation'[x].terms = quotation[x].terms
    BY <1>5, <1>6
  <2>2. QED
    BY <2>1 DEF Offer
<1>10. Agreed' = IF to = "ACCEPTED" THEN Agreed \cup {q} ELSE Agreed
  BY <1>5, <1>6 DEF Agreed
<1>11. Contract' = Contract /\ Cleared' = Cleared /\ Opened' = Opened
  BY <1>2 DEF Contract, Cleared, Opened, Exists
<1>12. CASE to = "ACCEPTED"
  <2>1. Contracts!Agree(q)
    BY <1>1, <1>9, <1>10, <1>11, <1>12 DEF Contracts!Agree, Offer
  <2>2. QED
    BY <1>8, <2>1 DEF Contracts!Next
<1>13. CASE to # "ACCEPTED"
  BY <1>8, <1>9, <1>10, <1>11, <1>13 DEF Contracts!vars
<1>14. QED
  BY <1>12, <1>13

LEMMA MarkConvertedGrows ==
  ASSUME FlowInv, NEW r \in Requests, MarkConverted(r)
  PROVE  Growing /\ UNCHANGED Contracts!vars
<1> USE DEF FlowInv, DocumentsInv, DocumentsTyped
<1>1. PICK q \in Quotations, p \in Proposals :
        /\ q = req[r].quotation /\ p = req[r].proposal
        /\ Exists(p) /\ proposal[p].quotation = q
  BY DEF MarkConverted, Carries
<1> DEFINE d == [quotation[q] EXCEPT !.converted = p]
<1>2. quotation' = [quotation EXCEPT ![q] = d] /\ UNCHANGED <<proposal, item>>
  BY <1>1 DEF MarkConverted
<1>3. d \in QuotationDoc
  BY DEF QuotationDoc
<1>4. /\ d.status = quotation[q].status /\ d.terms = quotation[q].terms
      /\ d.acceptedAt = quotation[q].acceptedAt /\ d.converted = p
  BY DEF QuotationDoc
<1> HIDE DEF d
<1>5. quotation'[q] = d /\ \A x \in Quotations \ {q} : quotation'[x] = quotation[x]
  BY <1>2
<1>6. QuotationInv'
  <2>1. QuotationSound(q)'
    BY <1>1, <1>2, <1>4, <1>5 DEF QuotationInv, QuotationSound, Exists
  <2>2. ASSUME NEW x \in Quotations, x # q
        PROVE  QuotationSound(x)'
    BY <1>2, <1>5, <2>2 DEF QuotationInv, QuotationSound, Exists
  <2>3. QED
    BY <2>1, <2>2 DEF QuotationInv
<1>7. \A x \in Quotations : /\ quotation'[x].terms = quotation[x].terms
                            /\ quotation'[x].acceptedAt = quotation[x].acceptedAt
  BY <1>4, <1>5
<1>8. Growing
  <2>1. quotation' \in [Quotations -> QuotationDoc]
    BY <1>2, <1>3
  <2>2. QED
    BY <1>2, <1>6, <1>7, <2>1, QuotationWriteKeeps
<1>9. Offer' = Offer /\ Agreed' = Agreed
  BY <1>7 DEF Offer, Agreed
<1>10. Contract' = Contract /\ Cleared' = Cleared /\ Opened' = Opened
  BY <1>2 DEF Contract, Cleared, Opened, Exists
<1>11. QED
  BY <1>8, <1>9, <1>10 DEF Contracts!vars

\* What holds of quotations, items and the other proposals is kept when one proposal is
\* inserted or changes its booking status.
LEMMA ProposalWriteKeeps ==
  ASSUME DocumentsInv, NEW p \in Proposals, NEW d \in ProposalDoc,
         proposal' = [proposal EXCEPT ![p] = d], UNCHANGED <<quotation, item>>,
         d.booking # Absent,
         Exists(p) => d.quotation = proposal[p].quotation /\ d.terms = proposal[p].terms,
         p \in Cleared => d.booking # "NOT_READY",
         \E q \in Quotations : /\ d.quotation = q /\ quotation[q].acceptedAt
                               /\ d.terms = quotation[q].terms,
         d.booking = "BOOKED" => \A n \in 1 .. d.terms.lines : <<p, n>> \in Opened
  PROVE  Growing /\ Offer' = Offer /\ Agreed' = Agreed /\ Opened' = Opened
<1> USE DEF DocumentsInv, DocumentsTyped
<1>1. /\ proposal'[p] = d
      /\ \A x \in Proposals \ {p} : /\ proposal'[x] = proposal[x]
                                    /\ Exists(x)' <=> Exists(x)
                                    /\ x \in Cleared' <=> x \in Cleared
  BY DEF Exists, Cleared
<1>2. Exists(p)' /\ (p \in Cleared => p \in Cleared')
  BY <1>1 DEF Exists, Cleared
<1>3. Opened' = Opened /\ Offer' = Offer /\ Agreed' = Agreed
  BY DEF Opened, Offer, Agreed
<1>4. QuotationInv'
  BY <1>1, <1>2 DEF QuotationInv, QuotationSound
<1>5. ProposalInv'
  BY <1>1 DEF ProposalInv
<1>6. ItemInv'
  <2>1. \A x \in Cleared : x \in Cleared' /\ proposal'[x].terms = proposal[x].terms
    BY <1>1, <1>2, ClearedExist
  <2>2. QED
    BY <2>1 DEF ItemInv
<1>7. BookedCoversSnapshot'
  BY <1>1, <1>3 DEF BookedCoversSnapshot
<1>8. Grows
  BY <1>1, <1>2 DEF Grows
<1>9. DocumentsTyped'
  OBVIOUS
<1>10. QED
  BY <1>3, <1>4, <1>5, <1>6, <1>7, <1>8, <1>9 DEF Growing

\* The insert of a proposal signs the terms of an accepted quotation.
LEMMA ConvertCreateGrows ==
  ASSUME FlowInv, NEW r \in Requests, NEW p \in Proposals, ~Exists(p),
         At(r, "convert"), UNCHANGED <<quotation, item>>,
         proposal' = [proposal EXCEPT ![p] = [quotation |-> req[r].quotation,
                                              terms |-> req[r].terms,
                                              booking |-> "NOT_READY"]]
  PROVE  Growing /\ Contracts!Next /\ Exists(p)' /\ proposal'[p].quotation = req[r].quotation
<1> USE DEF FlowInv, DocumentsInv, DocumentsTyped
<1>1. PICK q \in Quotations :
        q = req[r].quotation /\ quotation[q].acceptedAt /\ req[r].terms = quotation[q].terms
  BY DEF Carries
<1> DEFINE d == [quotation |-> q, terms |-> quotation[q].terms, booking |-> "NOT_READY"]
<1>2. proposal' = [proposal EXCEPT ![p] = d] /\ p \notin Cleared
  BY <1>1 DEF Exists, Cleared
<1>3. quotation[q].terms # None /\ quotation[q].terms \in Terms \cup {None}
  BY <1>1 DEF QuotationInv, QuotationSound, QuotationDoc
<1>4. d \in ProposalDoc
  BY <1>3 DEF ProposalDoc, BookingStatus
<1>5. /\ d.quotation = q /\ d.terms = quotation[q].terms /\ d.booking = "NOT_READY"
      /\ d.booking # Absent
  BY DEF Absent
<1> HIDE DEF d
<1>6. Growing /\ Offer' = Offer /\ Agreed' = Agreed /\ Opened' = Opened
  BY <1>1, <1>2, <1>4, <1>5, ProposalWriteKeeps
<1>7. /\ proposal'[p] = d /\ \A x \in Proposals \ {p} : proposal'[x] = proposal[x]
  BY <1>2
<1>8. Exists(p)' /\ proposal'[p].quotation = req[r].quotation
  BY <1>1, <1>5, <1>7 DEF Exists
<1>9. Cleared' = Cleared
  BY <1>2, <1>5, <1>7 DEF Cleared
<1>10. Contract[p] = None /\ Contract' = [Contract EXCEPT ![p] = [quotation |-> q, terms |-> Offer[q]]]
  <2>1. \A x \in Proposals : Contract'[x] = IF x = p THEN [quotation |-> q, terms |-> Offer[q]]
                                                   ELSE Contract[x]
    BY <1>5, <1>7, <1>8 DEF Contract, Offer, Exists
  <2>2. QED
    BY <2>1 DEF Contract
<1>11. Contracts!Sign(p, q)
  BY <1>1, <1>6, <1>9, <1>10 DEF Contracts!Sign, Agreed
<1>12. QED
  BY <1>6, <1>8, <1>11 DEF Contracts!Next

\* A write of the booking status to a proposal that is, or may be, cleared.
LEMMA BookingWriteGrows ==
  ASSUME DocumentsInv, NEW p \in Proposals, Exists(p), NEW b \in BookingStatus \ {"NOT_READY"},
         proposal' = [proposal EXCEPT ![p].booking = b], UNCHANGED <<quotation, item>>,
         p \in Cleared \/ Ready(proposal[p].terms),
         b = "BOOKED" => \A n \in 1 .. proposal[p].terms.lines : <<p, n>> \in Opened
  PROVE  Growing /\ [Contracts!Next]_Contracts!vars
<1> USE DEF DocumentsInv, DocumentsTyped
<1> DEFINE d == [proposal[p] EXCEPT !.booking = b]
<1>1. d \in ProposalDoc /\ d.booking = b /\ d.quotation = proposal[p].quotation
      /\ d.terms = proposal[p].terms
  BY DEF ProposalDoc
<1>2. proposal' = [proposal EXCEPT ![p] = d]
  OBVIOUS
<1> HIDE DEF d
<1>3. b # Absent
  BY DEF BookingStatus, Absent
<1>4. \E q \in Quotations : /\ d.quotation = q /\ quotation[q].acceptedAt
                            /\ d.terms = quotation[q].terms
  BY <1>1 DEF ProposalInv
<1>5. Growing /\ Offer' = Offer /\ Agreed' = Agreed /\ Opened' = Opened
  BY <1>1, <1>2, <1>3, <1>4, ProposalWriteKeeps
<1>6. proposal'[p] = d /\ \A x \in Proposals \ {p} : proposal'[x] = proposal[x]
  BY <1>2
<1>7. Contract' = Contract
  BY <1>1, <1>3, <1>6 DEF Contract, Exists
<1>8. Cleared' = Cleared \cup {p}
  BY <1>1, <1>3, <1>6 DEF Cleared
<1>9. CASE p \in Cleared
  BY <1>5, <1>7, <1>8, <1>9 DEF Contracts!vars
<1>10. CASE Ready(proposal[p].terms)
  <2>1. Contract[p] = [quotation |-> proposal[p].quotation, terms |-> proposal[p].terms]
    BY DEF Contract
  <2>2. proposal[p].quotation \in Quotations /\ proposal[p].terms \in Terms
    BY DEF ProposalInv, QuotationInv, QuotationSound, QuotationDoc
  <2>3. Contract[p] # None /\ Contract[p].terms = proposal[p].terms
    BY <2>1, <2>2, ConstantsOK
  <2>4. Contracts!Clear(p)
    BY <1>5, <1>7, <1>8, <1>10, <2>3 DEF Contracts!Clear
  <2>5. QED
    BY <1>5, <2>4 DEF Contracts!Next
<1>11. QED
  BY <1>9, <1>10

\* A new item opens its line, and belongs to a proposal cleared for booking.
LEMMA CreateItemGrows ==
  ASSUME DocumentsInv, NEW p \in Cleared, NEW n \in 1 .. proposal[p].terms.lines,
         NEW i \in Items, item[i].status = Absent,
         item' = [item EXCEPT ![i] = [proposal |-> p, line |-> n, status |-> "PENDING"]],
         UNCHANGED <<quotation, proposal>>
  PROVE  Growing /\ Contracts!Next /\ Opened' = Opened \cup {<<p, n>>}
<1> USE DEF DocumentsInv, DocumentsTyped
<1>1. p \in Proposals /\ Exists(p) /\ Contract[p] # None
      /\ Contract[p].terms.lines = proposal[p].terms.lines /\ n \in Nat
  <2>1. p \in Proposals /\ Exists(p)
    BY ClearedExist
  <2>2. proposal[p].quotation \in Quotations /\ proposal[p].terms \in Terms
    BY <2>1 DEF ProposalInv, QuotationInv, QuotationSound, QuotationDoc
  <2>3. Contract[p] = [quotation |-> proposal[p].quotation, terms |-> proposal[p].terms]
    BY <2>1 DEF Contract
  <2>4. proposal[p].terms.lines \in Nat
    BY <2>2, ConstantsOK DEF TermsOK
  <2>5. QED
    BY <2>1, <2>2, <2>3, <2>4, ConstantsOK
<1>2. /\ item'[i] = [proposal |-> p, line |-> n, status |-> "PENDING"]
      /\ \A x \in Items \ {i} : item'[x] = item[x]
  OBVIOUS
<1>3. item'[i].proposal = p /\ item'[i].line = n /\ item'[i].status = "PENDING"
      /\ item'[i].status # Absent
  BY <1>2 DEF Absent
<1>4. Offer' = Offer /\ Agreed' = Agreed /\ Contract' = Contract /\ Cleared' = Cleared
  BY DEF Offer, Agreed, Contract, Cleared, Exists
<1>5. Opened' = Opened \cup {<<p, n>>}
  BY <1>2, <1>3 DEF Opened
<1>6. Growing
  <2>1. QuotationInv' /\ ProposalInv'
    BY DEF QuotationInv, QuotationSound, ProposalInv, Exists
  <2>2. ItemInv'
    BY <1>2, <1>3, <1>4 DEF ItemInv
  <2>3. BookedCoversSnapshot'
    BY <1>5 DEF BookedCoversSnapshot
  <2>4. DocumentsTyped'
    BY <1>1 DEF ItemDoc, ItemStatus
  <2>5. Grows
    BY <1>2, <1>4 DEF Grows, Exists
  <2>6. QED
    BY <2>1, <2>2, <2>3, <2>4, <2>5 DEF Growing
<1>7. Contracts!Open(p, n)
  BY <1>4, <1>5 DEF Contracts!Open
<1>8. n \in Contracts!Lines(p)
  BY <1>1 DEF Contracts!Lines
<1>9. QED
  BY <1>1, <1>5, <1>6, <1>7, <1>8 DEF Contracts!Next

\* An item's new status changes nothing else.
LEMMA UpdateItemGrows ==
  ASSUME DocumentsInv, NEW i \in Items, item[i].status # Absent, NEW s \in ItemStatus,
         item' = [item EXCEPT ![i].status = s], UNCHANGED <<quotation, proposal>>
  PROVE  Growing /\ UNCHANGED Contracts!vars
<1> USE DEF DocumentsInv, DocumentsTyped
<1>1. \A x \in Items : /\ item'[x].proposal = item[x].proposal
                       /\ item'[x].line = item[x].line
                       /\ item'[x].status # Absent <=> item[x].status # Absent
  BY DEF ItemDoc, ItemStatus, Absent
<1>2. Offer' = Offer /\ Agreed' = Agreed /\ Contract' = Contract /\ Cleared' = Cleared
  BY DEF Offer, Agreed, Contract, Cleared, Exists
<1>3. Opened' = Opened
  BY <1>1 DEF Opened
<1>4. QuotationInv' /\ ProposalInv'
  BY DEF QuotationInv, QuotationSound, ProposalInv, Exists
<1>5. ItemInv'
  BY <1>1, <1>2 DEF ItemInv
<1>6. BookedCoversSnapshot'
  BY <1>3 DEF BookedCoversSnapshot
<1>7. DocumentsTyped'
  BY DEF ItemDoc
<1>8. Grows
  BY <1>1, <1>2 DEF Grows, Exists
<1>9. QED
  BY <1>2, <1>3, <1>4, <1>5, <1>6, <1>7, <1>8 DEF Growing, Contracts!vars

-----------------------------------------------------------------------------
(* The requests, one step at a time *)

\* Request r moves on, to a point where it knows what it must.
Advances(r) ==
  /\ req' \in [Requests -> Request]
  /\ \A x \in Requests \ {r} : req'[x] = req[x]
  /\ Carries(r)'

LEMMA StepKeepsFlowInv ==
  ASSUME FlowInv, NEW r \in Requests, Growing, Advances(r)
  PROVE  FlowInv'
<1>1. \A x \in Requests \ {r} : Carries(x)'
  BY CarriesOn DEF FlowInv, DocumentsInv, Growing, Advances
<1>2. QED
  BY <1>1 DEF FlowInv, Growing, Advances

LEMMA IdleRequest == Idle \in Request
  BY DEF Idle, Request, Points

LEMMA ReturnAdvances == ASSUME FlowInv, NEW r \in Requests, Return(r) PROVE Advances(r)
<1>1. req' \in [Requests -> Request] /\ \A x \in Requests \ {r} : req'[x] = req[x]
  BY IdleRequest DEF FlowInv, Return
<1>2. req'[r].pc = "idle"
  BY DEF FlowInv, Return, Idle
<1>3. QED
  BY <1>1, <1>2 DEF Advances, Carries, At

\* A request begins with what it read.
LEMMA TransitionReadAdvances ==
  ASSUME FlowInv, NEW r \in Requests, NEW q \in Quotations,
         NEW to \in {"SENT", "ACCEPTED", "REJECTED"}, TransitionRead(r, q, to)
  PROVE  Advances(r)
<1> DEFINE c == [Idle EXCEPT !.pc = "transition", !.quotation = q, !.status = to]
<1>1. req' = [req EXCEPT ![r] = c]
  BY DEF TransitionRead, Begin
<1>2. c \in Request /\ c.pc = "transition" /\ c.quotation = q /\ c.status = to
  BY DEF Idle, Request, Points, QuotationStatus
<1> HIDE DEF c
<1>3. quotation'[q].terms # None
  <2>1. quotation[q].status # Absent
    BY DEF TransitionRead, From, Absent
  <2>2. QED
    BY <2>1 DEF TransitionRead, FlowInv, DocumentsInv, QuotationInv, QuotationSound
<1>4. req'[r] = c /\ req' \in [Requests -> Request] /\ \A x \in Requests \ {r} : req'[x] = req[x]
  BY <1>1, <1>2 DEF FlowInv
<1>5. Carries(r)'
  BY <1>2, <1>3, <1>4 DEF Carries, At
<1>6. QED
  BY <1>4, <1>5 DEF Advances

LEMMA ConvertReadAdvances ==
  ASSUME FlowInv, NEW r \in Requests, NEW q \in Quotations, ConvertRead(r, q)
  PROVE  Advances(r)
<1> DEFINE c == [Idle EXCEPT !.pc = "convert", !.quotation = q, !.terms = quotation[q].terms]
<1>1. req' = [req EXCEPT ![r] = c]
  BY DEF ConvertRead, Begin
<1>2. quotation[q].terms \in Terms \cup {None}
  BY DEF FlowInv, DocumentsInv, DocumentsTyped, QuotationDoc
<1>3. c \in Request /\ c.pc = "convert" /\ c.quotation = q /\ c.terms = quotation[q].terms
  BY <1>2 DEF Idle, Request, Points
<1> HIDE DEF c
<1>4. quotation'[q].acceptedAt /\ c.terms = quotation'[q].terms
  BY <1>3 DEF ConvertRead, FlowInv, DocumentsInv, QuotationInv, QuotationSound
<1>5. req'[r] = c /\ req' \in [Requests -> Request] /\ \A x \in Requests \ {r} : req'[x] = req[x]
  BY <1>1, <1>3 DEF FlowInv
<1>6. Carries(r)'
  BY <1>3, <1>4, <1>5 DEF Carries, At
<1>7. QED
  BY <1>5, <1>6 DEF Advances

LEMMA CheckReadinessReadAdvances ==
  ASSUME FlowInv, NEW r \in Requests, NEW p \in Proposals, CheckReadinessRead(r, p)
  PROVE  Advances(r)
<1> DEFINE c == [Idle EXCEPT !.pc = "setReady", !.proposal = p]
<1>1. req' = [req EXCEPT ![r] = c]
  BY DEF CheckReadinessRead, Begin
<1>2. c \in Request /\ c.pc = "setReady" /\ c.proposal = p
  BY DEF Idle, Request, Points
<1> HIDE DEF c
<1>3. Exists(p)' /\ Ready(proposal'[p].terms)
  BY DEF CheckReadinessRead, Exists, Absent
<1>4. req'[r] = c /\ req' \in [Requests -> Request] /\ \A x \in Requests \ {r} : req'[x] = req[x]
  BY <1>1, <1>2 DEF FlowInv
<1>5. Carries(r)'
  BY <1>2, <1>3, <1>4 DEF Carries, At
<1>6. QED
  BY <1>4, <1>5 DEF Advances

LEMMA BookReadAdvances ==
  ASSUME FlowInv, NEW r \in Requests, NEW p \in Proposals, BookRead(r, p)
  PROVE  Advances(r)
<1> DEFINE c == [Idle EXCEPT !.pc = "countItems", !.proposal = p]
<1>1. req' = [req EXCEPT ![r] = c]
  BY DEF BookRead, Begin
<1>2. c \in Request /\ c.pc = "countItems" /\ c.proposal = p /\ c.line = 0
  BY DEF Idle, Request, Points
<1> HIDE DEF c
<1>3. p \in Cleared'
  BY DEF BookRead, Cleared, Absent
<1>4. req'[r] = c /\ req' \in [Requests -> Request] /\ \A x \in Requests \ {r} : req'[x] = req[x]
  BY <1>1, <1>2 DEF FlowInv
<1>5. Carries(r)'
  BY <1>2, <1>3, <1>4 DEF Carries, At
<1>6. QED
  BY <1>4, <1>5 DEF Advances

LEMMA UpdateItemReadAdvances ==
  ASSUME FlowInv, NEW r \in Requests, NEW i \in Items, UpdateItemRead(r, i)
  PROVE  Advances(r)
<1>1. PICK s \in ItemUpdates :
        req' = [req EXCEPT ![r] =
          [Idle EXCEPT !.pc = "updateItem", !.proposal = item[i].proposal, !.item = i,
                       !.status = s, !.seen = proposal[item[i].proposal].booking]]
  BY DEF UpdateItemRead, Begin
<1>2. PICK p \in Cleared : p = item[i].proposal
  BY DEF UpdateItemRead, FlowInv, DocumentsInv, ItemInv
<1> DEFINE c == [Idle EXCEPT !.pc = "updateItem", !.proposal = p, !.item = i, !.status = s,
                             !.seen = proposal[p].booking]
<1>3. req' = [req EXCEPT ![r] = c]
  BY <1>1, <1>2
<1>4. p \in Proposals /\ proposal[p].booking \in BookingStatus /\ s \in ItemStatus \cup {None}
  BY ClearedExist, ConstantsOK DEF FlowInv, DocumentsInv, DocumentsTyped, ProposalDoc, Exists
<1>5. c \in Request /\ c.pc = "updateItem" /\ c.proposal = p /\ c.item = i /\ c.status = s
  BY <1>4 DEF Idle, Request, Points
<1> HIDE DEF c
<1>6. p \in Cleared' /\ item'[i].status # Absent
  BY DEF UpdateItemRead, Cleared
<1>7. req'[r] = c /\ req' \in [Requests -> Request] /\ \A x \in Requests \ {r} : req'[x] = req[x]
  BY <1>3, <1>5 DEF FlowInv
<1>8. Carries(r)'
  BY <1>4, <1>5, <1>6, <1>7 DEF Carries, At
<1>9. QED
  BY <1>7, <1>8 DEF Advances

-----------------------------------------------------------------------------
(* Every step of a request is sound: the documents grow, the request knows  *)
(* what it must at its next point, and the contract book is followed.       *)

Sound(r) == Growing /\ Advances(r) /\ [Contracts!Next]_Contracts!vars

LEMMA ArriveSound ==
  ASSUME FlowInv, NEW r \in Requests, Arrive(r)
  PROVE  Sound(r)
<1>1. Growing /\ UNCHANGED Contracts!vars
  BY KeptDocuments DEF FlowInv, Arrive, TransitionRead, ConvertRead, CheckReadinessRead, BookRead,
     UpdateItemRead
<1>2. Advances(r)
  BY TransitionReadAdvances, ConvertReadAdvances, CheckReadinessReadAdvances, BookReadAdvances,
     UpdateItemReadAdvances DEF Arrive
<1>3. QED
  BY <1>1, <1>2 DEF Sound

LEMMA ConvertCreateSound ==
  ASSUME FlowInv, NEW r \in Requests, ConvertCreate(r)
  PROVE  Sound(r)
<1>1. PICK p \in Proposals :
        /\ ~Exists(p) /\ At(r, "convert")
        /\ proposal' = [proposal EXCEPT ![p] = [quotation |-> req[r].quotation,
                                                terms |-> req[r].terms,
                                                booking |-> "NOT_READY"]]
        /\ req' = [req EXCEPT ![r].pc = "markConverted", ![r].proposal = p]
  BY DEF ConvertCreate
<1>2. Growing /\ Contracts!Next /\ Exists(p)' /\ proposal'[p].quotation = req[r].quotation
  BY <1>1, ConvertCreateGrows DEF ConvertCreate
<1> DEFINE c == [req[r] EXCEPT !.pc = "markConverted", !.proposal = p]
<1>3. req' = [req EXCEPT ![r] = c]
  BY <1>1
<1>4. c \in Request /\ c.pc = "markConverted" /\ c.proposal = p /\ c.quotation = req[r].quotation
  BY DEF FlowInv, Request, Points
<1> HIDE DEF c
<1>5. req'[r] = c /\ req' \in [Requests -> Request] /\ \A x \in Requests \ {r} : req'[x] = req[x]
  BY <1>3, <1>4 DEF FlowInv
<1>6. req[r].quotation \in Quotations
  BY <1>1 DEF FlowInv, Carries
<1>7. Carries(r)'
  BY <1>2, <1>4, <1>5, <1>6 DEF Carries, At
<1>8. QED
  BY <1>2, <1>5, <1>7 DEF Sound, Advances

\* Until its items are written a booking has opened the lines before its next one.
LEMMA BookCountSound ==
  ASSUME FlowInv, NEW r \in Requests, BookCount(r)
  PROVE  Sound(r)
<1>1. UNCHANGED <<quotation, proposal, item>>
  BY DEF BookCount
<1>2. Growing /\ UNCHANGED Contracts!vars
  BY <1>1, KeptDocuments DEF FlowInv
<1>3. CASE Return(r)
  BY <1>2, <1>3, ReturnAdvances DEF Sound
<1>4. CASE Goto(r, "createItem")
  <2> DEFINE c == [req[r] EXCEPT !.pc = "createItem"]
             p == req[r].proposal
  <2>1. req' = [req EXCEPT ![r] = c]
    BY <1>4 DEF Goto
  <2>2. c \in Request /\ c.pc = "createItem" /\ c.proposal = p /\ c.line = 0
    BY DEF FlowInv, Request, Points, BookCount, Carries
  <2> HIDE DEF c
  <2>3. req'[r] = c /\ req' \in [Requests -> Request] /\ \A x \in Requests \ {r} : req'[x] = req[x]
    BY <2>1, <2>2 DEF FlowInv
  <2>4. p \in Cleared /\ p \in Cleared' /\ proposal'[p] = proposal[p]
    BY <1>1 DEF FlowInv, Carries, BookCount, At, Cleared
  <2>5. proposal[p].terms \in Terms
    BY <2>4, ClearedExist DEF FlowInv, DocumentsInv, DocumentsTyped, ProposalInv, QuotationInv,
       QuotationSound, QuotationDoc
  <2>6. 0 < proposal[p].terms.lines
    BY <2>5, ConstantsOK DEF TermsOK
  <2>7. Carries(r)'
    BY <2>2, <2>3, <2>4, <2>6 DEF Carries, At
  <2>8. QED
    BY <1>2, <2>3, <2>7 DEF Sound, Advances
<1>5. QED
  BY <1>3, <1>4 DEF BookCount

LEMMA BookCreateItemSound ==
  ASSUME FlowInv, NEW r \in Requests, BookCreateItem(r)
  PROVE  Sound(r)
<1>1. PICK p \in Cleared : p = req[r].proposal
  BY DEF FlowInv, Carries, BookCreateItem, At
<1>2. p \in Proposals /\ proposal[p].terms.lines \in Nat
  <2>1. proposal[p].terms \in Terms
    BY ClearedExist DEF FlowInv, DocumentsInv, DocumentsTyped, ProposalInv, QuotationInv,
       QuotationSound, QuotationDoc
  <2>2. QED
    BY <2>1, ClearedExist, ConstantsOK DEF TermsOK
<1>3. PICK n \in 1 .. proposal[p].terms.lines : n = req[r].line + 1
  BY <1>1, <1>2 DEF FlowInv, Carries, BookCreateItem, Request
<1>4. Growing /\ Contracts!Next /\ Opened' = Opened \cup {<<p, n>>}
  <2>1. PICK i \in Items :
          /\ item[i].status = Absent
          /\ item' = [item EXCEPT ![i] = [proposal |-> p, line |-> n, status |-> "PENDING"]]
    BY <1>1, <1>3 DEF BookCreateItem
  <2>2. QED
    BY <2>1, CreateItemGrows DEF FlowInv, BookCreateItem
<1> DEFINE c == [req[r] EXCEPT !.line = n,
                   !.pc = IF n = proposal[p].terms.lines THEN "setBooked" ELSE "createItem"]
<1>5. req' = [req EXCEPT ![r] = c]
  BY <1>1, <1>3 DEF BookCreateItem, At, FlowInv
<1>6. /\ c \in Request /\ c.proposal = p /\ c.line = n
      /\ c.pc = IF n = proposal[p].terms.lines THEN "setBooked" ELSE "createItem"
  <2>1. /\ req[r] \in Request /\ n \in Nat
        /\ (IF n = proposal[p].terms.lines THEN "setBooked" ELSE "createItem") \in Points
    BY <1>2 DEF FlowInv, Points
  <2> HIDE DEF Points
  <2>2. QED
    BY <1>1, <2>1 DEF Request
<1> HIDE DEF c
<1>7. req'[r] = c /\ req' \in [Requests -> Request] /\ \A x \in Requests \ {r} : req'[x] = req[x]
  BY <1>5, <1>6 DEF FlowInv
<1>8. \A m \in 1 .. n : <<p, m>> \in Opened'
  <2>1. \A m \in 1 .. req[r].line : <<p, m>> \in Opened
    BY <1>1 DEF FlowInv, Carries, BookCreateItem
  <2>2. \A m \in 1 .. n : m = n \/ m \in 1 .. req[r].line
    BY <1>2, <1>3 DEF FlowInv, Request
  <2>3. QED
    BY <1>4, <2>1, <2>2
<1>9. p \in Cleared' /\ proposal'[p] = proposal[p]
  BY DEF BookCreateItem, Cleared
<1>10. Carries(r)'
  BY <1>2, <1>6, <1>7, <1>8, <1>9 DEF Carries, At
<1>11. QED
  BY <1>4, <1>7, <1>10 DEF Sound, Advances

LEMMA UpdateItemWriteSound ==
  ASSUME FlowInv, NEW r \in Requests, UpdateItemWrite(r)
  PROVE  Sound(r)
<1>1. PICK p \in Cleared, i \in Items, s \in ItemStatus \cup {None} :
        p = req[r].proposal /\ i = req[r].item /\ s = req[r].status /\ item[i].status # Absent
  BY DEF FlowInv, Carries, UpdateItemWrite, At
<1>2. Growing /\ UNCHANGED Contracts!vars
  <2>1. CASE s = None
    <3>1. item' = item
      BY <1>1, <2>1 DEF UpdateItemWrite, FlowInv, DocumentsInv, DocumentsTyped, ItemDoc
    <3>2. QED
      BY <3>1, KeptDocuments DEF FlowInv, UpdateItemWrite
  <2>2. CASE s # None
    <3>1. item' = [item EXCEPT ![i].status = s]
      BY <1>1, <2>2 DEF UpdateItemWrite
    <3>2. QED
      BY <1>1, <2>2, <3>1, UpdateItemGrows DEF FlowInv, UpdateItemWrite
  <2>3. QED
    BY <2>1, <2>2
<1> DEFINE c == [req[r] EXCEPT !.pc = "readItems"]
<1>3. req' = [req EXCEPT ![r] = c]
  BY DEF UpdateItemWrite, Goto
<1>4. c \in Request /\ c.pc = "readItems" /\ c.proposal = p
  BY <1>1 DEF FlowInv, Request, Points
<1> HIDE DEF c
<1>5. req'[r] = c /\ req' \in [Requests -> Request] /\ \A x \in Requests \ {r} : req'[x] = req[x]
  BY <1>3, <1>4 DEF FlowInv
<1>6. p \in Cleared'
  BY DEF UpdateItemWrite, Cleared
<1>7. Carries(r)'
  BY <1>4, <1>5, <1>6 DEF Carries, At
<1>8. QED
  BY <1>2, <1>5, <1>7 DEF Sound, Advances

LEMMA DeriveReadSound ==
  ASSUME FlowInv, NEW r \in Requests, DeriveRead(r)
  PROVE  Sound(r)
<1>1. Growing /\ UNCHANGED Contracts!vars
  BY KeptDocuments DEF FlowInv, DeriveRead
<1>2. CASE Return(r)
  BY <1>1, <1>2, ReturnAdvances DEF Sound
<1>3. CASE ~Return(r)
  <2>1. PICK b \in {"FULFILLING", "COMPLETED"} :
          req' = [req EXCEPT ![r].pc = "setDerived", ![r].status = b]
    BY <1>3 DEF DeriveRead, Derived
  <2>2. PICK p \in Cleared : p = req[r].proposal
    BY DEF FlowInv, Carries, DeriveRead, At
  <2> DEFINE c == [req[r] EXCEPT !.pc = "setDerived", !.status = b]
  <2>3. req' = [req EXCEPT ![r] = c]
    BY <2>1
  <2>4. c \in Request /\ c.pc = "setDerived" /\ c.proposal = p /\ c.status = b
    BY <2>2 DEF FlowInv, Request, Points, BookingStatus
  <2> HIDE DEF c
  <2>5. req'[r] = c /\ req' \in [Requests -> Request] /\ \A x \in Requests \ {r} : req'[x] = req[x]
    BY <2>3, <2>4 DEF FlowInv
  <2>6. p \in Cleared'
    BY DEF DeriveRead, Cleared
  <2>7. Carries(r)'
    BY <2>4, <2>5, <2>6 DEF Carries, At
  <2>8. QED
    BY <1>1, <2>5, <2>7 DEF Sound, Advances
<1>4. QED
  BY <1>2, <1>3

\* The three writes of a booking status: each finds the proposal ready or cleared, and
\* only a booking that has opened every line writes BOOKED.
LEMMA BookingWritesSound ==
  ASSUME FlowInv, NEW r \in Requests, CheckReadinessWrite(r) \/ BookWrite(r) \/ DeriveWrite(r)
  PROVE  Sound(r)
<1>1. Return(r) /\ UNCHANGED <<quotation, item>>
  BY DEF CheckReadinessWrite, BookWrite, DeriveWrite
<1>2. PICK p \in Proposals, b \in BookingStatus \ {"NOT_READY"} :
        /\ Exists(p)
        /\ proposal' = [proposal EXCEPT ![p].booking = b]
        /\ p \in Cleared \/ Ready(proposal[p].terms)
        /\ b = "BOOKED" => \A n \in 1 .. proposal[p].terms.lines : <<p, n>> \in Opened
  <2>1. CASE CheckReadinessWrite(r)
    <3>1. PICK p \in Proposals : p = req[r].proposal /\ Exists(p) /\ Ready(proposal[p].terms)
      BY <2>1 DEF CheckReadinessWrite, FlowInv, Carries
    <3>2. proposal' = [proposal EXCEPT ![p].booking = "READY_FOR_BOOKING"]
      BY <2>1, <3>1 DEF CheckReadinessWrite
    <3>3. "READY_FOR_BOOKING" \in BookingStatus \ {"NOT_READY"}
      BY DEF BookingStatus
    <3>4. QED
      BY <3>1, <3>2, <3>3
  <2>2. CASE BookWrite(r)
    <3>1. PICK p \in Cleared : /\ p = req[r].proposal
                               /\ \A n \in 1 .. proposal[p].terms.lines : <<p, n>> \in Opened
      BY <2>2 DEF BookWrite, FlowInv, Carries, At
    <3>2. QED
      BY <2>2, <3>1, ClearedExist DEF BookWrite, BookingStatus
  <2>3. CASE DeriveWrite(r)
    <3>1. /\ req[r].proposal \in Cleared
          /\ req[r].status \in BookingStatus \ {"NOT_READY", "BOOKED"}
      BY <2>3 DEF DeriveWrite, FlowInv, Carries, At, BookingStatus
    <3>2. QED
      BY <2>3, <3>1, ClearedExist DEF DeriveWrite, BookingStatus
  <2>4. QED
    BY <2>1, <2>2, <2>3
<1>3. Growing /\ [Contracts!Next]_Contracts!vars
  BY <1>1, <1>2, BookingWriteGrows DEF FlowInv
<1>4. QED
  BY <1>1, <1>3, ReturnAdvances DEF Sound

LEMMA ProceedSound ==
  ASSUME FlowInv, NEW r \in Requests, Proceed(r)
  PROVE  Sound(r)
<1>1. CASE TransitionWrite(r)
  BY <1>1, TransitionGrows, ReturnAdvances DEF Sound, TransitionWrite
<1>2. CASE MarkConverted(r)
  BY <1>2, MarkConvertedGrows, ReturnAdvances DEF Sound, MarkConverted
<1>3. QED
  BY <1>1, <1>2, ConvertCreateSound, BookCountSound, BookCreateItemSound, UpdateItemWriteSound,
     DeriveReadSound, BookingWritesSound DEF Proceed

-----------------------------------------------------------------------------
(* The theorems *)

LEMMA InitFlowInv == Init => FlowInv /\ Contracts!Init
<1> SUFFICES ASSUME Init
             PROVE  FlowInv /\ Contracts!Init
  OBVIOUS
<1> USE DEF Init
<1>1. DocumentsTyped
  BY DEF DocumentsTyped, QuotationDoc, ProposalDoc, ItemDoc
<1>2. \A p \in Proposals : ~Exists(p)
  BY DEF Exists
<1>3. QuotationInv
  BY DEF QuotationInv, QuotationSound, Absent
<1>4. ProposalInv /\ ItemInv
  BY <1>2 DEF ProposalInv, ItemInv
<1>5. BookedCoversSnapshot
  BY DEF BookedCoversSnapshot, Absent
<1>6. req \in [Requests -> Request]
  BY IdleRequest
<1>7. \A r \in Requests : Carries(r)
  BY DEF Carries, At, Idle
<1>8. Contracts!Init
  BY <1>2 DEF Contracts!Init, Offer, Agreed, Contract, Cleared, Opened
<1>9. QED
  BY <1>1, <1>3, <1>4, <1>5, <1>6, <1>7, <1>8 DEF FlowInv, DocumentsInv

LEMMA StepFlowInv == FlowInv /\ [Next]_vars => FlowInv' /\ [Contracts!Next]_Contracts!vars
<1> SUFFICES ASSUME FlowInv, [Next]_vars
             PROVE  FlowInv' /\ [Contracts!Next]_Contracts!vars
  OBVIOUS
<1>1. ASSUME NEW r \in Requests, Sound(r)
      PROVE  FlowInv' /\ [Contracts!Next]_Contracts!vars
  BY <1>1, StepKeepsFlowInv DEF Sound
<1>2. ASSUME Growing, UNCHANGED req
      PROVE  FlowInv'
  <2>1. \A r \in Requests : Carries(r)'
    BY <1>2, CarriesOn DEF FlowInv, DocumentsInv, Growing
  <2>2. QED
    BY <1>2, <2>1 DEF FlowInv, Growing
<1>3. ASSUME NEW q \in Quotations, NEW t \in Terms, Issue(q, t)
      PROVE  FlowInv' /\ [Contracts!Next]_Contracts!vars
  <2>1. Growing /\ Contracts!Issue(q, t)
    BY <1>3, IssueGrows DEF FlowInv
  <2>2. FlowInv'
    BY <1>2, <1>3, <2>1 DEF Issue
  <2>3. QED
    BY <2>1, <2>2 DEF Contracts!Next
<1>4. ASSUME NEW r \in Requests, Crash(r)
      PROVE  Sound(r)
  BY <1>4, KeptDocuments, ReturnAdvances DEF Crash, Sound, FlowInv
<1>5. CASE UNCHANGED vars
  <2>1. Growing /\ UNCHANGED Contracts!vars
    BY <1>5, KeptDocuments DEF vars, FlowInv
  <2>2. QED
    BY <1>2, <1>5, <2>1 DEF vars
<1>6. QED
  BY <1>1, <1>3, <1>4, <1>5, ArriveSound, ProceedSound DEF Next

\* In every reachable state documents and requests in flight hold values of their schemas,
\* for any number of them.
THEOREM TypeCorrect == Spec => []TypeOK
<1>1. FlowInv => TypeOK
  BY DEF FlowInv, DocumentsInv, DocumentsTyped, TypeOK
<1>2. QED
  BY <1>1, InitFlowInv, StepFlowInv, PTL DEF Spec

\* A proposal shown as BOOKED has an item for every line it sold: overlapping and broken
\* bookings never show a half-done one (book() in commercial-proposals.service.ts).
THEOREM BookedIsCovered == Spec => []BookedCoversSnapshot
<1>1. FlowInv => BookedCoversSnapshot
  BY DEF FlowInv, DocumentsInv
<1>2. QED
  BY <1>1, InitFlowInv, StepFlowInv, PTL DEF Spec

\* A quotation marked converted points to a proposal whose lineage points back, although
\* the proposal and the mark are written by different queries.
THEOREM LinksAlwaysAgree == Spec => []LinksAgree
<1>1. FlowInv => LinksAgree
  BY DEF FlowInv, DocumentsInv, QuotationInv, QuotationSound, LinksAgree
<1>2. QED
  BY <1>1, InitFlowInv, StepFlowInv, PTL DEF Spec

\* The unconditional writes of the handlers follow the contract book: terms never change,
\* contracts carry accepted terms, and work starts on cleared proposals only.
THEOREM ContractsImplemented == Spec => ImplementsContractBook
<1>1. Spec => []FlowInv
  BY InitFlowInv, StepFlowInv, PTL DEF Spec
<1>2. QED
  BY <1>1, InitFlowInv, StepFlowInv, PTL DEF Spec, Contracts!Spec, ImplementsContractBook

-----------------------------------------------------------------------------
(* What overlaps cost: conversions, bookings and item updates check first and write later, *)
(* and no write repeats the check.  These theorems say that nothing but two of the same    *)
(* kind at once on the same document, or a crash where one is named, breaks their promise. *)

\* No proposal comes into being, and each stays with its quotation.
LinksKept ==
  \A p \in Proposals :
    (Exists(p)' <=> Exists(p)) /\ proposal'[p].quotation = proposal[p].quotation

\* A step of request r that starts no write of an item or a proposal but its booking status.
Passive(r) ==
  /\ UNCHANGED item /\ LinksKept
  /\ req'[r].pc \in {"idle", "transition", "setReady", "countItems"}

\* What request r does in a step of its own.
Acts(r) ==
  /\ \A s \in Requests : s # r => req'[s] = req[s]
  /\ \/ Passive(r)
     \/ \E q \in Quotations : ConvertRead(r, q)
     \/ \E i \in Items : UpdateItemRead(r, i)
     \/ ConvertCreate(r)
     \/ BookCount(r) \/ BookCreateItem(r)
     \/ UpdateItemWrite(r) \/ DeriveRead(r)

LEMMA BookingWriteKeepsLinks ==
  ASSUME FlowInv, NEW p \in Proposals, Exists(p), NEW b, b # Absent,
         proposal' = [proposal EXCEPT ![p].booking = b]
  PROVE  LinksKept
  BY DEF LinksKept, Exists, FlowInv, DocumentsInv, DocumentsTyped, ProposalDoc

LEMMA ActsAlone ==
  ASSUME FlowInv, NEW r \in Requests, Arrive(r) \/ Proceed(r) \/ Crash(r)
  PROVE  Acts(r)
<1>1. req \in [Requests -> Request]
  BY DEF FlowInv
<1>2. \A s \in Requests : s # r => req'[s] = req[s]
  BY <1>1 DEF Arrive, TransitionRead, ConvertRead, CheckReadinessRead, BookRead, UpdateItemRead,
     Begin, Proceed, TransitionWrite, ConvertCreate, MarkConverted, CheckReadinessWrite,
     BookCount, BookCreateItem, BookWrite, UpdateItemWrite, DeriveRead, DeriveWrite, Crash,
     Goto, Return
<1>3. Return(r) => req'[r].pc = "idle"
  BY <1>1 DEF Return, Idle
<1>4. UNCHANGED proposal => LinksKept
  BY DEF LinksKept, Exists
<1>5. CASE TransitionWrite(r) \/ MarkConverted(r) \/ Crash(r)
  BY <1>2, <1>3, <1>4, <1>5 DEF TransitionWrite, MarkConverted, Crash, Acts, Passive
<1>6. CASE CheckReadinessWrite(r) \/ BookWrite(r) \/ DeriveWrite(r)
  <2>1. PICK p \in Proposals : p = req[r].proposal /\ Exists(p)
    BY <1>6, ClearedExist DEF FlowInv, Carries, CheckReadinessWrite, BookWrite, DeriveWrite, At
  <2>2. \E b : b # Absent /\ proposal' = [proposal EXCEPT ![p].booking = b]
    BY <1>6, <2>1 DEF CheckReadinessWrite, BookWrite, DeriveWrite, FlowInv, Carries, At, Absent
  <2>3. LinksKept
    BY <2>1, <2>2, BookingWriteKeepsLinks
  <2>4. QED
    BY <1>2, <1>3, <1>6, <2>3 DEF CheckReadinessWrite, BookWrite, DeriveWrite, Acts, Passive
<1>7. CASE Arrive(r)
  <2>1. ASSUME NEW q \in Quotations, NEW to, TransitionRead(r, q, to) PROVE Passive(r)
    BY <1>1, <1>4, <2>1 DEF TransitionRead, Begin, Idle, Passive
  <2>2. ASSUME NEW p \in Proposals, CheckReadinessRead(r, p) \/ BookRead(r, p) PROVE Passive(r)
    BY <1>1, <1>4, <2>2 DEF CheckReadinessRead, BookRead, Begin, Idle, Passive
  <2>3. QED
    BY <1>2, <1>7, <2>1, <2>2 DEF Arrive, Acts
<1>8. QED
  BY <1>2, <1>5, <1>6, <1>7 DEF Proceed, Acts

\* Every step is some request's own, or leaves proposals, items and requests alone.
LEMMA StepActs ==
  ASSUME FlowInv, [Next]_vars
  PROVE  UNCHANGED <<proposal, item, req>> \/ \E r \in Requests : Acts(r)
  BY ActsAlone DEF Next, Issue, vars

-----------------------------------------------------------------------------
(* Conversions *)

Converting(r, q) == req[r].pc \in {"convert", "markConverted"} /\ req[r].quotation = q

OneConversion ==
  \A q \in Quotations : \A r \in Requests, s \in Requests :
    Converting(r, q) /\ Converting(s, q) => r = s

\* No crash has cut a conversion off between the proposal's insert and its link.
NoOrphan ==
  \A p \in Proposals, q \in Quotations : Exists(p) /\ proposal[p].quotation = q =>
    \/ quotation[q].converted # None
    \/ \E r \in Requests : At(r, "markConverted") /\ req[r].proposal = p

\* A request about to insert a proposal inserts the first of its quotation.
ConvertInv ==
  /\ ConvertsOnce
  /\ \A r \in Requests, q \in Quotations : At(r, "convert") /\ req[r].quotation = q =>
       \A p \in Proposals : Exists(p) => proposal[p].quotation # q

LEMMA SameLinksConvert ==
  ASSUME ConvertInv, LinksKept,
         \A s \in Requests : At(s, "convert")' => req'[s] = req[s]
  PROVE  ConvertInv'
  BY DEF ConvertInv, ConvertsOnce, LinksKept, At

LEMMA ConvertReadOnce ==
  ASSUME FlowInv, ConvertInv, NoOrphan, OneConversion', NEW r \in Requests,
         NEW q \in Quotations, ConvertRead(r, q), \A s \in Requests : s # r => req'[s] = req[s]
  PROVE  ConvertInv'
<1>1. LinksKept
  BY DEF ConvertRead, LinksKept, Exists
<1>2. req'[r].pc = "convert" /\ req'[r].quotation = q /\ At(r, "idle") /\ Converting(r, q)'
  BY DEF ConvertRead, Begin, Idle, FlowInv, Converting
<1>3. ASSUME NEW p \in Proposals, Exists(p), proposal[p].quotation = q PROVE FALSE
  <2>1. PICK s \in Requests : At(s, "markConverted") /\ req[s].proposal = p
    BY <1>3 DEF NoOrphan, ConvertRead
  <2>2. req[s].quotation = q /\ s # r
    BY <1>2, <1>3, <2>1 DEF FlowInv, Carries, At
  <2>3. Converting(s, q)'
    BY <2>1, <2>2 DEF Converting, At
  <2>4. QED
    BY <1>2, <2>2, <2>3 DEF OneConversion
<1>4. QED
  BY <1>1, <1>2, <1>3 DEF ConvertInv, ConvertsOnce, LinksKept, At

LEMMA ConvertCreateOnce ==
  ASSUME FlowInv, ConvertInv, OneConversion, NEW r \in Requests, ConvertCreate(r),
         \A s \in Requests : s # r => req'[s] = req[s]
  PROVE  ConvertInv'
<1>1. PICK p \in Proposals :
        /\ ~Exists(p) /\ At(r, "convert")
        /\ proposal' = [proposal EXCEPT ![p] = [quotation |-> req[r].quotation,
                                                terms |-> req[r].terms, booking |-> "NOT_READY"]]
        /\ req' = [req EXCEPT ![r].pc = "markConverted", ![r].proposal = p]
  BY DEF ConvertCreate
<1>2. PICK q \in Quotations : q = req[r].quotation
  BY <1>1 DEF FlowInv, Carries
<1>3. /\ proposal'[p].quotation = q
      /\ \A o \in Proposals : o # p => /\ Exists(o)' <=> Exists(o)
                                       /\ proposal'[o].quotation = proposal[o].quotation
  BY <1>1, <1>2 DEF Exists, FlowInv, DocumentsInv, DocumentsTyped
<1>4. \A o \in Proposals : Exists(o) => proposal[o].quotation # q
  BY <1>1, <1>2 DEF ConvertInv
<1>5. ConvertsOnce'
  BY <1>1, <1>3, <1>4 DEF ConvertInv, ConvertsOnce
<1>6. ASSUME NEW s \in Requests, NEW x \in Quotations, At(s, "convert")', req'[s].quotation = x,
             NEW o \in Proposals, Exists(o)'
      PROVE  proposal'[o].quotation # x
  <2>1. req'[r].pc # "convert"
    BY <1>1 DEF FlowInv, Request
  <2>2. s # r /\ At(s, "convert") /\ req[s].quotation = x
    BY <1>6, <2>1 DEF At
  <2>3. x # q
    BY <1>1, <1>2, <2>2 DEF OneConversion, Converting, At
  <2>4. QED
    BY <1>3, <1>6, <2>2, <2>3 DEF ConvertInv
<1>7. QED
  BY <1>5, <1>6 DEF ConvertInv, At

LEMMA ConvertStep ==
  FlowInv /\ ConvertInv /\ OneConversion /\ OneConversion' /\ NoOrphan /\ [Next]_vars
    => ConvertInv'
<1> SUFFICES ASSUME FlowInv, ConvertInv, OneConversion, OneConversion', NoOrphan, [Next]_vars
             PROVE  ConvertInv'
  OBVIOUS
<1>1. CASE UNCHANGED <<proposal, item, req>>
  BY <1>1, SameLinksConvert DEF LinksKept, Exists
<1>2. ASSUME NEW r \in Requests, Acts(r) PROVE ConvertInv'
  <2>1. CASE Passive(r)
    BY <1>2, <2>1, SameLinksConvert DEF Acts, Passive, At
  <2>2. ASSUME \/ \E i \in Items : UpdateItemRead(r, i)
               \/ BookCount(r) \/ BookCreateItem(r) \/ UpdateItemWrite(r) \/ DeriveRead(r)
        PROVE  ConvertInv'
    <3>1. LinksKept
      BY <2>2 DEF LinksKept, Exists, UpdateItemRead, BookCount, BookCreateItem, UpdateItemWrite,
         DeriveRead
    <3>2. req \in [Requests -> Request]
      BY DEF FlowInv
    <3>3. (\E i \in Items : UpdateItemRead(r, i)) => req'[r].pc # "convert"
      BY <3>2 DEF UpdateItemRead, Begin, Idle
    <3>4. BookCount(r) => req'[r].pc # "convert"
      BY <3>2 DEF BookCount, Goto, Return, Idle, Request
    <3>5. UpdateItemWrite(r) => req'[r].pc # "convert"
      BY <3>2 DEF UpdateItemWrite, Goto, Request
    <3>6. BookCreateItem(r) => req'[r].pc # "convert"
      BY <3>2 DEF BookCreateItem, At, Request
    <3>7. DeriveRead(r) => req'[r].pc # "convert"
      BY <3>2 DEF DeriveRead, Return, Idle, Request
    <3>8. QED
      BY <1>2, <2>2, <3>1, <3>3, <3>4, <3>5, <3>6, <3>7, SameLinksConvert DEF Acts, At
  <2>3. QED
    BY <1>2, <2>1, <2>2, ConvertReadOnce, ConvertCreateOnce DEF Acts
<1>3. QED
  BY <1>1, <1>2, StepActs

\* "Single-use: a quotation can convert exactly once" (quotation-conversion.service.ts): so
\* it is as long as no two conversions of a quotation overlap and no crash comes between a
\* proposal's insert and its link; the two requests of the counterexample to ConvertsOnce
\* are, with that crash, all there is to it.
THEOREM ConvertsOnceOneByOne == Spec /\ [](OneConversion /\ NoOrphan) => []ConvertsOnce
<1>1. Init => ConvertInv
  BY DEF Init, ConvertInv, ConvertsOnce, Exists, At, Idle, Absent
<1>2. ConvertInv => ConvertsOnce
  BY DEF ConvertInv
<1>3. QED
  BY <1>1, <1>2, ConvertStep, InitFlowInv, StepFlowInv, PTL DEF Spec

-----------------------------------------------------------------------------
(* Bookings *)

Booking(r, p) == req[r].pc \in {"countItems", "createItem", "setBooked"} /\ req[r].proposal = p

OneBooking ==
  \A p \in Proposals : \A r \in Requests, s \in Requests : Booking(r, p) /\ Booking(s, p) => r = s

\* A booking that creates items has created all the items its proposal has.
BookInv ==
  /\ OneItemPerLine
  /\ \A r \in Requests, i \in Items :
       At(r, "createItem") /\ item[i].status # Absent /\ item[i].proposal = req[r].proposal
         => item[i].line <= req[r].line

\* No item is created, and each stays with its line.
ItemsKept ==
  \A i \in Items : /\ item'[i].status # Absent <=> item[i].status # Absent
                   /\ item'[i].proposal = item[i].proposal
                   /\ item'[i].line = item[i].line

LEMMA SameItemsBook ==
  ASSUME BookInv, ItemsKept,
         \A s \in Requests : At(s, "createItem")' => req'[s] = req[s]
  PROVE  BookInv'
  BY DEF BookInv, OneItemPerLine, ItemsKept, At

LEMMA UpdateItemKeeps ==
  ASSUME FlowInv, NEW r \in Requests, UpdateItemWrite(r)
  PROVE  ItemsKept
<1>1. PICK i \in Items, s \in ItemStatus \cup {None} :
        i = req[r].item /\ s = req[r].status /\ item[i].status # Absent
  BY DEF UpdateItemWrite, FlowInv, Carries
<1>2. item' = [item EXCEPT ![i].status = IF s = None THEN @ ELSE s]
  BY <1>1 DEF UpdateItemWrite
<1>3. s # None => s # Absent
  BY <1>1 DEF ItemStatus, Absent
<1>4. item \in [Items -> ItemDoc]
  BY DEF FlowInv, DocumentsInv, DocumentsTyped
<1>5. QED
  BY <1>1, <1>2, <1>3, <1>4 DEF ItemsKept, ItemDoc

LEMMA BookCountBooks ==
  ASSUME FlowInv, BookInv, NEW r \in Requests, BookCount(r),
         \A s \in Requests : s # r => req'[s] = req[s]
  PROVE  BookInv'
<1>1. UNCHANGED item /\ req \in [Requests -> Request]
  BY DEF BookCount, FlowInv
<1>2. CASE ItemsOf(req[r].proposal) = {}
  <2>1. req'[r].proposal = req[r].proposal
    BY <1>1, <1>2 DEF BookCount, Goto, Request
  <2>2. \A i \in Items : item'[i].proposal # req'[r].proposal
    BY <1>1, <1>2, <2>1 DEF ItemsOf
  <2>3. QED
    BY <1>1, <2>2 DEF BookInv, OneItemPerLine, At
<1>3. CASE ItemsOf(req[r].proposal) # {}
  <2>1. ~At(r, "createItem")'
    BY <1>1, <1>3 DEF BookCount, Return, Idle, At
  <2>2. QED
    BY <1>1, <2>1, SameItemsBook DEF ItemsKept
<1>4. QED
  BY <1>2, <1>3

LEMMA BookCreateItemBooks ==
  ASSUME FlowInv, BookInv, OneBooking, NEW r \in Requests, BookCreateItem(r),
         \A s \in Requests : s # r => req'[s] = req[s]
  PROVE  BookInv'
<1>1. PICK p \in Proposals, m \in Nat :
        p = req[r].proposal /\ m = req[r].line /\ At(r, "createItem")
  BY ClearedExist DEF BookCreateItem, FlowInv, Carries, At, Request
<1>2. PICK i \in Items :
        /\ item[i].status = Absent
        /\ item' = [item EXCEPT ![i] = [proposal |-> p, line |-> m + 1, status |-> "PENDING"]]
  BY <1>1 DEF BookCreateItem
<1>3. /\ item'[i] = [proposal |-> p, line |-> m + 1, status |-> "PENDING"]
      /\ \A j \in Items : j # i => item'[j] = item[j]
  BY <1>2 DEF FlowInv, DocumentsInv, DocumentsTyped
<1>4. req'[r].line = m + 1 /\ req'[r].proposal = p
  BY <1>1 DEF BookCreateItem, FlowInv, Request
<1>5. \A j \in Items : item[j].line \in Nat
  BY DEF FlowInv, DocumentsInv, DocumentsTyped, ItemDoc
<1>6. \A j \in Items : item[j].status # Absent /\ item[j].proposal = p => item[j].line <= m
  BY <1>1 DEF BookInv
<1>7. OneItemPerLine'
  <2>1. ASSUME NEW j \in Items, j # i, item[j].status # Absent, item[j].proposal = p
        PROVE  item[j].line # m + 1
    BY <1>1, <1>5, <1>6, <2>1
  <2>2. QED
    BY <1>3, <2>1 DEF OneItemPerLine, BookInv
<1>8. ASSUME NEW s \in Requests, NEW j \in Items, At(s, "createItem")', item'[j].status # Absent,
             item'[j].proposal = req'[s].proposal
      PROVE  item'[j].line <= req'[s].line
  <2>1. CASE s = r
    BY <1>1, <1>3, <1>4, <1>5, <1>6, <1>8, <2>1
  <2>2. CASE s # r
    <3>1. At(s, "createItem") /\ req'[s] = req[s]
      BY <1>8, <2>2 DEF At
    <3>2. req[s].proposal # p
      BY <1>1, <2>2, <3>1 DEF OneBooking, Booking, At
    <3>3. QED
      BY <1>3, <1>8, <3>1, <3>2 DEF BookInv
  <2>3. QED
    BY <2>1, <2>2
<1>9. QED
  BY <1>7, <1>8 DEF BookInv

LEMMA BookStep == FlowInv /\ BookInv /\ OneBooking /\ [Next]_vars => BookInv'
<1> SUFFICES ASSUME FlowInv, BookInv, OneBooking, [Next]_vars
             PROVE  BookInv'
  OBVIOUS
<1>1. CASE UNCHANGED <<proposal, item, req>>
  BY <1>1, SameItemsBook DEF ItemsKept
<1>2. ASSUME NEW r \in Requests, Acts(r) PROVE BookInv'
  <2>1. CASE Passive(r)
    BY <1>2, <2>1, SameItemsBook DEF Acts, Passive, ItemsKept, At
  <2>2. ASSUME \/ \E q \in Quotations : ConvertRead(r, q)
               \/ \E i \in Items : UpdateItemRead(r, i)
               \/ ConvertCreate(r) \/ UpdateItemWrite(r) \/ DeriveRead(r)
        PROVE  BookInv'
    <3>1. ItemsKept
      BY <2>2, UpdateItemKeeps DEF ItemsKept, ConvertRead, UpdateItemRead, ConvertCreate, DeriveRead
    <3>2. req \in [Requests -> Request]
      BY DEF FlowInv
    <3>3. (\E q \in Quotations : ConvertRead(r, q)) => req'[r].pc # "createItem"
      BY <3>2 DEF ConvertRead, Begin, Idle
    <3>4. (\E i \in Items : UpdateItemRead(r, i)) => req'[r].pc # "createItem"
      BY <3>2 DEF UpdateItemRead, Begin, Idle
    <3>5. ConvertCreate(r) => req'[r].pc # "createItem"
      BY <3>2 DEF ConvertCreate, Request
    <3>6. UpdateItemWrite(r) => req'[r].pc # "createItem"
      BY <3>2 DEF UpdateItemWrite, Goto, Request
    <3>7. DeriveRead(r) => req'[r].pc # "createItem"
      BY <3>2 DEF DeriveRead, Return, Idle, Request
    <3>8. QED
      BY <1>2, <2>2, <3>1, <3>3, <3>4, <3>5, <3>6, <3>7, SameItemsBook DEF Acts, At
  <2>3. QED
    BY <1>2, <2>1, <2>2, BookCountBooks, BookCreateItemBooks DEF Acts
<1>3. QED
  BY <1>1, <1>2, StepActs

\* "Idempotent-safe: re-booking is rejected once items exist" (book() in
\* commercial-proposals.service.ts): bookings of a proposal that do not overlap create one
\* item per line, also where some of them died half way.
THEOREM OneItemPerLineOneByOne == Spec /\ []OneBooking => []OneItemPerLine
<1>1. Init => BookInv
  BY DEF Init, BookInv, OneItemPerLine, At, Idle, Absent
<1>2. BookInv => OneItemPerLine
  BY DEF BookInv
<1>3. QED
  BY <1>1, <1>2, BookStep, InitFlowInv, StepFlowInv, PTL DEF Spec

-----------------------------------------------------------------------------
(* Item updates *)

Updating(r, p) == req[r].pc \in {"updateItem", "readItems", "setDerived"} /\ req[r].proposal = p

OneUpdate ==
  \A p \in Proposals : \A r \in Requests, s \in Requests :
    Updating(r, p) /\ Updating(s, p) => r = s

\* What an update is about to write to the proposal still agrees with its items.
DeriveInv ==
  /\ \A i \in Items : item[i].status = Absent => item[i].proposal = None
  /\ \A r \in Requests : At(r, "updateItem") => item[req[r].item].proposal = req[r].proposal
  /\ \A r \in Requests, p \in Proposals :
       At(r, "setDerived") /\ req[r].status = "FULFILLING" /\ req[r].proposal = p
         => ~AllDelivered(p)

LEMMA SameWork ==
  ASSUME NEW p, \A i \in Items : item'[i].proposal = p <=> item[i].proposal = p,
         \A i \in Items : item[i].proposal = p => item'[i].status = item[i].status
  PROVE  AllDelivered(p)' <=> AllDelivered(p)
<1>1. ItemsOf(p)' = ItemsOf(p)
  BY DEF ItemsOf
<1>2. \A i \in ItemsOf(p) : item'[i].status = item[i].status
  BY DEF ItemsOf
<1>3. QED
  BY <1>1, <1>2 DEF AllDelivered

LEMMA SameItemsDerive ==
  ASSUME DeriveInv, UNCHANGED item,
         \A s \in Requests : req'[s].pc \in {"updateItem", "setDerived"} => req'[s] = req[s]
  PROVE  DeriveInv'
<1>1. \A p \in Proposals : AllDelivered(p)' <=> AllDelivered(p)
  BY SameWork
<1>2. QED
  BY <1>1 DEF DeriveInv, At

LEMMA UpdateItemReadDerives ==
  ASSUME FlowInv, DeriveInv, NEW r \in Requests, NEW i \in Items, UpdateItemRead(r, i),
         \A s \in Requests : s # r => req'[s] = req[s]
  PROVE  DeriveInv'
<1>1. UNCHANGED item
  BY DEF UpdateItemRead
<1>2. req'[r].pc = "updateItem" /\ req'[r].item = i /\ req'[r].proposal = item[i].proposal
  BY DEF UpdateItemRead, Begin, Idle, FlowInv
<1>3. \A p \in Proposals : AllDelivered(p)' <=> AllDelivered(p)
  BY <1>1, SameWork
<1>4. QED
  BY <1>1, <1>2, <1>3 DEF DeriveInv, At

LEMMA UpdateItemWriteDerives ==
  ASSUME FlowInv, DeriveInv, OneUpdate, NEW r \in Requests, UpdateItemWrite(r),
         \A s \in Requests : s # r => req'[s] = req[s]
  PROVE  DeriveInv'
<1>1. PICK i \in Items, p \in Proposals :
        i = req[r].item /\ p = req[r].proposal /\ item[i].proposal = p /\ At(r, "updateItem")
  BY ClearedExist DEF UpdateItemWrite, FlowInv, Carries, DeriveInv, At
<1>2. \A j \in Items : j # i => item'[j] = item[j]
  BY <1>1 DEF UpdateItemWrite, FlowInv, DocumentsInv, DocumentsTyped
<1>3. ItemsKept
  BY UpdateItemKeeps
<1>4. req'[r].pc = "readItems"
  BY DEF UpdateItemWrite, Goto, FlowInv, Request
<1>5. \A j \in Items : item'[j].status = Absent => item'[j].proposal = None
  BY <1>3 DEF DeriveInv, ItemsKept
<1>6. ASSUME NEW s \in Requests, At(s, "updateItem")'
      PROVE  item'[req'[s].item].proposal = req'[s].proposal
  <2>1. s # r /\ req'[s] = req[s] /\ At(s, "updateItem")
    BY <1>4, <1>6 DEF At
  <2>2. PICK j \in Items : j = req[s].item
    BY <2>1 DEF FlowInv, Carries
  <2>3. QED
    BY <1>3, <2>1, <2>2 DEF DeriveInv, ItemsKept
<1>7. ASSUME NEW s \in Requests, NEW o \in Proposals, At(s, "setDerived")',
             req'[s].status = "FULFILLING", req'[s].proposal = o
      PROVE  ~AllDelivered(o)'
  <2>1. s # r /\ req'[s] = req[s] /\ At(s, "setDerived")
    BY <1>4, <1>7 DEF At
  <2>2. o # p
    BY <1>1, <1>7, <2>1 DEF OneUpdate, Updating, At
  <2>3. AllDelivered(o)' <=> AllDelivered(o)
    BY <1>1, <1>2, <1>3, <2>2, SameWork DEF ItemsKept
  <2>4. QED
    BY <1>7, <2>1, <2>3 DEF DeriveInv
<1>8. QED
  BY <1>5, <1>6, <1>7 DEF DeriveInv

LEMMA BookCreateItemDerives ==
  ASSUME FlowInv, DeriveInv, NEW r \in Requests, BookCreateItem(r),
         \A s \in Requests : s # r => req'[s] = req[s]
  PROVE  DeriveInv'
<1>1. PICK p \in Proposals : p = req[r].proposal
  BY ClearedExist DEF BookCreateItem, FlowInv, Carries, At
<1>2. PICK i \in Items :
        /\ item[i].status = Absent
        /\ item' = [item EXCEPT ![i] = [proposal |-> p, line |-> req[r].line + 1,
                                        status |-> "PENDING"]]
  BY <1>1 DEF BookCreateItem
<1>3. /\ item'[i].proposal = p /\ item'[i].status = "PENDING"
      /\ \A j \in Items : j # i => item'[j] = item[j]
  BY <1>2 DEF FlowInv, DocumentsInv, DocumentsTyped
<1>4. req'[r].pc \notin {"updateItem", "setDerived"}
  BY DEF BookCreateItem, FlowInv, Request, At
<1>5. item[i].proposal = None /\ \A o \in Proposals : o # None
  BY <1>2, ConstantsOK DEF DeriveInv
<1>6. \A j \in Items : item'[j].status = Absent => item'[j].proposal = None
  BY <1>3 DEF DeriveInv, Absent
<1>7. ASSUME NEW s \in Requests, At(s, "updateItem")'
      PROVE  item'[req'[s].item].proposal = req'[s].proposal
  <2>1. s # r /\ req'[s] = req[s] /\ At(s, "updateItem")
    BY <1>4, <1>7 DEF At
  <2>2. PICK j \in Items : j = req[s].item /\ item[j].status # Absent
    BY <2>1 DEF FlowInv, Carries
  <2>3. QED
    BY <1>2, <1>3, <2>1, <2>2 DEF DeriveInv
<1>8. ASSUME NEW s \in Requests, NEW o \in Proposals, At(s, "setDerived")',
             req'[s].status = "FULFILLING", req'[s].proposal = o
      PROVE  ~AllDelivered(o)'
  <2>1. s # r /\ req'[s] = req[s] /\ At(s, "setDerived")
    BY <1>4, <1>8 DEF At
  <2>2. CASE o = p
    <3>1. i \in ItemsOf(p)' /\ item'[i].status = "PENDING"
      BY <1>3 DEF ItemsOf
    <3>2. QED
      BY <2>2, <3>1 DEF AllDelivered
  <2>3. CASE o # p
    <3>1. AllDelivered(o)' <=> AllDelivered(o)
      BY <1>3, <1>5, <2>3, SameWork
    <3>2. QED
      BY <1>8, <2>1, <3>1 DEF DeriveInv
  <2>4. QED
    BY <2>2, <2>3
<1>9. QED
  BY <1>6, <1>7, <1>8 DEF DeriveInv

LEMMA DeriveReadDerives ==
  ASSUME FlowInv, DeriveInv, NEW r \in Requests, DeriveRead(r),
         \A s \in Requests : s # r => req'[s] = req[s]
  PROVE  DeriveInv'
<1>1. PICK p \in Proposals : p = req[r].proposal
  BY ClearedExist DEF DeriveRead, FlowInv, Carries, At
<1>2. UNCHANGED item
  BY DEF DeriveRead
<1>3. Derived(p) = "FULFILLING" => ~AllDelivered(p)
  BY DEF Derived, AllDelivered
<1>4. \/ req'[r].pc = "idle"
      \/ /\ req'[r].pc = "setDerived" /\ req'[r].status = Derived(p)
         /\ req'[r].proposal = p
  BY <1>1 DEF DeriveRead, Return, Idle, FlowInv, Request
<1>5. \A o \in Proposals : AllDelivered(o)' <=> AllDelivered(o)
  BY <1>2, SameWork
<1>6. QED
  BY <1>2, <1>3, <1>4, <1>5 DEF DeriveInv, At

LEMMA DeriveStep == FlowInv /\ DeriveInv /\ OneUpdate /\ [Next]_vars => DeriveInv'
<1> SUFFICES ASSUME FlowInv, DeriveInv, OneUpdate, [Next]_vars
             PROVE  DeriveInv'
  OBVIOUS
<1>1. CASE UNCHANGED <<proposal, item, req>>
  BY <1>1, SameItemsDerive
<1>2. ASSUME NEW r \in Requests, Acts(r) PROVE DeriveInv'
  <2>1. CASE Passive(r)
    BY <1>2, <2>1, SameItemsDerive DEF Acts, Passive
  <2>2. ASSUME \/ \E q \in Quotations : ConvertRead(r, q)
               \/ ConvertCreate(r) \/ BookCount(r)
        PROVE  DeriveInv'
    <3>1. UNCHANGED item /\ req \in [Requests -> Request]
      BY <2>2 DEF ConvertRead, ConvertCreate, BookCount, FlowInv
    <3>2. (\E q \in Quotations : ConvertRead(r, q)) => req'[r].pc = "convert"
      BY <3>1 DEF ConvertRead, Begin, Idle
    <3>3. ConvertCreate(r) => req'[r].pc = "markConverted"
      BY <3>1 DEF ConvertCreate, Request
    <3>4. BookCount(r) => req'[r].pc \in {"createItem", "idle"}
      BY <3>1 DEF BookCount, Goto, Return, Idle, Request
    <3>5. QED
      BY <1>2, <2>2, <3>1, <3>2, <3>3, <3>4, SameItemsDerive DEF Acts
  <2>3. QED
    BY <1>2, <2>1, <2>2, UpdateItemReadDerives, UpdateItemWriteDerives, BookCreateItemDerives,
       DeriveReadDerives DEF Acts
<1>3. QED
  BY <1>1, <1>2, StepActs

LEMMA FallsBackUndelivered ==
  ASSUME FlowInv, DeriveInv, [Next]_vars, NEW p \in Proposals,
         proposal[p].booking = "COMPLETED", proposal'[p].booking = "FULFILLING"
  PROVE  ~AllDelivered(p)
<1>1. proposal \in [Proposals -> ProposalDoc]
  BY DEF FlowInv, DocumentsInv, DocumentsTyped
<1>2. UNCHANGED proposal => FALSE
  OBVIOUS
<1>3. ASSUME NEW r \in Requests, ConvertCreate(r)
      PROVE  FALSE
  BY <1>1, <1>3 DEF ConvertCreate, Exists, Absent
<1>4. ASSUME NEW r \in Requests, CheckReadinessWrite(r) \/ BookWrite(r)
      PROVE  FALSE
  BY <1>1, <1>4 DEF CheckReadinessWrite, BookWrite, ProposalDoc
<1>5. ASSUME NEW r \in Requests, DeriveWrite(r)
      PROVE  ~AllDelivered(p)
  <2>1. req[r].proposal = p /\ req[r].status = "FULFILLING"
    BY <1>1, <1>5 DEF DeriveWrite, ProposalDoc
  <2>2. QED
    BY <1>5, <2>1 DEF DeriveInv, DeriveWrite
<1>6. QED
  BY <1>2, <1>3, <1>4, <1>5 DEF Next, vars, Issue, Arrive, TransitionRead, ConvertRead,
     CheckReadinessRead, BookRead, UpdateItemRead, Proceed, TransitionWrite, MarkConverted,
     BookCount, BookCreateItem, UpdateItemWrite, DeriveRead, Crash

\* "all active items DELIVERED -> COMPLETED" (deriveBookingStatus in
\* commercial-proposals.service.ts): as long as no two item updates of a proposal overlap,
\* a completed proposal does not fall back to FULFILLING while all its items are delivered,
\* whatever else runs and crashes.
THEOREM CompletedStaysOneByOne == Spec /\ []OneUpdate => CompletedWhileDelivered
<1> DEFINE Falls == \A p \in Proposals :
             proposal[p].booking = "COMPLETED" /\ proposal'[p].booking = "FULFILLING"
               => ~AllDelivered(p)
<1>1. Init => DeriveInv
  BY DEF Init, DeriveInv, At, Idle, Absent
<1>2. FlowInv /\ DeriveInv /\ [Next]_vars => [Falls]_vars
  BY FallsBackUndelivered
<1>3. QED
  BY <1>1, <1>2, DeriveStep, InitFlowInv, StepFlowInv, PTL DEF Spec, CompletedWhileDelivered

=============================================================================
