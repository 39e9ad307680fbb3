---------------------------- MODULE CommercialFlow ----------------------------
(***************************************************************************)
(* From quotation to work: QuotationsService (send, accept, reject),       *)
(* QuotationConversionService, BookingReadinessService and                 *)
(* CommercialProposalsService (readiness, booking, fulfillment items).     *)
(*                                                                         *)
(* None of these handlers uses a transaction or a conditional write: each  *)
(* reads, decides, and writes by id in later queries, so whatever it read  *)
(* may be stale when it writes.  req[r] holds the point request r has      *)
(* reached and what it carries.  How a package becomes the terms of a new  *)
(* quotation is the matter of another module; here terms are issued.       *)
(***************************************************************************)
EXTENDS Naturals, FiniteSets

CONSTANTS
  Quotations, Proposals, Items,  \* ids of documents, created on demand
  Terms,        \* the snapshots a quotation may freeze; see TermsOK
  ItemUpdates,  \* item statuses staff write in this run; None: only notes change
  Requests,     \* handler invocations that can be in flight together
  None

QuotationStatus == {"DRAFT", "SENT", "ACCEPTED", "REJECTED"}  \* nothing writes EXPIRED
BookingStatus == {"NOT_READY", "READY_FOR_BOOKING", "BOOKED", "FULFILLING", "COMPLETED"}
ItemStatus == {"PENDING", "CONFIRMED", "DELIVERED", "CANCELLED"}
Absent == "ABSENT"  \* the status of a document not created yet

\* The parts of a snapshot that decide: the number of its items, the travelers, the
\* price, and whether the travel dates, where both are given, are in order.
TermsOK == Terms \subseteq [lines : Nat \ {0}, travelers : Nat, price : Nat, datesValid : BOOLEAN]

ASSUME ConstantsOK ==
  /\ TermsOK
  /\ ItemUpdates \subseteq ItemStatus \cup {None}
  /\ None \notin Proposals \cup Quotations \cup Terms \cup Nat
  /\ None \notin [quotation : Quotations, terms : Terms]
  /\ None \notin QuotationStatus \cup BookingStatus \cup ItemStatus \cup {Absent}

VARIABLES
  quotation,  \* [Quotations -> [status, terms, acceptedAt, converted]]
  proposal,   \* [Proposals -> [quotation, terms, booking]], ACCEPTED from the start
  item,       \* [Items -> [proposal, line, status]]
  req         \* [Requests -> what request r carries: see Request]

vars == <<quotation, proposal, item, req>>

Points == {"idle", "transition", "convert", "markConverted", "setReady",
           "countItems", "createItem", "setBooked", "updateItem", "readItems", "setDerived"}

Idle == [pc |-> "idle", quotation |-> None, proposal |-> None, item |-> None, terms |-> None,
         status |-> None, seen |-> None, line |-> 0]

Init ==
  /\ quotation = [q \in Quotations |->
       [status |-> Absent, terms |-> None, acceptedAt |-> FALSE, converted |-> None]]
  /\ proposal = [p \in Proposals |-> [quotation |-> None, terms |-> None, booking |-> Absent]]
  /\ item = [i \in Items |-> [proposal |-> None, line |-> 0, status |-> Absent]]
  /\ req = [r \in Requests |-> Idle]

-----------------------------------------------------------------------------

At(r, point) == req[r].pc = point

Begin(r, carried) ==
  /\ At(r, "idle")
  /\ req' = [req EXCEPT ![r] = carried]

Goto(r, point) == req' = [req EXCEPT ![r].pc = point]

Return(r) == req' = [req EXCEPT ![r] = Idle]

Exists(p) == proposal[p].booking # Absent

ItemsOf(p) == {i \in Items : item[i].proposal = p}

-----------------------------------------------------------------------------
(* QuotationsService *)

\* The insert that ends generateFromPackage.
Issue(q, t) ==
  /\ quotation[q].status = Absent
  /\ quotation' = [quotation EXCEPT ![q] =
       [status |-> "DRAFT", terms |-> t, acceptedAt |-> FALSE, converted |-> None]]
  /\ UNCHANGED <<proposal, item, req>>

\* The states send, accept and reject start from.
From(to) ==
  CASE to = "SENT" -> {"DRAFT"}
    [] to = "ACCEPTED" -> {"SENT"}
    [] to = "REJECTED" -> {"DRAFT", "SENT"}

\* transition: the status is checked here ...
TransitionRead(r, q, to) ==
  /\ quotation[q].status \in From(to)
  /\ Begin(r, [Idle EXCEPT !.pc = "transition", !.quotation = q, !.status = to])
  /\ UNCHANGED <<quotation, proposal, item>>

\* ... and overwritten here, whatever it has become.
TransitionWrite(r) ==
  LET q == req[r].quotation
      to == req[r].status
  IN
  /\ At(r, "transition")
  /\ quotation' = [quotation EXCEPT ![q].status = to,
                                    ![q].acceptedAt = @ \/ to = "ACCEPTED"]
  /\ Return(r)
  /\ UNCHANGED <<proposal, item>>

-----------------------------------------------------------------------------
(* QuotationConversionService *)

\* Mutant: the guard on the quotation's status is dropped.
ConvertReadAnyStatus(r, q) ==
  /\ quotation[q].status # Absent
  /\ quotation[q].converted = None
  /\ Begin(r, [Idle EXCEPT !.pc = "convert", !.quotation = q, !.terms = quotation[q].terms])
  /\ UNCHANGED <<quotation, proposal, item>>

\* convertAcceptedQuotation: the guards; resolveLineage only reads.
ConvertRead(r, q) ==
  /\ quotation[q].status = "ACCEPTED"
  /\ quotation[q].converted = None
  /\ Begin(r, [Idle EXCEPT !.pc = "convert", !.quotation = q, !.terms = quotation[q].terms])
  /\ UNCHANGED <<quotation, proposal, item>>

\* Mutant: the insert is not awaited, and fails after the link to it is written.
ConvertCreateNotAwaited(r) ==
  /\ At(r, "convert")
  /\ \E p \in Proposals :
       /\ ~Exists(p)
       /\ req' = [req EXCEPT ![r].pc = "markConverted", ![r].proposal = p]
  /\ UNCHANGED <<quotation, proposal, item>>

ConvertCreate(r) ==
  /\ At(r, "convert")
  /\ \E p \in Proposals :
       /\ ~Exists(p)
       /\ proposal' = [proposal EXCEPT ![p] = [quotation |-> req[r].quotation,
                                               terms |-> req[r].terms,
                                               booking |-> "NOT_READY"]]
       /\ req' = [req EXCEPT ![r].pc = "markConverted", ![r].proposal = p]
  /\ UNCHANGED <<quotation, item>>

MarkConverted(r) ==
  /\ At(r, "markConverted")
  /\ quotation' = [quotation EXCEPT ![req[r].quotation].converted = req[r].proposal]
  /\ Return(r)
  /\ UNCHANGED <<proposal, item>>

-----------------------------------------------------------------------------
(* BookingReadinessService and CommercialProposalsService *)

\* validate: a converted proposal always has a snapshot.
Ready(t) == t.lines > 0 /\ t.travelers >= 1 /\ t.datesValid /\ t.price > 0

\* checkReadiness: advances a proposal read as NOT_READY ...
CheckReadinessRead(r, p) ==
  /\ proposal[p].booking = "NOT_READY"
  /\ Ready(proposal[p].terms)
  /\ Begin(r, [Idle EXCEPT !.pc = "setReady", !.proposal = p])
  /\ UNCHANGED <<quotation, proposal, item>>

\* ... even if it has moved on since.
CheckReadinessWrite(r) ==
  /\ At(r, "setReady")
  /\ proposal' = [proposal EXCEPT ![req[r].proposal].booking = "READY_FOR_BOOKING"]
  /\ Return(r)
  /\ UNCHANGED <<quotation, item>>

\* book: reads the status, counts the items, creates one item per snapshot line in
\* order, then marks the proposal booked; a crash may come between any two.
BookRead(r, p) ==
  /\ proposal[p].booking = "READY_FOR_BOOKING"
  /\ Begin(r, [Idle EXCEPT !.pc = "countItems", !.proposal = p])
  /\ UNCHANGED <<quotation, proposal, item>>

\* Mutant: a repeated call takes any item for a finished booking.
BookCountResumes(r) ==
  /\ At(r, "countItems")
  /\ IF ItemsOf(req[r].proposal) = {} THEN Goto(r, "createItem") ELSE Goto(r, "setBooked")
  /\ UNCHANGED <<quotation, proposal, item>>

BookCount(r) ==
  /\ At(r, "countItems")
  /\ IF ItemsOf(req[r].proposal) = {} THEN Goto(r, "createItem") ELSE Return(r)
  /\ UNCHANGED <<quotation, proposal, item>>

BookCreateItem(r) ==
  LET p == req[r].proposal
      n == req[r].line + 1
  IN
  /\ At(r, "createItem")
  /\ \E i \in Items :
       /\ item[i].status = Absent
       /\ item' = [item EXCEPT ![i] = [proposal |-> p, line |-> n, status |-> "PENDING"]]
  /\ req' = [req EXCEPT ![r].line = n,
                        ![r].pc = IF n = proposal[p].terms.lines THEN "setBooked" ELSE @]
  /\ UNCHANGED <<quotation, proposal>>

BookWrite(r) ==
  /\ At(r, "setBooked")
  /\ proposal' = [proposal EXCEPT ![req[r].proposal].booking = "BOOKED"]
  /\ Return(r)
  /\ UNCHANGED <<quotation, item>>

\* updateFulfillmentItem: the proposal is read once, before the item is written.  (That
\* the item exists and is the proposal's cannot change, so its read is not a step.)
UpdateItemRead(r, i) ==
  LET p == item[i].proposal IN
  /\ item[i].status # Absent
  /\ \E s \in ItemUpdates :
       Begin(r, [Idle EXCEPT !.pc = "updateItem", !.proposal = p, !.item = i, !.status = s,
                             !.seen = proposal[p].booking])
  /\ UNCHANGED <<quotation, proposal, item>>

UpdateItemWrite(r) ==
  LET s == req[r].status IN
  /\ At(r, "updateItem")
  /\ item' = [item EXCEPT ![req[r].item].status = IF s = None THEN @ ELSE s]
  /\ Goto(r, "readItems")
  /\ UNCHANGED <<quotation, proposal>>

\* deriveBookingStatus: what the items say, None when they say nothing.
Derived(p) ==
  LET active == {i \in ItemsOf(p) : item[i].status # "CANCELLED"}
      allDone == active # {} /\ \A i \in active : item[i].status = "DELIVERED"
      anyProgress == \E i \in ItemsOf(p) : item[i].status \in {"CONFIRMED", "DELIVERED"}
  IN  CASE allDone -> "COMPLETED"
        [] ~allDone /\ anyProgress -> "FULFILLING"
        [] OTHER -> None

\* Mutant: nothing to say is not told from a new status.
DeriveReadUnguarded(r) ==
  LET next == Derived(req[r].proposal) IN
  /\ At(r, "readItems")
  /\ IF next = req[r].seen
       THEN Return(r)
       ELSE req' = [req EXCEPT ![r].pc = "setDerived", ![r].status = next]
  /\ UNCHANGED <<quotation, proposal, item>>

\* It is compared with the status read before the item was written ...
DeriveRead(r) ==
  LET next == Derived(req[r].proposal) IN
  /\ At(r, "readItems")
  /\ IF next \in {None, req[r].seen}
       THEN Return(r)
       ELSE req' = [req EXCEPT ![r].pc = "setDerived", ![r].status = next]
  /\ UNCHANGED <<quotation, proposal, item>>

\* ... and written over whatever the status is by then.
DeriveWrite(r) ==
  /\ At(r, "setDerived")
  /\ proposal' = [proposal EXCEPT ![req[r].proposal].booking = req[r].status]
  /\ Return(r)
  /\ UNCHANGED <<quotation, item>>

-----------------------------------------------------------------------------
(* The server process dies under a request; what it wrote stays. *)

Crash(r) ==
  /\ req[r].pc # "idle"
  /\ Return(r)
  /\ UNCHANGED <<quotation, proposal, item>>

-----------------------------------------------------------------------------

Arrive(r) ==
  \/ \E q \in Quotations :
       \/ \E to \in {"SENT", "ACCEPTED", "REJECTED"} : TransitionRead(r, q, to)
       \/ ConvertRead(r, q)
  \/ \E p \in Proposals : CheckReadinessRead(r, p) \/ BookRead(r, p)
  \/ \E i \in Items : UpdateItemRead(r, i)

Proceed(r) ==
  \/ TransitionWrite(r)
  \/ ConvertCreate(r) \/ MarkConverted(r)
  \/ CheckReadinessWrite(r)
  \/ BookCount(r) \/ BookCreateItem(r) \/ BookWrite(r)
  \/ UpdateItemWrite(r) \/ DeriveRead(r) \/ DeriveWrite(r)

Next ==
  \/ \E q \in Quotations, t \in Terms : Issue(q, t)
  \/ \E r \in Requests : Arrive(r) \/ Proceed(r) \/ Crash(r)

Spec == Init /\ [][Next]_vars

-----------------------------------------------------------------------------
(* Properties *)

QuotationDoc == [status : QuotationStatus \cup {Absent}, terms : Terms \cup {None},
                 acceptedAt : BOOLEAN, converted : Proposals \cup {None}]
ProposalDoc == [quotation : Quotations \cup {None}, terms : Terms \cup {None},
                booking : BookingStatus \cup {Absent}]
ItemDoc == [proposal : Proposals \cup {None}, line : Nat, status : ItemStatus \cup {Absent}]
Request == [pc : Points, quotation : Quotations \cup {None}, proposal : Proposals \cup {None},
            item : Items \cup {None}, terms : Terms \cup {None}, line : Nat,
            status : QuotationStatus \cup BookingStatus \cup ItemStatus \cup {None},
            seen : BookingStatus \cup {None}]

\* Every document and every request in flight holds values of its schema.
TypeOK ==
  /\ quotation \in [Quotations -> QuotationDoc]
  /\ proposal \in [Proposals -> ProposalDoc]
  /\ item \in [Items -> ItemDoc]
  /\ req \in [Requests -> Request]

\* What the customer and the operations team are promised about terms and work.
Offer == [q \in Quotations |-> quotation[q].terms]
Agreed == {q \in Quotations : quotation[q].acceptedAt}
Contract == [p \in Proposals |->
  IF Exists(p) THEN [quotation |-> proposal[p].quotation, terms |-> proposal[p].terms] ELSE None]
Cleared == {p \in Proposals : proposal[p].booking \notin {Absent, "NOT_READY"}}
Opened == {<<item[i].proposal, item[i].line>> : i \in {j \in Items : item[j].status # Absent}}

Contracts == INSTANCE ContractBook WITH
  offer <- Offer, agreed <- Agreed, contract <- Contract, cleared <- Cleared, opened <- Opened,
  Bookable <- Ready

\* Stale reads, races and crashes notwithstanding, the handlers implement the contract
\* book: a proposal only ever holds the terms of a quotation its customer accepted,
\* no document's terms change, and no work starts before the proposal is found ready.
ImplementsContractBook == Contracts!Spec

\* A proposal shown as BOOKED has a fulfillment item for every line it sold: a booking
\* that died half way is never shown as booked, not even after a second attempt
\* (commercial-proposals.service.ts book()).
BookedCoversSnapshot ==
  \A p \in Proposals : proposal[p].booking = "BOOKED" =>
    \A n \in 1 .. proposal[p].terms.lines : <<p, n>> \in Opened

\* The link from a quotation to "its" proposal and the proposal's lineage agree,
\* even when several conversions of the quotation ran at once.
LinksAgree ==
  \A q \in Quotations :
    quotation[q].converted # None => proposal[quotation[q].converted].quotation = q

\* "Single-use: a quotation can convert exactly once" (quotation-conversion.service.ts:26).
ConvertsOnce ==
  \A p1, p2 \in Proposals :
    Exists(p1) /\ Exists(p2) /\ proposal[p1].quotation = proposal[p2].quotation => p1 = p2

\* "generate one FulfillmentItem per snapshot item ... Idempotent-safe: re-booking is
\* rejected once items exist" (commercial-proposals.service.ts:76).
OneItemPerLine ==
  \A i, j \in Items :
    /\ item[i].status # Absent /\ item[j].status # Absent
    /\ item[i].proposal = item[j].proposal /\ item[i].line = item[j].line
    => i = j

AllDelivered(p) ==
  LET active == {i \in ItemsOf(p) : item[i].status # "CANCELLED"} IN
  active # {} /\ \A i \in active : item[i].status = "DELIVERED"

\* "all active items DELIVERED -> COMPLETED" (PHASE2_1_SALES_CONVERSION_REPORT.md:75): a
\* completed proposal does not fall back to FULFILLING while all its items are delivered.
CompletedWhileDelivered ==
  [][\A p \in Proposals :
       proposal[p].booking = "COMPLETED" /\ proposal'[p].booking = "FULFILLING"
         => ~AllDelivered(p)]_vars

=============================================================================
