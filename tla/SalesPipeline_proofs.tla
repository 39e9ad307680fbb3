------------------------ MODULE SalesPipeline_proofs ------------------------
(***************************************************************************)
(* Theorems about SalesPipeline, for any number of leads, proposals,       *)
(* fulfillments, follow-ups and concurrent requests.                       *)
(***************************************************************************)
EXTENDS SalesPipeline, FiniteSetTheorems, TLAPS

-----------------------------------------------------------------------------
(* What the writes of single fields preserve *)

LEMMA LeadWrites ==
  ASSUME NEW d \in LeadDoc, NEW s \in LeadStatus
  PROVE  [d EXCEPT !.status = s] \in LeadDoc /\ [d EXCEPT !.removed = TRUE] \in LeadDoc
  BY DEF LeadDoc

LEMMA ProposalStatusWrites ==
  ASSUME NEW d \in ProposalDoc, NEW s \in ProposalStatus
  PROVE  [d EXCEPT !.status = s] \in ProposalDoc
  BY DEF ProposalDoc

LEMMA ProposalContentWrites ==
  ASSUME NEW d \in ProposalDoc, NEW c \in Contents
  PROVE  [d EXCEPT !.content = c] \in ProposalDoc
  BY DEF ProposalDoc

LEMMA FulfillmentWrites ==
  ASSUME NEW d \in FulfillmentDoc, NEW s \in FulfillmentStatus
  PROVE  [d EXCEPT !.status = s] \in FulfillmentDoc
  BY DEF FulfillmentDoc

\* A request may move on to any point, but to the points that set a lead's status
\* only when it carries one.
LEMMA RequestMoves ==
  ASSUME NEW q \in Request, NEW point \in Points,
         point \in {"setStatusRead", "setStatusWrite", "countUnresolved"} => q.status \in LeadStatus
  PROVE  [q EXCEPT !.pc = point] \in Request
  BY DEF Request, CarriesStatus

LEMMA NewRequest ==
  ASSUME NEW point \in Points, NEW l \in Leads \cup {None}, NEW p \in Proposals \cup {None},
         NEW s \in LeadStatus \cup {Absent, None},
         point \in {"setStatusRead", "setStatusWrite", "countUnresolved"} => s \in LeadStatus
  PROVE  [pc |-> point, lead |-> l, proposal |-> p, status |-> s] \in Request
  BY DEF Request, CarriesStatus

LEMMA RestingRequests == Idle \in Request /\ Crashed \in Request
  BY NewRequest DEF Idle, Crashed, Points

LEMMA PointsExist ==
  /\ {"idle", "crashed", "updateLead", "removeLead", "createProposal", "editProposal",
      "setStatusRead", "setStatusWrite", "accept", "createFulfillment", "countUnresolved",
      "createFollowUp", "acceptReadLead", "acceptWriteLead", "acceptCommit"} \subseteq Points
  BY DEF Points, TxPoints

-----------------------------------------------------------------------------
(* Type correctness *)

LEMMA InitTypeOK == Init => TypeOK
  BY RestingRequests DEF Init, TypeOK, LeadDoc, ProposalDoc, FulfillmentDoc, FollowUpDoc, Absent

\* Every document and every request keeps its schema, whatever the steps do.
LEMMA StepTypeOK == TypeOK /\ [Next]_vars => TypeOK'
<1> SUFFICES ASSUME TypeOK, [Next]_vars
             PROVE  TypeOK'
  OBVIOUS
<1> USE ConstantsOK DEF TypeOK, At
<1>1. ASSUME NEW l \in Leads, CreateLead(l)
      PROVE  TypeOK'
  <2>1. PICK s \in ManualStatuses \cup {"NEW"} : lead' = [lead EXCEPT ![l].status = s]
    BY <1>1 DEF CreateLead
  <2>2. s \in LeadStatus
    BY DEF LeadStatus
  <2>3. [lead[l] EXCEPT !.status = s] \in LeadDoc
    BY <2>2, LeadWrites
  <2>4. lead' \in [Leads -> LeadDoc]
    BY <2>1, <2>3
  <2>5. QED
    BY <1>1, <2>4 DEF CreateLead
<1>2. ASSUME NEW u \in FollowUps, CompleteFollowUp(u)
      PROVE  TypeOK'
  BY <1>2 DEF CompleteFollowUp, FollowUpDoc, FollowUpState
<1>3. ASSUME NEW r \in Requests, Arrive(r)
      PROVE  TypeOK'
  <2> USE NewRequest, PointsExist
  <2>1. ASSUME NEW l \in Leads, NEW s \in ManualStatuses \cup {None}, UpdateLeadRead(r, l, s)
        PROVE  TypeOK'
    BY <2>1 DEF UpdateLeadRead, Begin
  <2>2. ASSUME NEW l \in Leads, RemoveLeadRead(r, l)
        PROVE  TypeOK'
    BY <2>2 DEF RemoveLeadRead, Begin
  <2>3. ASSUME NEW l \in Leads, CreateProposalRead(r, l)
        PROVE  TypeOK'
    BY <2>3 DEF CreateProposalRead, Begin
  <2>4. ASSUME NEW l \in Leads, CreateFulfillmentRead(r, l)
        PROVE  TypeOK'
    BY <2>4 DEF CreateFulfillmentRead, Begin
  <2>5. ASSUME NEW l \in Leads, CreateFollowUpRead(r, l)
        PROVE  TypeOK'
    BY <2>5 DEF CreateFollowUpRead, Begin, LeadDoc
  <2>6. ASSUME NEW p \in Proposals, EditProposalRead(r, p)
        PROVE  TypeOK'
    BY <2>6 DEF EditProposalRead, Begin
  <2>7. ASSUME NEW p \in Proposals, Send(r, p)
        PROVE  TypeOK'
    <3>1. proposal' \in [Proposals -> ProposalDoc]
      BY <2>7, ProposalStatusWrites DEF Send, TransitionStatus, ProposalStatus
    <3>2. proposal[p].lead \in Leads \cup {None}
      BY DEF ProposalDoc
    <3>3. req' \in [Requests -> Request]
      BY <2>7, <3>2 DEF Send, Begin, LeadStatus
    <3>4. QED
      BY <2>7, <3>1, <3>3 DEF Send
  <2>8. ASSUME NEW p \in Proposals, Reject(r, p)
        PROVE  TypeOK'
    <3>1. proposal' \in [Proposals -> ProposalDoc]
      BY <2>8, ProposalStatusWrites DEF Reject, TransitionStatus, ProposalStatus
    <3>2. proposal[p].lead \in Leads \cup {None}
      BY DEF ProposalDoc
    <3>3. req' \in [Requests -> Request]
      BY <2>8, <3>2 DEF Reject, Begin, LeadStatus
    <3>4. QED
      BY <2>8, <3>1, <3>3 DEF Reject
  <2>9. ASSUME NEW p \in Proposals, AcceptStart(r, p)
        PROVE  TypeOK'
    BY <2>9 DEF AcceptStart, Begin, ProposalDoc
  <2>10. ASSUME NEW f \in Fulfillments, CompleteFulfillment(r, f)
         PROVE  TypeOK'
    <3>1. fulfillment' \in [Fulfillments -> FulfillmentDoc]
      BY <2>10, FulfillmentWrites DEF CompleteFulfillment, FulfillmentStatus
    <3>2. fulfillment[f].lead \in Leads \cup {None}
      BY DEF FulfillmentDoc
    <3>3. req' \in [Requests -> Request]
      BY <2>10, <3>2 DEF CompleteFulfillment, Begin, LeadStatus
    <3>4. QED
      BY <2>10, <3>1, <3>3 DEF CompleteFulfillment
  <2>11. ASSUME NEW f \in Fulfillments, NEW s \in FulfillmentStatus, UpdateFulfillment(r, f, s)
         PROVE  TypeOK'
    BY <2>11, FulfillmentWrites DEF UpdateFulfillment
  <2>12. QED
    BY <1>3, <2>1, <2>2, <2>3, <2>4, <2>5, <2>6, <2>7, <2>8, <2>9, <2>10, <2>11 DEF Arrive
<1>4. ASSUME NEW r \in Requests, Proceed(r)
      PROVE  TypeOK'
  <2> DEFINE q == req[r]
  <2>0. q \in Request /\ q.pc \in Points /\ q.lead \in Leads \cup {None}
        /\ q.proposal \in Proposals \cup {None} /\ q.status \in LeadStatus \cup {Absent, None}
        /\ CarriesStatus(q)
    BY DEF Request
  <2>a. ASSUME Return(r)
        PROVE  req' \in [Requests -> Request]
    BY <2>a, RestingRequests DEF Return
  <2>b. ASSUME NEW point \in Points, Goto(r, point),
               point \in {"setStatusRead", "setStatusWrite", "countUnresolved"}
                 => q.status \in LeadStatus
        PROVE  req' \in [Requests -> Request]
    <3>1. [q EXCEPT !.pc = point] \in Request
      BY <2>0, <2>b, RequestMoves
    <3>2. QED
      BY <2>b, <3>1 DEF Goto
  <2>c. ASSUME NEW s \in LeadStatus, WriteLead(q.lead, [lead[q.lead] EXCEPT !.status = s])
        PROVE  lead' \in [Leads -> LeadDoc] /\ outdated' \subseteq Requests
    BY <2>c, LeadWrites DEF WriteLead, OutdatedBy
  <2>1. CASE UpdateLeadWrite(r)
    BY <2>1, <2>0, <2>a DEF UpdateLeadWrite, WriteLead, OutdatedBy, LeadDoc
  <2>2. CASE RemoveLeadWrite(r)
    <3>1. lead' \in [Leads -> LeadDoc]
      BY <2>2 DEF RemoveLeadWrite, WriteLead, LeadDoc
    <3>2. QED
      BY <2>2, <2>a, <3>1 DEF RemoveLeadWrite, WriteLead, OutdatedBy
  <2>3. CASE SetStatusRead(r)
    <3>1. CASE Return(r)
      BY <2>3, <3>1, <2>a DEF SetStatusRead
    <3>2. CASE Goto(r, "setStatusWrite")
      BY <2>3, <3>2, <2>0, <2>b, PointsExist DEF SetStatusRead, CarriesStatus
    <3>3. QED
      BY <2>3, <3>1, <3>2 DEF SetStatusRead
  <2>4. CASE SetStatusWrite(r)
    <3>1. q.status \in LeadStatus
      BY <2>4, <2>0 DEF SetStatusWrite, CarriesStatus
    <3>2. QED
      BY <2>4, <3>1, <2>a, <2>c DEF SetStatusWrite
  <2>5. CASE CreateProposalWrite(r)
    <3>1. proposal' \in [Proposals -> ProposalDoc]
      BY <2>5, <2>0 DEF CreateProposalWrite, ProposalDoc, ProposalStatus
    <3>2. QED
      BY <2>5, <3>1, <2>a DEF CreateProposalWrite
  <2>6. CASE EditProposalWrite(r)
    <3>1. proposal' \in [Proposals -> ProposalDoc]
      <4>1. PICK c \in Contents : proposal' = [proposal EXCEPT ![q.proposal].content = c]
        BY <2>6 DEF EditProposalWrite
      <4>2. \A p \in Proposals : [proposal[p] EXCEPT !.content = c] \in ProposalDoc
        BY ProposalContentWrites
      <4>3. QED
        BY <4>1, <4>2
    <3>2. QED
      BY <2>6, <3>1, <2>a DEF EditProposalWrite
  <2>7. CASE AcceptTransition(r)
    <3>1. req' \in [Requests -> Request]
      BY <2>7, <2>b, PointsExist DEF AcceptTransition
    <3>2. QED
      BY <2>7, <3>1 DEF AcceptTransition
  <2>8. CASE AcceptRefused(r)
    BY <2>8, <2>a DEF AcceptRefused
  <2>9. CASE AcceptReadLead(r)
    <3>1. Return(r) \/ Goto(r, "acceptCommit") \/ Goto(r, "acceptWriteLead")
      BY <2>9 DEF AcceptReadLead
    <3>2. req' \in [Requests -> Request]
      BY <3>1, <2>a, <2>b, PointsExist
    <3>3. QED
      BY <2>9, <3>2 DEF AcceptReadLead
  <2>10. CASE AcceptWriteLead(r)
    <3>1. CASE Goto(r, "accept")
      BY <2>10, <3>1, <2>b, PointsExist DEF AcceptWriteLead
    <3>2. CASE req' = [req EXCEPT ![r].pc = "acceptCommit", ![r].status = "CONFIRMED"]
      <4>1. [q EXCEPT !.pc = "acceptCommit", !.status = "CONFIRMED"] \in Request
        BY <2>0, PointsExist DEF Request, CarriesStatus, LeadStatus
      <4>2. req' \in [Requests -> Request]
        BY <3>2, <4>1
      <4>3. QED
        BY <2>10, <4>2 DEF AcceptWriteLead
    <3>3. QED
      BY <2>10, <3>1, <3>2 DEF AcceptWriteLead
  <2>11. CASE AcceptCommit(r)
    <3>1. proposal' \in [Proposals -> ProposalDoc]
      <4>1. proposal' = [proposal EXCEPT ![q.proposal].status = "ACCEPTED"]
        BY <2>11 DEF AcceptCommit
      <4>2. \A p \in Proposals : [proposal[p] EXCEPT !.status = "ACCEPTED"] \in ProposalDoc
        BY ProposalStatusWrites DEF ProposalStatus
      <4>3. QED
        BY <4>1, <4>2
    <3>2. lead' \in [Leads -> LeadDoc]
      <4>1. lead' = lead \/ lead' = [lead EXCEPT ![q.lead].status = "CONFIRMED"]
        BY <2>11 DEF AcceptCommit
      <4>2. \A l \in Leads : [lead[l] EXCEPT !.status = "CONFIRMED"] \in LeadDoc
        BY LeadWrites DEF LeadStatus
      <4>3. QED
        BY <4>1, <4>2
    <3>3. fulfillment' \in [Fulfillments -> FulfillmentDoc]
      <4>1. PICK f \in OpenedIds : fulfillment' = [fulfillment EXCEPT ![f] =
                    [status |-> "PENDING", lead |-> q.lead, opener |-> q.proposal]]
        BY <2>11 DEF AcceptCommit
      <4>2. [status |-> "PENDING", lead |-> q.lead, opener |-> q.proposal] \in FulfillmentDoc
        BY <2>0 DEF FulfillmentDoc, FulfillmentStatus
      <4>3. QED
        BY <4>1, <4>2
    <3>4. QED
      <4>1. outdated' \subseteq Requests
        BY <2>11 DEF AcceptCommit, OutdatedBy
      <4>2. QED
        BY <2>11, <3>1, <3>2, <3>3, <4>1, <2>a DEF AcceptCommit
  <2>12. CASE CreateFulfillmentWrite(r)
    <3>1. fulfillment' \in [Fulfillments -> FulfillmentDoc]
      <4>1. PICK f \in StaffIds, s \in FulfillmentStatus :
              fulfillment' = [fulfillment EXCEPT ![f] =
                                [status |-> s, lead |-> q.lead, opener |-> None]]
        BY <2>12 DEF CreateFulfillmentWrite
      <4>2. [status |-> s, lead |-> q.lead, opener |-> None] \in FulfillmentDoc
        BY <2>0 DEF FulfillmentDoc
      <4>3. QED
        BY <4>1, <4>2
    <3>2. QED
      BY <2>12, <3>1, <2>a DEF CreateFulfillmentWrite
  <2>13. CASE CountUnresolved(r)
    <3>1. CASE Return(r)
      BY <2>13, <3>1, <2>a DEF CountUnresolved
    <3>2. CASE Goto(r, "setStatusRead")
      BY <2>13, <3>2, <2>0, <2>b, PointsExist DEF CountUnresolved, CarriesStatus
    <3>3. QED
      BY <2>13, <3>1, <3>2 DEF CountUnresolved
  <2>14. CASE CreateFollowUpWrite(r)
    <3>1. followup' \in [FollowUps -> FollowUpDoc]
      BY <2>14, <2>0 DEF CreateFollowUpWrite, FollowUpDoc, FollowUpState
    <3>2. CASE Return(r)
      BY <2>14, <3>1, <3>2, <2>a DEF CreateFollowUpWrite
    <3>3. CASE req' = [req EXCEPT ![r].pc = "setStatusRead", ![r].status = "FOLLOW_UP"]
      <4>1. [q EXCEPT !.pc = "setStatusRead", !.status = "FOLLOW_UP"] \in Request
        BY <2>0, PointsExist DEF Request, CarriesStatus, LeadStatus
      <4>2. req' \in [Requests -> Request]
        BY <3>3, <4>1
      <4>3. QED
        BY <2>14, <3>1, <4>2 DEF CreateFollowUpWrite
    <3>4. QED
      BY <2>14, <3>2, <3>3 DEF CreateFollowUpWrite
  <2>15. QED
    BY <1>4, <2>1, <2>2, <2>3, <2>4, <2>5, <2>6, <2>7, <2>8, <2>9, <2>10, <2>11, <2>12, <2>13, <2>14
       DEF Proceed
<1>5. ASSUME NEW r \in Requests, Crash(r)
      PROVE  TypeOK'
  BY <1>5, RestingRequests DEF Crash
<1>6. ASSUME NEW r \in Requests, Restart(r)
      PROVE  TypeOK'
  BY <1>6, RestingRequests DEF Restart, Return
<1>7. CASE UNCHANGED vars
  BY <1>7 DEF vars
<1>8. QED
  BY <1>1, <1>2, <1>3, <1>4, <1>5, <1>6, <1>7 DEF Next

\* The collections and the requests in flight hold values of their schemas in every
\* reachable state of the pipeline.
THEOREM TypeCorrect == Spec => []TypeOK
  BY InitTypeOK, StepTypeOK, PTL DEF Spec

-----------------------------------------------------------------------------
(***************************************************************************)
(* Acceptance.  Of all the steps only five kinds matter to it: a proposal  *)
(* is drafted, offered or rejected by a plain write, a transaction opens   *)
(* on a proposal, a transaction commits.  StepKinds shows that every other *)
(* step is quiet; the invariant and the refinement are proved on the kinds.*)
(***************************************************************************)

Opener(f) == fulfillment[f].opener
Unopened(f) == fulfillment[f].status = Absent

\* The orders are untouched, though a fulfillment may be created without an opener.
OrdersKept ==
  \A f \in Fulfillments : /\ Opener(f)' = Opener(f)
                          /\ Unopened(f)' => Unopened(f)

\* No transaction opens or changes proposal; requests about to open one know theirs.
TransactionsKept ==
  \A r \in Requests :
    /\ InTransaction(r)' => InTransaction(r) /\ req'[r].proposal = req[r].proposal
    /\ At(r, "accept")' => req'[r].proposal \in Proposals

Quiet == Stage' = Stage /\ OrdersKept /\ TransactionsKept

\* A plain write moves proposal p, which no transaction holds.
PlainMove(p, from, to) ==
  /\ Stage[p] \in from
  /\ ~ProposalLocked(p)
  /\ Stage' = [Stage EXCEPT ![p] = to]
  /\ OrdersKept
  /\ TransactionsKept

PlainStep(p) ==
  \/ PlainMove(p, {Absent}, "DRAFT")
  \/ PlainMove(p, {"DRAFT", "SENT"}, "SENT")
  \/ PlainMove(p, {"DRAFT", "SENT", "VIEWED"}, "REJECTED")

\* Requests that open a transaction, or are about to, name a proposal.
AcceptNamesProposal ==
  \A r \in Requests : At(r, "accept") \/ InTransaction(r) => req[r].proposal \in Proposals

\* An open transaction holds a proposal still acceptable, and holds it alone.
TransactionHolds ==
  \A r \in Requests : InTransaction(r) =>
    /\ Stage[req[r].proposal] \in Acceptable
    /\ \A q \in Requests \ {r} : InTransaction(q) => req[q].proposal # req[r].proposal

\* Only acceptance names an opener, on a fulfillment that exists.
OpenersExist ==
  \A f \in Fulfillments : Unopened(f) \/ f \in StaffIds => Opener(f) = None

\* The inductive invariant of acceptance.
AcceptInv ==
  /\ TypeOK
  /\ AcceptNamesProposal
  /\ TransactionHolds
  /\ OpenersExist
  /\ AcceptedIffFulfilled

\* A step that changes neither proposals nor fulfillments, and opens no transaction.
Untouched(r) ==
  /\ UNCHANGED <<proposal, fulfillment>>
  /\ \A q \in Requests \ {r} : req'[q] = req[q]
  /\ \/ req'[r].pc \notin TxPoints \cup {"accept"}
     \/ InTransaction(r) /\ req'[r].proposal = req[r].proposal
     \/ req'[r].pc = "accept" /\ req'[r].proposal \in Proposals

LEMMA UntouchedIsQuiet ==
  ASSUME AcceptNamesProposal, NEW r \in Requests, Untouched(r)
  PROVE  Quiet
  BY DEF Untouched, AcceptNamesProposal, Quiet, Stage, OrdersKept, Opener, Unopened,
         TransactionsKept, InTransaction, At, TxPoints

\* The steps a handler takes from point to point, seen from the transactions.
LEMMA GotoMoves ==
  ASSUME TypeOK, NEW r \in Requests, NEW point, Goto(r, point)
  PROVE  /\ req'[r].pc = point
         /\ req'[r].proposal = req[r].proposal
         /\ \A q \in Requests \ {r} : req'[q] = req[q]
  <1>1. req[r] \in Request
    BY DEF TypeOK
  <1>2. /\ [req[r] EXCEPT !.pc = point].pc = point
        /\ [req[r] EXCEPT !.pc = point].proposal = req[r].proposal
    BY <1>1 DEF Request
  <1>3. QED
    BY <1>2 DEF TypeOK, Goto

LEMMA ReturnMoves ==
  ASSUME TypeOK, NEW r \in Requests, Return(r)
  PROVE  /\ req'[r].pc = "idle"
         /\ \A q \in Requests \ {r} : req'[q] = req[q]
  BY DEF TypeOK, Return, Idle

LEMMA BeginMoves ==
  ASSUME TypeOK, NEW r \in Requests, NEW point, NEW l, NEW p, NEW s, Begin(r, point, l, p, s)
  PROVE  /\ req'[r].pc = point /\ req'[r].proposal = p
         /\ \A q \in Requests \ {r} : req'[q] = req[q]
  BY DEF TypeOK, Begin

\* One request moves; it stays in its transaction, or is in none.
LEMMA OneMoves ==
  ASSUME AcceptNamesProposal, NEW r \in Requests,
         \A q \in Requests \ {r} : req'[q] = req[q],
         \/ req'[r].pc \notin TxPoints \cup {"accept"}
         \/ InTransaction(r) /\ req'[r].proposal = req[r].proposal
         \/ req'[r].pc = "accept" /\ req'[r].proposal \in Proposals
  PROVE  TransactionsKept
  BY DEF AcceptNamesProposal, TransactionsKept, InTransaction, At, TxPoints

\* A fulfillment rewritten with the opener it had.
LEMMA KeepsOrders ==
  ASSUME TypeOK, NEW f \in Fulfillments, NEW d, fulfillment' = [fulfillment EXCEPT ![f] = d],
         d.opener = fulfillment[f].opener, d.status # Absent
  PROVE  OrdersKept
<1>1. fulfillment'[f] = d /\ \A g \in Fulfillments \ {f} : fulfillment'[g] = fulfillment[g]
  BY DEF TypeOK
<1>2. SUFFICES ASSUME NEW g \in Fulfillments
               PROVE  Opener(g)' = Opener(g) /\ (Unopened(g)' => Unopened(g))
  BY DEF OrdersKept
<1>3. CASE g = f
  BY <1>1, <1>3 DEF Opener, Unopened
<1>4. CASE g # f
  BY <1>1, <1>4 DEF Opener, Unopened
<1>5. QED
  BY <1>3, <1>4

\* A new status leaves the opener alone, and no written status is Absent.
LEMMA StatusWriteKeepsOrders ==
  ASSUME TypeOK, NEW f \in Fulfillments, NEW s \in FulfillmentStatus,
         fulfillment' = [fulfillment EXCEPT ![f].status = s]
  PROVE  OrdersKept
<1> DEFINE d == [fulfillment[f] EXCEPT !.status = s]
<1>1. fulfillment' = [fulfillment EXCEPT ![f] = d]
  OBVIOUS
<1>2. fulfillment[f] \in FulfillmentDoc
  BY DEF TypeOK
<1>3. d.opener = fulfillment[f].opener /\ d.status = s
  BY <1>2 DEF FulfillmentDoc
<1>4. s # Absent
  BY DEF FulfillmentStatus, Absent
<1> HIDE DEF d
<1>5. QED
  BY <1>1, <1>3, <1>4, KeepsOrders

\* A proposal's new status is its new stage.
LEMMA StatusWriteMovesStage ==
  ASSUME TypeOK, NEW p \in Proposals, NEW s, proposal' = [proposal EXCEPT ![p].status = s]
  PROVE  Stage' = [Stage EXCEPT ![p] = s]
<1>1. proposal[p] \in ProposalDoc
  BY DEF TypeOK
<1>2. [proposal[p] EXCEPT !.status = s].status = s
  BY <1>1 DEF ProposalDoc
<1>3. proposal'[p].status = s /\ \A x \in Proposals \ {p} : proposal'[x] = proposal[x]
  BY <1>2 DEF TypeOK
<1>4. \A x \in Proposals : proposal'[x].status = IF x = p THEN s ELSE Stage[x]
  BY <1>3 DEF Stage
<1>5. Stage' = [x \in Proposals |-> IF x = p THEN s ELSE Stage[x]]
  BY <1>4 DEF Stage
<1>6. QED
  BY <1>5 DEF Stage

Opens(r) ==
  /\ At(r, "accept") /\ Stage[req[r].proposal] \in Acceptable /\ ~ProposalLocked(req[r].proposal)
  /\ InTransaction(r)' /\ req'[r].proposal = req[r].proposal
  /\ \A q \in Requests \ {r} : req'[q] = req[q]
  /\ UNCHANGED <<proposal, fulfillment>>

Commits(r) ==
  /\ InTransaction(r)
  /\ Stage' = [Stage EXCEPT ![req[r].proposal] = "ACCEPTED"]
  /\ \E f \in OpenedIds :
       /\ Unopened(f) /\ ~Unopened(f)' /\ Opener(f)' = req[r].proposal
       /\ \A g \in Fulfillments \ {f} : fulfillment'[g] = fulfillment[g]
  /\ req'[r].pc = "idle"
  /\ \A q \in Requests \ {r} : req'[q] = req[q]

\* The steps of a request that has just arrived.
LEMMA ArriveKinds ==
  ASSUME AcceptInv, NEW r \in Requests, Arrive(r)
  PROVE  Quiet \/ \E p \in Proposals : PlainStep(p)
<1> USE BeginMoves, OneMoves, UntouchedIsQuiet DEF AcceptInv, TxPoints
<1>1. ASSUME NEW l \in Leads, NEW s \in ManualStatuses \cup {None}, UpdateLeadRead(r, l, s)
      PROVE  Quiet
  BY <1>1 DEF UpdateLeadRead, Untouched
<1>2. ASSUME NEW l \in Leads, RemoveLeadRead(r, l)
      PROVE  Quiet
  BY <1>2 DEF RemoveLeadRead, Untouched
<1>3. ASSUME NEW l \in Leads, CreateProposalRead(r, l)
      PROVE  Quiet
  BY <1>3 DEF CreateProposalRead, Untouched
<1>4. ASSUME NEW l \in Leads, CreateFulfillmentRead(r, l)
      PROVE  Quiet
  BY <1>4 DEF CreateFulfillmentRead, Untouched
<1>5. ASSUME NEW l \in Leads, CreateFollowUpRead(r, l)
      PROVE  Quiet
  BY <1>5 DEF CreateFollowUpRead, Untouched
<1>6. ASSUME NEW p \in Proposals, EditProposalRead(r, p)
      PROVE  Quiet
  BY <1>6 DEF EditProposalRead, Untouched
<1>7. ASSUME NEW p \in Proposals, Send(r, p)
      PROVE  PlainStep(p)
  <2>1. TransactionsKept
    BY <1>7 DEF Send
  <2>2. Stage' = [Stage EXCEPT ![p] = "SENT"]
    BY <1>7, StatusWriteMovesStage DEF Send, TransitionStatus
  <2>3. QED
    BY <1>7, <2>1, <2>2 DEF Send, TransitionStatus, Stage, PlainStep, PlainMove, OrdersKept,
       Opener, Unopened
<1>8. ASSUME NEW p \in Proposals, Reject(r, p)
      PROVE  PlainStep(p)
  <2>1. TransactionsKept
    BY <1>8 DEF Reject
  <2>2. Stage' = [Stage EXCEPT ![p] = "REJECTED"]
    BY <1>8, StatusWriteMovesStage DEF Reject, TransitionStatus
  <2>3. QED
    BY <1>8, <2>1, <2>2 DEF Reject, TransitionStatus, Stage, PlainStep, PlainMove, OrdersKept,
       Opener, Unopened
<1>9. ASSUME NEW p \in Proposals, AcceptStart(r, p)
      PROVE  Quiet
  BY <1>9 DEF AcceptStart, Untouched
<1>10. ASSUME NEW f \in Fulfillments, CompleteFulfillment(r, f)
       PROVE  Quiet
  <2>1. TransactionsKept
    BY <1>10 DEF CompleteFulfillment
  <2>2. OrdersKept
    <3>1. "COMPLETED" \in FulfillmentStatus
      BY DEF FulfillmentStatus
    <3>2. QED
      BY <1>10, <3>1, StatusWriteKeepsOrders DEF CompleteFulfillment
  <2>3. QED
    BY <1>10, <2>1, <2>2 DEF CompleteFulfillment, Quiet, Stage
<1>11. ASSUME NEW f \in Fulfillments, NEW s \in FulfillmentStatus, UpdateFulfillment(r, f, s)
       PROVE  Quiet
  <2>1. TransactionsKept
    BY <1>11 DEF UpdateFulfillment, TransactionsKept, AcceptNamesProposal, InTransaction, At
  <2>2. OrdersKept
    BY <1>11, StatusWriteKeepsOrders DEF UpdateFulfillment
  <2>3. QED
    BY <1>11, <2>1, <2>2 DEF UpdateFulfillment, Quiet, Stage
<1>12. QED
  BY <1>1, <1>2, <1>3, <1>4, <1>5, <1>6, <1>7, <1>8, <1>9, <1>10, <1>11 DEF Arrive

\* The steps of a request in flight.
LEMMA ProceedKinds ==
  ASSUME AcceptInv, NEW r \in Requests, Proceed(r)
  PROVE  Quiet \/ (\E p \in Proposals : PlainStep(p)) \/ Opens(r) \/ Commits(r)
<1> USE ReturnMoves, GotoMoves, OneMoves, UntouchedIsQuiet DEF AcceptInv, TxPoints
<1>1. CASE UpdateLeadWrite(r)
  BY <1>1 DEF UpdateLeadWrite, Untouched
<1>2. CASE RemoveLeadWrite(r)
  BY <1>2 DEF RemoveLeadWrite, Untouched
<1>3. CASE SetStatusRead(r)
  BY <1>3 DEF SetStatusRead, Untouched
<1>4. CASE SetStatusWrite(r)
  BY <1>4 DEF SetStatusWrite, Untouched
<1>5. CASE CreateProposalWrite(r)
  <2>1. PICK p \in Proposals, c \in Contents :
          /\ proposal[p].status = Absent
          /\ proposal' = [proposal EXCEPT ![p] =
                            [status |-> "DRAFT", lead |-> req[r].lead, content |-> c]]
    BY <1>5 DEF CreateProposalWrite
  <2>2. ~ProposalLocked(p)
    BY <2>1 DEF ProposalLocked, TransactionHolds, Stage, Acceptable, Absent, AcceptNamesProposal
  <2>3. Stage' = [Stage EXCEPT ![p] = "DRAFT"]
    BY <2>1 DEF Stage, TypeOK
  <2>4. TransactionsKept
    BY <1>5 DEF CreateProposalWrite
  <2>5. OrdersKept
    BY <1>5 DEF CreateProposalWrite, OrdersKept, Opener, Unopened
  <2>6. QED
    BY <2>1, <2>2, <2>3, <2>4, <2>5 DEF PlainStep, PlainMove, Stage
<1>6. CASE EditProposalWrite(r)
  <2>1. Stage' = Stage
    BY <1>6 DEF EditProposalWrite, Stage, TypeOK, ProposalDoc
  <2>2. TransactionsKept
    BY <1>6 DEF EditProposalWrite
  <2>3. OrdersKept
    BY <1>6 DEF EditProposalWrite, OrdersKept, Opener, Unopened
  <2>4. QED
    BY <2>1, <2>2, <2>3 DEF Quiet
<1>7. CASE AcceptTransition(r)
  BY <1>7 DEF AcceptTransition, Opens, Stage, AcceptNamesProposal, InTransaction, TypeOK
<1>8. CASE AcceptRefused(r)
  BY <1>8 DEF AcceptRefused, Untouched
<1>9. CASE AcceptReadLead(r)
  <2>1. Return(r) \/ Goto(r, "acceptCommit") \/ Goto(r, "acceptWriteLead")
    BY <1>9 DEF AcceptReadLead
  <2>2. QED
    BY <1>9, <2>1 DEF AcceptReadLead, Untouched, InTransaction, At
<1>10. CASE AcceptWriteLead(r)
  <2>1. CASE Goto(r, "accept")
    BY <1>10, <2>1 DEF AcceptWriteLead, Untouched, InTransaction, At, AcceptNamesProposal
  <2>2. CASE req' = [req EXCEPT ![r].pc = "acceptCommit", ![r].status = "CONFIRMED"]
    <3>1. req'[r].proposal = req[r].proposal /\ \A q \in Requests \ {r} : req'[q] = req[q]
      BY <2>2 DEF TypeOK, Request
    <3>2. QED
      BY <1>10, <3>1 DEF AcceptWriteLead, Untouched, InTransaction, At
  <2>3. QED
    BY <1>10, <2>1, <2>2 DEF AcceptWriteLead
<1>11. CASE AcceptCommit(r)
  <2>1. InTransaction(r) /\ req[r].proposal \in Proposals
    BY <1>11 DEF AcceptCommit, InTransaction, At, AcceptNamesProposal
  <2>2. Stage' = [Stage EXCEPT ![req[r].proposal] = "ACCEPTED"]
    <3>1. proposal' = [proposal EXCEPT ![req[r].proposal].status = "ACCEPTED"]
      BY <1>11 DEF AcceptCommit
    <3>2. QED
      BY <2>1, <3>1, StatusWriteMovesStage
  <2>3. PICK f \in OpenedIds :
          /\ fulfillment[f].status = Absent
          /\ fulfillment' = [fulfillment EXCEPT ![f] =
               [status |-> "PENDING", lead |-> req[r].lead, opener |-> req[r].proposal]]
    BY <1>11 DEF AcceptCommit
  <2>4. /\ Unopened(f) /\ ~Unopened(f)' /\ Opener(f)' = req[r].proposal
        /\ \A g \in Fulfillments \ {f} : fulfillment'[g] = fulfillment[g]
    BY <2>3 DEF Unopened, Opener, TypeOK, Fulfillments, Absent
  <2>5. QED
    BY <1>11, <2>1, <2>2, <2>4 DEF AcceptCommit, Commits
<1>12. CASE CreateFulfillmentWrite(r)
  <2>1. PICK f \in StaffIds, s \in FulfillmentStatus :
          /\ fulfillment[f].status = Absent
          /\ fulfillment' = [fulfillment EXCEPT ![f] =
                               [status |-> s, lead |-> req[r].lead, opener |-> None]]
    BY <1>12 DEF CreateFulfillmentWrite
  <2>2. fulfillment[f].opener = None
    BY DEF OpenersExist, Opener, Fulfillments
  <2>3. OrdersKept
    <3> DEFINE d == [status |-> s, lead |-> req[r].lead, opener |-> None]
    <3>1. d.opener = fulfillment[f].opener /\ d.status # Absent
      BY <2>2 DEF FulfillmentStatus, Absent
    <3>2. f \in Fulfillments /\ fulfillment' = [fulfillment EXCEPT ![f] = d]
      BY <2>1 DEF Fulfillments
    <3> HIDE DEF d
    <3>3. QED
      BY <3>1, <3>2, KeepsOrders
  <2>4. TransactionsKept
    BY <1>12 DEF CreateFulfillmentWrite
  <2>5. QED
    BY <1>12, <2>3, <2>4 DEF CreateFulfillmentWrite, Quiet, Stage
<1>13. CASE CountUnresolved(r)
  BY <1>13 DEF CountUnresolved, Untouched
<1>14. CASE CreateFollowUpWrite(r)
  <2>1. \/ req'[r].pc = "idle"
        \/ req'[r].pc = "setStatusRead"
    BY <1>14 DEF CreateFollowUpWrite, TypeOK, Request
  <2>2. \A q \in Requests \ {r} : req'[q] = req[q]
    BY <1>14 DEF CreateFollowUpWrite, TypeOK, Return
  <2>3. QED
    BY <1>14, <2>1, <2>2 DEF CreateFollowUpWrite, Untouched
<1>15. QED
  BY <1>1, <1>2, <1>3, <1>4, <1>5, <1>6, <1>7, <1>8, <1>9, <1>10, <1>11, <1>12, <1>13, <1>14
     DEF Proceed

LEMMA StepKinds ==
  ASSUME AcceptInv, [Next]_vars
  PROVE  \/ Quiet
         \/ \E p \in Proposals : PlainStep(p)
         \/ \E r \in Requests : Opens(r) \/ Commits(r)
<1> USE OneMoves, UntouchedIsQuiet DEF AcceptInv
<1>1. ASSUME NEW l \in Leads, CreateLead(l)
      PROVE  Quiet
  BY <1>1 DEF CreateLead, Quiet, OrdersKept, Opener, Unopened, Stage, TransactionsKept,
     InTransaction, At, AcceptNamesProposal
<1>2. ASSUME NEW u \in FollowUps, CompleteFollowUp(u)
      PROVE  Quiet
  BY <1>2 DEF CompleteFollowUp, Quiet, OrdersKept, Opener, Unopened, Stage, TransactionsKept,
     InTransaction, At, AcceptNamesProposal
<1>3. ASSUME NEW r \in Requests, Crash(r) \/ Restart(r)
      PROVE  Quiet
  <2>1. req'[r].pc \in {"idle", "crashed"} /\ \A q \in Requests \ {r} : req'[q] = req[q]
    BY <1>3 DEF Crash, Restart, Return, Idle, Crashed, TypeOK
  <2>2. QED
    BY <1>3, <2>1 DEF Crash, Restart, Untouched, TxPoints
<1>4. CASE UNCHANGED vars
  BY <1>4 DEF vars, Quiet, OrdersKept, Opener, Unopened, Stage, TransactionsKept,
     InTransaction, At, AcceptNamesProposal
<1>5. QED
  BY <1>1, <1>2, <1>3, <1>4, ArriveKinds, ProceedKinds DEF Next

-----------------------------------------------------------------------------
(* Acceptance is atomic *)

LEMMA InitAcceptInv == Init => AcceptInv
<1> SUFFICES ASSUME Init
             PROVE  AcceptInv
  OBVIOUS
<1>1. \A r \in Requests : ~At(r, "accept") /\ ~InTransaction(r)
  BY DEF Init, At, InTransaction, TxPoints, Idle
<1>2. \A f \in Fulfillments : fulfillment[f].opener = None
  BY DEF Init
<1>3. AcceptedIffFulfilled
  <2>1. \A p \in Proposals : proposal[p].status # "ACCEPTED"
    BY DEF Init, Absent
  <2>2. \A p \in Proposals : OpenedBy(p) = {}
    BY <1>2, ConstantsOK DEF OpenedBy
  <2>3. QED
    BY <2>1, <2>2 DEF AcceptedIffFulfilled
<1>4. QED
  BY <1>1, <1>2, <1>3, InitTypeOK DEF AcceptInv, AcceptNamesProposal, TransactionHolds,
     OpenersExist, Opener

\* What the conjuncts of the invariant need from the proposals and the orders alone.
LEMMA QuietKeepsAcceptInv == AcceptInv /\ TypeOK' /\ Quiet => AcceptInv'
<1> SUFFICES ASSUME AcceptInv, TypeOK', Quiet
             PROVE  AcceptInv'
  OBVIOUS
<1> USE DEF AcceptInv, Quiet
<1>1. AcceptNamesProposal'
  BY DEF AcceptNamesProposal, TransactionsKept
<1>2. TransactionHolds'
  BY DEF TransactionHolds, TransactionsKept
<1>3. OpenersExist'
  BY DEF OpenersExist, OrdersKept
<1>4. AcceptedIffFulfilled'
  <2>1. \A p \in Proposals : proposal'[p].status = proposal[p].status
    BY DEF Stage
  <2>2. \A p : OpenedBy(p)' = OpenedBy(p)
    BY DEF OpenedBy, OrdersKept, Opener
  <2>3. QED
    BY <2>1, <2>2 DEF AcceptedIffFulfilled
<1>5. QED
  BY <1>1, <1>2, <1>3, <1>4

\* A plain write finds the proposal in no transaction and not accepted.
LEMMA PlainStepKeepsAcceptInv ==
  ASSUME AcceptInv, TypeOK', NEW p \in Proposals, PlainStep(p)
  PROVE  AcceptInv'
<1> USE DEF AcceptInv
<1>1. /\ Stage[p] # "ACCEPTED" /\ ~ProposalLocked(p) /\ OrdersKept /\ TransactionsKept
      /\ \E to : to # "ACCEPTED" /\ Stage' = [Stage EXCEPT ![p] = to]
  BY DEF PlainStep, PlainMove, Absent
<1>2. PICK to : to # "ACCEPTED" /\ Stage' = [Stage EXCEPT ![p] = to]
  BY <1>1
<1>3. /\ \A x \in Proposals : Stage'[x] = IF x = p THEN to ELSE Stage[x]
      /\ \A x \in Proposals : Stage[x] = proposal[x].status /\ Stage'[x] = proposal'[x].status
  BY <1>2 DEF Stage
<1>4. AcceptNamesProposal'
  BY <1>1 DEF AcceptNamesProposal, TransactionsKept
<1>5. TransactionHolds'
  BY <1>1, <1>3 DEF TransactionHolds, TransactionsKept, ProposalLocked, AcceptNamesProposal
<1>6. OpenersExist'
  BY <1>1 DEF OpenersExist, OrdersKept
<1>7. AcceptedIffFulfilled'
  <2>1. \A x : OpenedBy(x)' = OpenedBy(x)
    BY <1>1 DEF OpenedBy, OrdersKept, Opener
  <2>2. \A x \in Proposals : proposal'[x].status = "ACCEPTED" <=> proposal[x].status = "ACCEPTED"
    BY <1>1, <1>2, <1>3
  <2>3. QED
    BY <2>1, <2>2 DEF AcceptedIffFulfilled
<1>8. QED
  BY <1>4, <1>5, <1>6, <1>7

\* The first write of a transaction locks a proposal that no other transaction holds.
LEMMA OpensKeepsAcceptInv ==
  ASSUME AcceptInv, TypeOK', NEW r \in Requests, Opens(r)
  PROVE  AcceptInv'
<1> USE DEF AcceptInv
<1> DEFINE p == req[r].proposal
<1>1. p \in Proposals
  BY DEF Opens, AcceptNamesProposal
<1>2. AcceptNamesProposal'
  BY <1>1 DEF Opens, AcceptNamesProposal, InTransaction, At
<1>3. TransactionHolds'
  BY DEF Opens, TransactionHolds, InTransaction, At, ProposalLocked, Stage
<1>4. OpenersExist' /\ AcceptedIffFulfilled'
  BY DEF Opens, OpenersExist, Opener, Unopened, AcceptedIffFulfilled, OpenedBy
<1>5. QED
  BY <1>2, <1>3, <1>4

\* The commit accepts the proposal and opens its first and only fulfillment.
LEMMA CommitsKeepsAcceptInv ==
  ASSUME AcceptInv, TypeOK', NEW r \in Requests, Commits(r)
  PROVE  AcceptInv'
<1> USE DEF AcceptInv
<1>1. PICK p \in Proposals : p = req[r].proposal /\ InTransaction(r) /\ Stage[p] # "ACCEPTED"
  BY DEF Commits, AcceptNamesProposal, TransactionHolds, Acceptable
<1>2. PICK f \in OpenedIds :
        /\ Unopened(f) /\ ~Unopened(f)' /\ Opener(f)' = p
        /\ \A g \in Fulfillments \ {f} : fulfillment'[g] = fulfillment[g]
  BY <1>1 DEF Commits
<1>3. f \in Fulfillments /\ f \notin StaffIds /\ Opener(f) = None
  BY <1>2, ConstantsOK DEF Fulfillments, OpenersExist
<1>4. \A x \in Proposals : /\ Stage'[x] = IF x = p THEN "ACCEPTED" ELSE Stage[x]
                           /\ Stage[x] = proposal[x].status /\ Stage'[x] = proposal'[x].status
  BY <1>1 DEF Commits, Stage
<1>5. \A q \in Requests : /\ InTransaction(q)' => q # r /\ InTransaction(q)
                          /\ q # r => req'[q] = req[q]
  BY DEF Commits, InTransaction, At, TxPoints
<1>6. AcceptNamesProposal'
  <2>1. ~At(r, "accept")' /\ \A q \in Requests : At(q, "accept")' => q # r /\ At(q, "accept")
    BY DEF Commits, At
  <2>2. QED
    BY <1>5, <2>1 DEF AcceptNamesProposal
<1>7. TransactionHolds'
  <2>1. SUFFICES ASSUME NEW q \in Requests, InTransaction(q)'
                 PROVE  /\ Stage'[req'[q].proposal] \in Acceptable
                        /\ \A x \in Requests \ {q} : InTransaction(x)' =>
                             req'[x].proposal # req'[q].proposal
    BY DEF TransactionHolds
  <2>2. q # r /\ InTransaction(q) /\ req'[q] = req[q] /\ req[q].proposal \in Proposals
    BY <1>5, <2>1 DEF AcceptNamesProposal
  <2>3. req[q].proposal # p /\ Stage[req[q].proposal] \in Acceptable
    BY <1>1, <2>2 DEF TransactionHolds
  <2>4. \A x \in Requests \ {q} : InTransaction(x)' => req'[x].proposal # req'[q].proposal
    BY <1>5, <2>2 DEF TransactionHolds
  <2>5. QED
    BY <1>4, <2>2, <2>3, <2>4
<1>8. OpenersExist'
  BY <1>2, <1>3 DEF OpenersExist, Opener, Unopened
<1>9. AcceptedIffFulfilled'
  <2>1. OpenedBy(p) = {}
    BY <1>1, <1>4 DEF AcceptedIffFulfilled
  <2>2. OpenedBy(p)' = {f}
    BY <1>2, <1>3, <2>1 DEF OpenedBy, Opener
  <2>3. \A x \in Proposals \ {p} : OpenedBy(x)' = OpenedBy(x)
    BY <1>1, <1>2, <1>3, ConstantsOK DEF OpenedBy, Opener
  <2>4. \A x \in Proposals :
          proposal'[x].status = "ACCEPTED" <=> x = p \/ proposal[x].status = "ACCEPTED"
    BY <1>4
  <2>5. QED
    BY <1>3, <2>2, <2>3, <2>4 DEF AcceptedIffFulfilled
<1>10. QED
  BY <1>6, <1>7, <1>8, <1>9

LEMMA StepAcceptInv == AcceptInv /\ [Next]_vars => AcceptInv'
<1> SUFFICES ASSUME AcceptInv, [Next]_vars
             PROVE  AcceptInv'
  OBVIOUS
<1>1. TypeOK'
  BY StepTypeOK DEF AcceptInv
<1>2. QED
  BY <1>1, StepKinds, QuietKeepsAcceptInv, PlainStepKeepsAcceptInv, OpensKeepsAcceptInv,
     CommitsKeepsAcceptInv

\* In every reachable state an accepted proposal has opened exactly one fulfillment and
\* any other proposal none, however requests, retries and crashes interleave.
THEOREM AcceptanceAtomic == Spec => []AcceptedIffFulfilled
<1>1. AcceptInv => AcceptedIffFulfilled
  BY DEF AcceptInv
<1>2. QED
  BY <1>1, InitAcceptInv, StepAcceptInv, PTL DEF Spec

-----------------------------------------------------------------------------
(* The pipeline implements the deal book *)

LEMMA InitDeals == Init => Deals!Init
  BY DEF Init, Deals!Init, Stage, Order, Deals!Absent, Absent, Fulfillments

LEMMA OrdersKeptKeepsOrder == ASSUME OrdersKept PROVE Order' = Order
  BY DEF OrdersKept, Order, Opener, Fulfillments

\* A quiet step, and one that opens a transaction, changes nothing a client can see; a
\* plain write is a draft, an offer or a loss; a commit is a win.
LEMMA StepDeals == AcceptInv /\ [Next]_vars => [Deals!Next]_Deals!vars
<1> SUFFICES ASSUME AcceptInv, [Next]_vars
             PROVE  [Deals!Next]_Deals!vars
  OBVIOUS
<1>1. CASE Quiet
  BY <1>1, OrdersKeptKeepsOrder DEF Quiet, Deals!vars
<1>2. ASSUME NEW p \in Proposals, PlainStep(p)
      PROVE  Deals!Next
  BY <1>2, OrdersKeptKeepsOrder
     DEF PlainStep, PlainMove, Deals!Next, Deals!Draft, Deals!Offer, Deals!Lose, Deals!Move,
         Deals!Absent, Absent
<1>3. ASSUME NEW r \in Requests, Opens(r)
      PROVE  UNCHANGED Deals!vars
  BY <1>3 DEF Opens, Deals!vars, Stage, Order
<1>4. ASSUME NEW r \in Requests, Commits(r)
      PROVE  Deals!Next
  <2> DEFINE p == req[r].proposal
  <2>1. p \in Proposals /\ Stage[p] \in Acceptable
    BY <1>4 DEF Commits, AcceptInv, AcceptNamesProposal, TransactionHolds
  <2>2. PICK f \in OpenedIds :
          /\ Unopened(f) /\ Opener(f)' = p
          /\ \A g \in Fulfillments \ {f} : fulfillment'[g] = fulfillment[g]
    BY <1>4 DEF Commits
  <2>3. Order[f] = None
    BY <2>2 DEF AcceptInv, OpenersExist, Order, Opener, Fulfillments
  <2>4. Order' = [Order EXCEPT ![f] = p]
    <3>1. \A g \in OpenedIds : fulfillment'[g].opener = IF g = f THEN p ELSE Order[g]
      BY <2>2 DEF Order, Opener, Fulfillments
    <3>2. Order' = [g \in OpenedIds |-> IF g = f THEN p ELSE Order[g]]
      BY <3>1 DEF Order
    <3>3. QED
      BY <3>2 DEF Order
  <2>5. Deals!Win(p)
    BY <1>4, <2>1, <2>2, <2>3, <2>4 DEF Commits, Deals!Win, Deals!Move, Acceptable
  <2>6. QED
    BY <2>1, <2>5 DEF Deals!Next
<1>5. QED
  BY <1>1, <1>2, <1>3, <1>4, StepKinds

\* Every behaviour of the handlers is, for a client that sees proposals and the orders
\* they open, a behaviour of the deal book.
THEOREM DealsImplemented == Spec => ImplementsDealBook
<1>1. Spec => []AcceptInv
  BY InitAcceptInv, StepAcceptInv, PTL DEF Spec
<1>2. QED
  BY <1>1, InitDeals, StepDeals, PTL DEF Spec, Deals!Spec, ImplementsDealBook

\* A proposal once accepted or rejected keeps that status for good: stale sends, rejects
\* and retries never reopen it (transitionStatus in proposals.repository.ts).
THEOREM DecisionsFinal == Spec => Deals!DecisionIsFinal
<1>1. AcceptInv /\ [Next]_vars =>
        [\A p \in Proposals : Stage[p] \in {"ACCEPTED", "REJECTED"} => Stage'[p] = Stage[p]]_Deals!vars
  <2> SUFFICES ASSUME [Deals!Next]_Deals!vars, Deals!Next, NEW p \in Proposals,
                      Stage[p] \in {"ACCEPTED", "REJECTED"}
               PROVE  Stage'[p] = Stage[p]
    BY StepDeals DEF Deals!vars
  <2>1. PICK x \in Proposals :
          \E from, to : from \cap {"ACCEPTED", "REJECTED"} = {} /\ Deals!Move(x, from, to)
    BY DEF Deals!Next, Deals!Draft, Deals!Offer, Deals!Lose, Deals!Win, Deals!Absent
  <2>2. x # p /\ \E to : Stage' = [Stage EXCEPT ![x] = to]
    BY <2>1 DEF Deals!Move
  <2>3. QED
    BY <2>2 DEF Stage
<1>2. QED
  BY <1>1, InitAcceptInv, StepAcceptInv, PTL DEF Spec, Deals!DecisionIsFinal

-----------------------------------------------------------------------------
(***************************************************************************)
(* A lead is never ahead of its records.  The status of a lead is written  *)
(* long after the record that entitles it, so the argument is that records *)
(* are never taken back (RecordsGrow): the grounds a request had when it   *)
(* began still stand when it writes (Backed).                              *)
(***************************************************************************)

\* The points of a request on its way to set its lead's status.
Carrying == {"setStatusRead", "setStatusWrite", "countUnresolved"}

\* What request r knows of the status it will write to its lead.
Backed(r) ==
  /\ At(r, "updateLead") => req[r].status \in ManualStatuses \cup {None}
  /\ \A l \in Leads, s \in LeadStatus :
       req[r].pc \in Carrying /\ req[r].lead = l /\ req[r].status = s => Grounds(l, s)
  /\ At(r, "accept") \/ InTransaction(r) =>
       /\ proposal[req[r].proposal].status # Absent
       /\ proposal[req[r].proposal].lead = req[r].lead

\* LeadNeverAhead, status by status.
NoneAhead ==
  \A l \in Leads, s \in LeadStatus :
    lead[l].status = s => s \in ManualStatuses \cup {"NEW"} \/ Grounds(l, s)

\* No document is of a lead before it is inserted.
AbsentNamesNoLead ==
  /\ \A u \in FollowUps : followup[u].state = Absent => followup[u].lead = None
  /\ \A f \in Fulfillments : fulfillment[f].status = Absent => fulfillment[f].lead = None

\* The inductive invariant of the leads' statuses.
LeadInv ==
  /\ AcceptInv
  /\ NoneAhead
  /\ AbsentNamesNoLead
  /\ \A r \in Requests : Backed(r)

\* A proposal's status moves forward only.
StagesGrow ==
  \A p \in Proposals : Stage[p] # Absent =>
    /\ Stage'[p] # Absent
    /\ Stage[p] # "DRAFT" => Stage'[p] # "DRAFT"
    /\ Stage[p] \in {"ACCEPTED", "REJECTED"} => Stage'[p] = Stage[p]

\* A record stays with its lead.
LeadsKept ==
  /\ \A p \in Proposals : proposal[p].status # Absent => proposal'[p].lead = proposal[p].lead
  /\ \A u \in FollowUps : followup[u].lead # None => followup'[u].lead = followup[u].lead
  /\ \A f \in Fulfillments :
       fulfillment[f].lead # None => fulfillment'[f].lead = fulfillment[f].lead

RecordsGrow == StagesGrow /\ LeadsKept

\* The status of a lead stays, or is staff's choice, or is written with its grounds.
LeadsMove ==
  \A l \in Leads, s \in LeadStatus : lead'[l].status = s =>
    \/ lead[l].status = s
    \/ s \in ManualStatuses \cup {"NEW"}
    \/ Grounds(l, s)'

LEMMA StagesAlwaysGrow == AcceptInv /\ [Next]_vars => StagesGrow
<1> SUFFICES ASSUME AcceptInv, [Next]_vars
             PROVE  StagesGrow
  OBVIOUS
<1>1. CASE Quiet
  BY <1>1 DEF Quiet, StagesGrow
<1>2. ASSUME NEW p \in Proposals, PlainStep(p)
      PROVE  StagesGrow
  BY <1>2 DEF PlainStep, PlainMove, StagesGrow, Stage, Absent
<1>3. ASSUME NEW r \in Requests, Opens(r)
      PROVE  StagesGrow
  BY <1>3 DEF Opens, StagesGrow, Stage
<1>4. ASSUME NEW r \in Requests, Commits(r)
      PROVE  StagesGrow
  <2>1. Stage[req[r].proposal] \in Acceptable
    BY <1>4 DEF Commits, AcceptInv, TransactionHolds
  <2>2. QED
    BY <1>4, <2>1 DEF Commits, StagesGrow, Stage, Acceptable, Absent
<1>5. QED
  BY <1>1, <1>2, <1>3, <1>4, StepKinds

\* Grounds once there are there for good.
LEMMA GroundsStay ==
  ASSUME RecordsGrow, NEW l \in Leads, NEW s, Grounds(l, s)
  PROVE  Grounds(l, s)'
<1> USE ConstantsOK DEF RecordsGrow, StagesGrow, LeadsKept, Stage
<1>1. CASE s = "QUOTE_SENT"
  BY <1>1 DEF Grounds
<1>2. CASE s = "CONFIRMED"
  BY <1>2 DEF Grounds, Absent
<1>3. CASE s = "REJECTED"
  BY <1>3 DEF Grounds, Absent
<1>4. CASE s = "FOLLOW_UP"
  BY <1>4 DEF Grounds
<1>5. CASE s = "COMPLETED"
  BY <1>5 DEF Grounds
<1>6. QED
  BY <1>1, <1>2, <1>3, <1>4, <1>5 DEF Grounds

\* What one request knows is untouched by the steps of the others.
LEMMA BackedStays ==
  ASSUME AcceptInv, RecordsGrow, NEW q \in Requests, Backed(q), req'[q] = req[q]
  PROVE  Backed(q)'
<1>1. (At(q, "updateLead") => req[q].status \in ManualStatuses \cup {None})'
  BY DEF Backed, At
<1>2. (\A l \in Leads, s \in LeadStatus :
         req[q].pc \in Carrying /\ req[q].lead = l /\ req[q].status = s => Grounds(l, s))'
  BY GroundsStay DEF Backed
<1>3. (At(q, "accept") \/ InTransaction(q) =>
         /\ proposal[req[q].proposal].status # Absent
         /\ proposal[req[q].proposal].lead = req[q].lead)'
  BY DEF Backed, At, InTransaction, RecordsGrow, StagesGrow, LeadsKept, Stage, AcceptInv,
     AcceptNamesProposal
<1>4. QED
  BY <1>1, <1>2, <1>3 DEF Backed

LEMMA LeadsMoveSafely ==
  ASSUME NoneAhead, RecordsGrow, LeadsMove
  PROVE  NoneAhead'
<1>1. SUFFICES ASSUME NEW l \in Leads, NEW s \in LeadStatus, lead'[l].status = s
               PROVE  s \in ManualStatuses \cup {"NEW"} \/ Grounds(l, s)'
  BY DEF NoneAhead
<1>2. s \in ManualStatuses \cup {"NEW"} \/ Grounds(l, s) \/ Grounds(l, s)'
  BY <1>1 DEF LeadsMove, NoneAhead
<1>3. QED
  BY <1>2, GroundsStay

\* A request at none of these points knows nothing that could become false.
Knowing == Carrying \cup TxPoints \cup {"updateLead", "accept"}

LEMMA UnknowingIsBacked ==
  ASSUME NEW r \in Requests, req'[r].pc \notin Knowing
  PROVE  Backed(r)'
  BY DEF Backed, Knowing, Carrying, At, InTransaction

LEMMA SameRecords ==
  ASSUME AbsentNamesNoLead, UNCHANGED <<proposal, fulfillment, followup>>
  PROVE  LeadsKept /\ AbsentNamesNoLead'
  BY DEF AbsentNamesNoLead, LeadsKept

LEMMA SameLeads == ASSUME UNCHANGED lead PROVE LeadsMove
  BY DEF LeadsMove

\* Proposals rewritten with the lead they had, but for absent ones.
LEMMA ProposalKeepsLead ==
  ASSUME AbsentNamesNoLead, TypeOK, NEW p \in Proposals, NEW d,
         proposal' = [proposal EXCEPT ![p] = d],
         proposal[p].status # Absent => d.lead = proposal[p].lead,
         UNCHANGED <<fulfillment, followup>>
  PROVE  LeadsKept /\ AbsentNamesNoLead'
  BY DEF AbsentNamesNoLead, LeadsKept, TypeOK

LEMMA FulfillmentKeepsLead ==
  ASSUME AbsentNamesNoLead, TypeOK, NEW f \in Fulfillments, NEW d,
         fulfillment' = [fulfillment EXCEPT ![f] = d], d.status # Absent,
         fulfillment[f].status # Absent => d.lead = fulfillment[f].lead,
         \A p \in Proposals : proposal[p].status # Absent => proposal'[p].lead = proposal[p].lead,
         UNCHANGED followup
  PROVE  LeadsKept /\ AbsentNamesNoLead'
  BY DEF AbsentNamesNoLead, LeadsKept, TypeOK

LEMMA FollowUpKeepsLead ==
  ASSUME AbsentNamesNoLead, TypeOK, NEW u \in FollowUps, NEW d,
         followup' = [followup EXCEPT ![u] = d], d.state # Absent,
         followup[u].state # Absent => d.lead = followup[u].lead,
         UNCHANGED <<proposal, fulfillment>>
  PROVE  LeadsKept /\ AbsentNamesNoLead'
  BY DEF AbsentNamesNoLead, LeadsKept, TypeOK

\* What a step leaves behind it: records with their leads, leads with their grounds, and
\* request r with what it needs to know.
Sound(r) == LeadsKept /\ AbsentNamesNoLead' /\ LeadsMove /\ Backed(r)'

\* A step that reads, and leaves the request where it knows nothing.
LEMMA ReadingIsSound ==
  ASSUME AbsentNamesNoLead, NEW r \in Requests, UNCHANGED <<lead, proposal, fulfillment, followup>>,
         req'[r].pc \notin Knowing
  PROVE  Sound(r)
  BY SameRecords, SameLeads, UnknowingIsBacked DEF Sound

LEMMA BeginWrites ==
  ASSUME TypeOK, NEW r \in Requests, NEW point, NEW l, NEW p, NEW s, Begin(r, point, l, p, s)
  PROVE  req'[r] = [pc |-> point, lead |-> l, proposal |-> p, status |-> s]
  BY DEF TypeOK, Begin

LEMMA ArriveSound ==
  ASSUME LeadInv, NEW r \in Requests, Arrive(r)
  PROVE  Sound(r)
<1> USE BeginWrites, UnknowingIsBacked, SameRecords, SameLeads
    DEF LeadInv, AcceptInv, Sound, Knowing, Carrying, TxPoints
<1>1. ASSUME NEW l \in Leads, NEW s \in ManualStatuses \cup {None}, UpdateLeadRead(r, l, s)
      PROVE  Sound(r)
  <2>1. req'[r] = [pc |-> "updateLead", lead |-> l, proposal |-> None, status |-> s]
    BY <1>1 DEF UpdateLeadRead
  <2>2. Backed(r)'
    BY <2>1 DEF Backed, At, InTransaction
  <2>3. QED
    BY <1>1, <2>2 DEF UpdateLeadRead
<1>2. ASSUME NEW l \in Leads, RemoveLeadRead(r, l)
      PROVE  Sound(r)
  <2>1. req'[r].pc = "removeLead" /\ UNCHANGED <<lead, proposal, fulfillment, followup>>
    BY <1>2, BeginMoves DEF RemoveLeadRead
  <2>2. QED
    BY <2>1, ReadingIsSound
<1>3. ASSUME NEW l \in Leads, CreateProposalRead(r, l)
      PROVE  Sound(r)
  <2>1. req'[r].pc = "createProposal" /\ UNCHANGED <<lead, proposal, fulfillment, followup>>
    BY <1>3, BeginMoves DEF CreateProposalRead
  <2>2. QED
    BY <2>1, ReadingIsSound
<1>4. ASSUME NEW l \in Leads, CreateFulfillmentRead(r, l)
      PROVE  Sound(r)
  <2>1. req'[r].pc = "createFulfillment" /\ UNCHANGED <<lead, proposal, fulfillment, followup>>
    BY <1>4, BeginMoves DEF CreateFulfillmentRead
  <2>2. QED
    BY <2>1, ReadingIsSound
<1>5. ASSUME NEW l \in Leads, CreateFollowUpRead(r, l)
      PROVE  Sound(r)
  <2>1. req'[r].pc = "createFollowUp" /\ UNCHANGED <<lead, proposal, fulfillment, followup>>
    BY <1>5, BeginMoves DEF CreateFollowUpRead
  <2>2. QED
    BY <2>1, ReadingIsSound
<1>6. ASSUME NEW p \in Proposals, EditProposalRead(r, p)
      PROVE  Sound(r)
  <2>1. req'[r].pc = "editProposal" /\ UNCHANGED <<lead, proposal, fulfillment, followup>>
    BY <1>6, BeginMoves DEF EditProposalRead
  <2>2. QED
    BY <2>1, ReadingIsSound
<1>7. ASSUME NEW p \in Proposals, NEW to \in {"SENT", "REJECTED"}, NEW s,
             proposal[p].status # Absent, proposal' = [proposal EXCEPT ![p].status = to],
             UNCHANGED <<lead, fulfillment, followup>>,
             Begin(r, "setStatusRead", proposal[p].lead, None, s),
             s = IF to = "SENT" THEN "QUOTE_SENT" ELSE "REJECTED"
      PROVE  Sound(r)
  <2> DEFINE d == [proposal[p] EXCEPT !.status = to]
  <2>1. d.lead = proposal[p].lead /\ d.status = to /\ proposal' = [proposal EXCEPT ![p] = d]
    BY <1>7 DEF TypeOK, ProposalDoc
  <2>2. proposal'[p] = d
    BY <2>1 DEF TypeOK
  <2> HIDE DEF d
  <2>3. LeadsKept /\ AbsentNamesNoLead'
    BY <1>7, <2>1, ProposalKeepsLead
  <2>4. req'[r] = [pc |-> "setStatusRead", lead |-> proposal[p].lead, proposal |-> None, status |-> s]
    BY <1>7
  <2>5. \A l \in Leads : proposal[p].lead = l => Grounds(l, s)'
    BY <1>7, <2>1, <2>2 DEF Grounds, Absent
  <2>6. Backed(r)'
    BY <2>4, <2>5 DEF Backed, At, InTransaction
  <2>7. QED
    BY <1>7, <2>3, <2>6
<1>8. ASSUME NEW p \in Proposals, Send(r, p)
      PROVE  Sound(r)
  BY <1>7, <1>8 DEF Send, TransitionStatus, Absent
<1>9. ASSUME NEW p \in Proposals, Reject(r, p)
      PROVE  Sound(r)
  BY <1>7, <1>9 DEF Reject, TransitionStatus, Absent
<1>10. ASSUME NEW p \in Proposals, AcceptStart(r, p)
       PROVE  Sound(r)
  <2>1. req'[r] = [pc |-> "accept", lead |-> proposal[p].lead, proposal |-> p, status |-> None]
    BY <1>10 DEF AcceptStart
  <2>2. Backed(r)'
    BY <1>10, <2>1 DEF AcceptStart, Backed, At, InTransaction
  <2>3. QED
    BY <1>10, <2>2 DEF AcceptStart
<1>11. ASSUME NEW f \in Fulfillments, NEW s \in FulfillmentStatus,
              fulfillment[f].status # Absent, fulfillment' = [fulfillment EXCEPT ![f].status = s],
              UNCHANGED <<proposal, followup>>
       PROVE  LeadsKept /\ AbsentNamesNoLead' /\ fulfillment'[f].lead = fulfillment[f].lead
  <2> DEFINE d == [fulfillment[f] EXCEPT !.status = s]
  <2>1. /\ d.lead = fulfillment[f].lead /\ d.status = s /\ s # Absent
        /\ fulfillment' = [fulfillment EXCEPT ![f] = d]
    BY <1>11 DEF TypeOK, FulfillmentDoc, FulfillmentStatus, Absent
  <2> HIDE DEF d
  <2>2. QED
    BY <1>11, <2>1, FulfillmentKeepsLead DEF TypeOK
<1>12. ASSUME NEW f \in Fulfillments, CompleteFulfillment(r, f)
       PROVE  Sound(r)
  <2>1. LeadsKept /\ AbsentNamesNoLead' /\ fulfillment'[f].lead = fulfillment[f].lead
    BY <1>11, <1>12 DEF CompleteFulfillment, FulfillmentStatus
  <2>2. req'[r] = [pc |-> "countUnresolved", lead |-> fulfillment[f].lead, proposal |-> None,
                   status |-> "COMPLETED"]
    BY <1>12 DEF CompleteFulfillment
  <2>3. \A l \in Leads : fulfillment[f].lead = l => Grounds(l, "COMPLETED")'
    BY <2>1 DEF Grounds
  <2>4. Backed(r)'
    BY <2>2, <2>3 DEF Backed, At, InTransaction
  <2>5. QED
    BY <1>12, <2>1, <2>4 DEF CompleteFulfillment
<1>13. ASSUME NEW f \in Fulfillments, NEW s \in FulfillmentStatus, UpdateFulfillment(r, f, s)
       PROVE  Sound(r)
  <2>1. LeadsKept /\ AbsentNamesNoLead'
    BY <1>11, <1>13 DEF UpdateFulfillment
  <2>2. req'[r].pc \notin Knowing
    BY <1>13 DEF UpdateFulfillment, At
  <2>3. QED
    BY <1>13, <2>1, <2>2 DEF UpdateFulfillment
<1>14. QED
  BY <1>1, <1>2, <1>3, <1>4, <1>5, <1>6, <1>8, <1>9, <1>10, <1>12, <1>13 DEF Arrive

\* Goto moves a request and changes nothing else of what it carries.
LEMMA GotoKeeps ==
  ASSUME TypeOK, NEW r \in Requests, NEW point, Goto(r, point)
  PROVE  /\ req'[r].pc = point
         /\ req'[r].lead = req[r].lead
         /\ req'[r].proposal = req[r].proposal
         /\ req'[r].status = req[r].status
<1>1. req[r] \in Request /\ req'[r] = [req[r] EXCEPT !.pc = point]
  BY DEF TypeOK, Goto
<1>2. QED
  BY <1>1 DEF Request

\* A request on its way to its lead's status keeps its grounds.
LEMMA CarryingStaysBacked ==
  ASSUME RecordsGrow, NEW r \in Requests, Backed(r),
         req[r].pc \in Carrying, req'[r].pc \in Carrying,
         req'[r].lead = req[r].lead, req'[r].status = req[r].status
  PROVE  Backed(r)'
<1>1. \A l \in Leads, s \in LeadStatus : req[r].lead = l /\ req[r].status = s => Grounds(l, s)
  BY DEF Backed
<1>2. \A l \in Leads, s \in LeadStatus : req[r].lead = l /\ req[r].status = s => Grounds(l, s)'
  BY <1>1, GroundsStay
<1>3. (\A l \in Leads, s \in LeadStatus :
         req[r].pc \in Carrying /\ req[r].lead = l /\ req[r].status = s => Grounds(l, s))'
  BY <1>2
<1>4. (~At(r, "updateLead") /\ ~At(r, "accept") /\ ~InTransaction(r))'
  BY DEF At, InTransaction, Carrying, TxPoints
<1>5. QED
  BY <1>3, <1>4 DEF Backed

\* An acceptance keeps its proposal and its lead.
LEMMA AcceptingStaysBacked ==
  ASSUME AcceptInv, RecordsGrow, NEW r \in Requests, Backed(r),
         req[r].pc \in TxPoints \cup {"accept"}, req'[r].pc \in TxPoints \cup {"accept"},
         req'[r].lead = req[r].lead, req'[r].proposal = req[r].proposal
  PROVE  Backed(r)'
<1>1. /\ req[r].proposal \in Proposals
      /\ proposal[req[r].proposal].status # Absent
      /\ proposal[req[r].proposal].lead = req[r].lead
  BY DEF Backed, At, InTransaction, AcceptInv, AcceptNamesProposal
<1>2. /\ proposal'[req[r].proposal].status # Absent
      /\ proposal'[req[r].proposal].lead = req[r].lead
  BY <1>1 DEF RecordsGrow, StagesGrow, LeadsKept, Stage
<1>3. (~At(r, "updateLead") /\ req[r].pc \notin Carrying)'
  BY DEF At, Carrying, TxPoints
<1>4. QED
  BY <1>2, <1>3 DEF Backed

LEMMA ProceedSound ==
  ASSUME LeadInv, StagesGrow, NEW r \in Requests, Proceed(r)
  PROVE  Sound(r)
<1> DEFINE q == req[r]
<1>0. /\ TypeOK /\ AcceptInv /\ AbsentNamesNoLead /\ Backed(r)
      /\ q.lead \in Leads \cup {None} /\ q.status \in LeadStatus \cup {Absent, None}
  BY DEF LeadInv, AcceptInv, Request, TypeOK
<1>a. ASSUME Return(r)
      PROVE  Backed(r)'
  BY <1>a, <1>0, ReturnMoves, UnknowingIsBacked DEF Knowing, Carrying, TxPoints
<1>b. ASSUME UNCHANGED <<proposal, fulfillment, followup>>
      PROVE  LeadsKept /\ AbsentNamesNoLead' /\ RecordsGrow
  BY <1>b, <1>0, SameRecords DEF RecordsGrow
<1>c. ASSUME UNCHANGED <<lead, proposal, fulfillment, followup>>, Backed(r)'
      PROVE  Sound(r)
  BY <1>b, <1>c, SameLeads DEF Sound
<1>1. CASE UpdateLeadWrite(r)
  <2>1. q.status \in ManualStatuses \cup {None}
    BY <1>1, <1>0 DEF UpdateLeadWrite, Backed
  <2>2. LeadsMove
    BY <1>1, <1>0, <2>1 DEF UpdateLeadWrite, WriteLead, LeadsMove, TypeOK, LeadDoc
  <2>3. UNCHANGED <<proposal, fulfillment, followup>> /\ Return(r)
    BY <1>1 DEF UpdateLeadWrite
  <2>4. QED
    BY <2>2, <2>3, <1>a, <1>b DEF Sound
<1>2. CASE RemoveLeadWrite(r)
  <2>1. LeadsMove
    BY <1>2, <1>0 DEF RemoveLeadWrite, WriteLead, LeadsMove, TypeOK, LeadDoc
  <2>2. UNCHANGED <<proposal, fulfillment, followup>> /\ Return(r)
    BY <1>2 DEF RemoveLeadWrite
  <2>3. QED
    BY <2>1, <2>2, <1>a, <1>b DEF Sound
<1>3. CASE SetStatusRead(r)
  <2>1. UNCHANGED <<lead, proposal, fulfillment, followup>> /\ q.pc = "setStatusRead"
    BY <1>3 DEF SetStatusRead, At
  <2>2. CASE Return(r)
    BY <2>1, <2>2, <1>a, <1>c
  <2>3. CASE Goto(r, "setStatusWrite")
    <3>1. /\ q.pc \in Carrying /\ req'[r].pc \in Carrying
          /\ req'[r].lead = q.lead /\ req'[r].status = q.status
      BY <2>1, <2>3, <1>0, GotoKeeps DEF Carrying
    <3>2. RecordsGrow
      BY <2>1, <1>b
    <3>3. Backed(r)'
      BY <3>1, <3>2, <1>0, CarryingStaysBacked
    <3>4. QED
      BY <2>1, <3>3, <1>c
  <2>4. QED
    BY <1>3, <2>2, <2>3 DEF SetStatusRead
<1>4. CASE SetStatusWrite(r)
  <2>1. UNCHANGED <<proposal, fulfillment, followup>> /\ Return(r) /\ q.pc \in Carrying
    BY <1>4 DEF SetStatusWrite, At, Carrying
  <2>2. \A l \in Leads, s \in LeadStatus : q.lead = l /\ q.status = s => Grounds(l, s)
    BY <2>1, <1>0 DEF Backed
  <2>3. \A l \in Leads, s \in LeadStatus : q.lead = l /\ q.status = s => Grounds(l, s)'
    BY <2>1, <2>2, <1>b, GroundsStay
  <2>4. \A l \in Leads : lead'[l].status = IF l = q.lead THEN q.status ELSE lead[l].status
    BY <1>4, <1>0 DEF SetStatusWrite, WriteLead, TypeOK, LeadDoc
  <2>5. LeadsMove
    BY <2>3, <2>4 DEF LeadsMove
  <2>6. QED
    BY <2>1, <2>5, <1>a, <1>b DEF Sound
<1>5. CASE CreateProposalWrite(r)
  <2>1. PICK p \in Proposals, c \in Contents :
          /\ proposal[p].status = Absent
          /\ proposal' = [proposal EXCEPT ![p] =
                            [status |-> "DRAFT", lead |-> q.lead, content |-> c]]
    BY <1>5 DEF CreateProposalWrite
  <2>2. Return(r) /\ UNCHANGED <<lead, fulfillment, followup>>
    BY <1>5 DEF CreateProposalWrite
  <2>3. LeadsKept /\ AbsentNamesNoLead'
    BY <2>1, <2>2, <1>0, ProposalKeepsLead
  <2>4. QED
    BY <2>2, <2>3, <1>a, SameLeads DEF Sound
<1>6. CASE EditProposalWrite(r)
  <2>1. PICK c \in Contents : proposal' = [proposal EXCEPT ![q.proposal].content = c]
    BY <1>6 DEF EditProposalWrite
  <2>2. Return(r) /\ UNCHANGED <<lead, fulfillment, followup>>
    BY <1>6 DEF EditProposalWrite
  <2>3. \A p \in Proposals : proposal'[p].lead = proposal[p].lead
    BY <2>1, <1>0 DEF TypeOK, ProposalDoc
  <2>4. LeadsKept /\ AbsentNamesNoLead'
    BY <2>2, <2>3, <1>0 DEF LeadsKept, AbsentNamesNoLead
  <2>5. QED
    BY <2>2, <2>4, <1>a, SameLeads DEF Sound
<1>d. ASSUME UNCHANGED <<lead, proposal, fulfillment, followup>>,
             q.pc \in TxPoints \cup {"accept"}, req'[r].pc \in TxPoints \cup {"accept"},
             req'[r].lead = q.lead, req'[r].proposal = q.proposal
      PROVE  Sound(r)
  <2>1. RecordsGrow
    BY <1>d, <1>b
  <2>2. QED
    BY <1>c, <1>d, <1>0, <2>1, AcceptingStaysBacked
<1>7. CASE AcceptTransition(r)
  <2>1. UNCHANGED <<lead, proposal, fulfillment, followup>> /\ q.pc = "accept"
    BY <1>7 DEF AcceptTransition, At
  <2>2. Goto(r, "acceptReadLead")
    BY <1>7 DEF AcceptTransition
  <2>3. /\ req'[r].pc = "acceptReadLead"
        /\ req'[r].lead = q.lead /\ req'[r].proposal = q.proposal
    BY <2>2, <1>0, GotoKeeps
  <2>4. QED
    BY <2>1, <2>3, <1>d DEF TxPoints
<1>8. CASE AcceptRefused(r)
  BY <1>8, <1>a, <1>c DEF AcceptRefused
<1>9. CASE AcceptReadLead(r)
  <2>1. UNCHANGED <<lead, proposal, fulfillment, followup>> /\ q.pc = "acceptReadLead"
    BY <1>9 DEF AcceptReadLead, At
  <2>2. Return(r) \/ Goto(r, "acceptCommit") \/ Goto(r, "acceptWriteLead")
    BY <1>9 DEF AcceptReadLead
  <2>3. CASE Return(r)
    BY <2>1, <2>3, <1>a, <1>c
  <2>4. ASSUME NEW point \in {"acceptCommit", "acceptWriteLead"}, Goto(r, point)
        PROVE  Sound(r)
    <3>1. req'[r].pc = point /\ req'[r].lead = q.lead /\ req'[r].proposal = q.proposal
      BY <2>4, <1>0, GotoKeeps
    <3>2. QED
      BY <2>1, <3>1, <1>d DEF TxPoints
  <2>5. QED
    BY <2>2, <2>3, <2>4
<1>10. CASE AcceptWriteLead(r)
  <2>1. UNCHANGED <<lead, proposal, fulfillment, followup>> /\ q.pc = "acceptWriteLead"
    BY <1>10 DEF AcceptWriteLead, At
  <2>2. /\ req'[r].pc \in {"accept", "acceptCommit"}
        /\ req'[r].lead = q.lead /\ req'[r].proposal = q.proposal
    <3>1. CASE Goto(r, "accept")
      BY <3>1, <1>0, GotoKeeps
    <3>2. CASE req' = [req EXCEPT ![r].pc = "acceptCommit", ![r].status = "CONFIRMED"]
      BY <3>2, <1>0 DEF TypeOK, Request
    <3>3. QED
      BY <1>10, <3>1, <3>2 DEF AcceptWriteLead
  <2>3. QED
    BY <2>1, <2>2, <1>d DEF TxPoints
<1>11. CASE AcceptCommit(r)
  <2>1. q.proposal \in Proposals /\ proposal[q.proposal].lead = q.lead
    BY <1>11, <1>0 DEF AcceptCommit, At, InTransaction, AcceptInv, AcceptNamesProposal, Backed,
       TxPoints
  <2>2. proposal' = [proposal EXCEPT ![q.proposal].status = "ACCEPTED"]
        /\ UNCHANGED followup /\ Return(r)
    BY <1>11 DEF AcceptCommit
  <2>3. /\ \A p \in Proposals : proposal'[p].lead = proposal[p].lead
        /\ proposal'[q.proposal].status = "ACCEPTED"
    BY <2>1, <2>2, <1>0 DEF TypeOK, ProposalDoc
  <2> DEFINE d == [status |-> "PENDING", lead |-> q.lead, opener |-> q.proposal]
  <2>4. PICK f \in OpenedIds :
          fulfillment[f].status = Absent /\ fulfillment' = [fulfillment EXCEPT ![f] = d]
    BY <1>11 DEF AcceptCommit
  <2>5. d.status # Absent /\ f \in Fulfillments
    BY DEF Absent, Fulfillments
  <2> HIDE DEF d
  <2>6. LeadsKept /\ AbsentNamesNoLead'
    BY <1>0, <2>2, <2>3, <2>4, <2>5, FulfillmentKeepsLead
  <2>7. \A l \in Leads : q.lead = l => Grounds(l, "CONFIRMED")'
    BY <2>1, <2>3 DEF Grounds
  <2>8. lead' = lead \/ lead' = [lead EXCEPT ![q.lead].status = "CONFIRMED"]
    BY <1>11 DEF AcceptCommit
  <2>9. \A l \in Leads :
          \/ lead'[l].status = lead[l].status
          \/ l = q.lead /\ lead'[l].status = "CONFIRMED"
    BY <2>8, <1>0 DEF TypeOK, LeadDoc
  <2>10. LeadsMove
    BY <2>7, <2>9 DEF LeadsMove
  <2>11. QED
    BY <2>2, <2>6, <2>10, <1>a DEF Sound
<1>12. CASE CreateFulfillmentWrite(r)
  <2>1. PICK f \in StaffIds, s \in FulfillmentStatus :
          /\ fulfillment[f].status = Absent
          /\ fulfillment' = [fulfillment EXCEPT ![f] =
                               [status |-> s, lead |-> q.lead, opener |-> None]]
    BY <1>12 DEF CreateFulfillmentWrite
  <2>2. Return(r) /\ UNCHANGED <<lead, proposal, followup>>
    BY <1>12 DEF CreateFulfillmentWrite
  <2> DEFINE d == [status |-> s, lead |-> q.lead, opener |-> None]
  <2>3. d.status # Absent /\ f \in Fulfillments /\ fulfillment' = [fulfillment EXCEPT ![f] = d]
    BY <2>1 DEF FulfillmentStatus, Absent, Fulfillments
  <2> HIDE DEF d
  <2>4. LeadsKept /\ AbsentNamesNoLead'
    BY <1>0, <2>1, <2>2, <2>3, FulfillmentKeepsLead
  <2>5. QED
    BY <2>2, <2>4, <1>a, SameLeads DEF Sound
<1>13. CASE CountUnresolved(r)
  <2>1. UNCHANGED <<lead, proposal, fulfillment, followup>> /\ q.pc = "countUnresolved"
    BY <1>13 DEF CountUnresolved, At
  <2>2. CASE Return(r)
    BY <2>1, <2>2, <1>a, <1>c
  <2>3. CASE Goto(r, "setStatusRead")
    <3>1. /\ q.pc \in Carrying /\ req'[r].pc \in Carrying
          /\ req'[r].lead = q.lead /\ req'[r].status = q.status
      BY <2>1, <2>3, <1>0, GotoKeeps DEF Carrying
    <3>2. RecordsGrow
      BY <2>1, <1>b
    <3>3. Backed(r)'
      BY <3>1, <3>2, <1>0, CarryingStaysBacked
    <3>4. QED
      BY <2>1, <3>3, <1>c
  <2>4. QED
    BY <1>13, <2>2, <2>3 DEF CountUnresolved
<1>14. CASE CreateFollowUpWrite(r)
  <2> DEFINE d == [state |-> "OPEN", lead |-> q.lead]
  <2>1. PICK u \in FollowUps :
          followup[u].state = Absent /\ followup' = [followup EXCEPT ![u] = d]
    BY <1>14 DEF CreateFollowUpWrite
  <2>2. UNCHANGED <<lead, proposal, fulfillment>>
    BY <1>14 DEF CreateFollowUpWrite
  <2>3. d.state # Absent /\ d.lead = q.lead
    BY DEF Absent
  <2> HIDE DEF d
  <2>4. LeadsKept /\ AbsentNamesNoLead'
    BY <1>0, <2>1, <2>2, <2>3, FollowUpKeepsLead
  <2>5. Backed(r)'
    <3>1. CASE Return(r)
      BY <3>1, <1>a
    <3>2. CASE req' = [req EXCEPT ![r].pc = "setStatusRead", ![r].status = "FOLLOW_UP"]
      <4>1. req'[r].pc = "setStatusRead" /\ req'[r].lead = q.lead /\ req'[r].status = "FOLLOW_UP"
        BY <3>2, <1>0 DEF TypeOK, Request
      <4>2. followup'[u].lead = q.lead
        BY <2>1, <2>3, <1>0 DEF TypeOK
      <4>3. \A l \in Leads : q.lead = l => Grounds(l, "FOLLOW_UP")'
        BY <4>2 DEF Grounds
      <4>4. QED
        BY <4>1, <4>3 DEF Backed, At, InTransaction, TxPoints
    <3>3. QED
      BY <1>14, <3>1, <3>2 DEF CreateFollowUpWrite
  <2>6. QED
    BY <2>2, <2>4, <2>5, SameLeads DEF Sound
<1>15. QED
  BY <1>1, <1>2, <1>3, <1>4, <1>5, <1>6, <1>7, <1>8, <1>9, <1>10, <1>11, <1>12, <1>13, <1>14
     DEF Proceed

LEMMA InitLeadInv == Init => LeadInv
<1> SUFFICES ASSUME Init
             PROVE  LeadInv
  OBVIOUS
<1>1. NoneAhead
  BY DEF Init, NoneAhead, LeadStatus, Absent
<1>2. AbsentNamesNoLead
  BY DEF Init, AbsentNamesNoLead
<1>3. \A r \in Requests : Backed(r)
  BY DEF Init, Backed, At, InTransaction, TxPoints, Carrying, Idle
<1>4. QED
  BY <1>1, <1>2, <1>3, InitAcceptInv DEF LeadInv

LEMMA StepLeadInv == LeadInv /\ [Next]_vars => LeadInv'
<1> SUFFICES ASSUME LeadInv, [Next]_vars
             PROVE  LeadInv'
  OBVIOUS
<1>1. StagesGrow /\ AcceptInv'
  BY StagesAlwaysGrow, StepAcceptInv DEF LeadInv
<1>2. ASSUME NEW r \in Requests, Sound(r), \A q \in Requests \ {r} : req'[q] = req[q]
      PROVE  LeadInv'
  <2>1. RecordsGrow
    BY <1>1, <1>2 DEF RecordsGrow, Sound
  <2>2. \A q \in Requests : Backed(q)'
    BY <1>2, <2>1, BackedStays DEF Sound, LeadInv
  <2>3. NoneAhead'
    BY <1>2, <2>1, LeadsMoveSafely DEF Sound, LeadInv
  <2>4. QED
    BY <1>1, <1>2, <2>2, <2>3 DEF LeadInv, Sound
<1>3. ASSUME UNCHANGED req, LeadsKept, AbsentNamesNoLead', LeadsMove
      PROVE  LeadInv'
  <2>1. RecordsGrow
    BY <1>1, <1>3 DEF RecordsGrow
  <2>2. \A q \in Requests : Backed(q)'
    BY <1>3, <2>1, BackedStays DEF LeadInv
  <2>3. NoneAhead'
    BY <1>3, <2>1, LeadsMoveSafely DEF LeadInv
  <2>4. QED
    BY <1>1, <1>3, <2>2, <2>3 DEF LeadInv
<1>4. ASSUME NEW l \in Leads, CreateLead(l)
      PROVE  LeadInv'
  <2>1. LeadsMove
    BY <1>4 DEF CreateLead, LeadsMove, LeadInv, AcceptInv, TypeOK, LeadDoc
  <2>2. QED
    BY <1>3, <1>4, <2>1, SameRecords DEF CreateLead, LeadInv
<1>5. ASSUME NEW u \in FollowUps, CompleteFollowUp(u)
      PROVE  LeadInv'
  <2> DEFINE d == [followup[u] EXCEPT !.state = "COMPLETED"]
  <2>1. /\ d.lead = followup[u].lead /\ d.state = "COMPLETED"
        /\ followup' = [followup EXCEPT ![u] = d]
    BY <1>5 DEF CompleteFollowUp, LeadInv, AcceptInv, TypeOK, FollowUpDoc
  <2> HIDE DEF d
  <2>2. LeadsKept /\ AbsentNamesNoLead'
    BY <1>5, <2>1, FollowUpKeepsLead DEF CompleteFollowUp, LeadInv, AcceptInv, Absent
  <2>3. QED
    BY <1>3, <1>5, <2>2, SameLeads DEF CompleteFollowUp
<1>6. ASSUME NEW r \in Requests, Arrive(r)
      PROVE  LeadInv'
  <2>1. \A q \in Requests \ {r} : req'[q] = req[q]
    BY <1>6 DEF Arrive, UpdateLeadRead, RemoveLeadRead, CreateProposalRead, CreateFulfillmentRead,
       CreateFollowUpRead, EditProposalRead, Send, Reject, AcceptStart, CompleteFulfillment,
       UpdateFulfillment, Begin, LeadInv, AcceptInv, TypeOK
  <2>2. QED
    BY <1>2, <1>6, <2>1, ArriveSound
<1>7. ASSUME NEW r \in Requests, Proceed(r)
      PROVE  LeadInv'
  <2>1. \A q \in Requests \ {r} : req'[q] = req[q]
    BY <1>7 DEF Proceed, UpdateLeadWrite, RemoveLeadWrite, SetStatusRead, SetStatusWrite,
       CreateProposalWrite, EditProposalWrite, AcceptTransition, AcceptRefused, AcceptReadLead,
       AcceptWriteLead, AcceptCommit, CreateFulfillmentWrite, CountUnresolved,
       CreateFollowUpWrite, Goto, Return, LeadInv, AcceptInv, TypeOK
  <2>2. QED
    BY <1>1, <1>2, <1>7, <2>1, ProceedSound
<1>8. ASSUME NEW r \in Requests, Crash(r) \/ Restart(r)
      PROVE  LeadInv'
  <2>1. req'[r].pc \in {"idle", "crashed"} /\ \A q \in Requests \ {r} : req'[q] = req[q]
    BY <1>8 DEF Crash, Restart, Return, Idle, Crashed, LeadInv, AcceptInv, TypeOK
  <2>2. Sound(r)
    BY <1>8, <2>1, ReadingIsSound DEF Crash, Restart, Knowing, Carrying, TxPoints, LeadInv
  <2>3. QED
    BY <1>2, <2>1, <2>2
<1>9. CASE UNCHANGED vars
  BY <1>3, <1>9, SameRecords, SameLeads DEF vars, LeadInv
<1>10. QED
  BY <1>4, <1>5, <1>6, <1>7, <1>8, <1>9 DEF Next

\* A status that a workflow writes to a lead is backed by the record that caused it, in
\* every reachable state: whatever crashes between a record's write and its lead's, and
\* however long another request holds the old status.
THEOREM LeadsFollowRecords == Spec => []LeadNeverAhead
<1>1. LeadInv => LeadNeverAhead
  BY DEF LeadInv, AcceptInv, TypeOK, LeadDoc, NoneAhead, LeadNeverAhead
<1>2. QED
  BY <1>1, InitLeadInv, StepLeadInv, PTL DEF Spec

-----------------------------------------------------------------------------
(* How a request moves from query to query, and what its writes do to the documents: from *)
(* these follow what overlapping requests cannot do, and that every request has an end.   *)

\* A client has sent request s.
Started(s) ==
  /\ At(s, "idle")
  /\ \/ req'[s].pc \in {"updateLead", "removeLead", "createProposal", "createFulfillment", "accept"}
     \/ /\ req'[s].pc = "editProposal"
        /\ proposal[req'[s].proposal].status \notin {Absent, "ACCEPTED"}
     \/ req'[s].pc = "setStatusRead" /\ req'[s].status \in {"QUOTE_SENT", "REJECTED"}
     \/ req'[s].pc = "countUnresolved" /\ req'[s].status = "COMPLETED"
     \/ req'[s].pc = "createFollowUp" /\ req'[s].status = lead[req'[s].lead].status

\* Request s has run a query and has another to run.
Continued(s) ==
  /\ req'[s].lead = req[s].lead
  /\ \/ At(s, "accept") /\ req'[s].pc = "acceptReadLead"
     \/ At(s, "acceptReadLead") /\ req'[s].pc \in {"acceptWriteLead", "acceptCommit"}
     \/ At(s, "acceptWriteLead") /\ req'[s].pc = "acceptCommit"
     \/ At(s, "setStatusRead") /\ req'[s].pc = "setStatusWrite" /\ req'[s].status = req[s].status
     \/ /\ At(s, "countUnresolved") /\ Unresolved(req[s].lead) = {} /\ UNCHANGED fulfillment
        /\ req'[s].pc = "setStatusRead" /\ req'[s].status = req[s].status
     \/ /\ At(s, "createFollowUp") /\ req[s].status \notin ClosedLeadStatuses
        /\ req'[s].pc = "setStatusRead" /\ req'[s].status = "FOLLOW_UP"

\* The write of transaction s has met another write of the same lead: all over again.
Conflicted(s) ==
  /\ At(s, "acceptWriteLead") /\ req'[s].pc = "accept"
  /\ s \in outdated \/ LeadLocked(req[s].lead)

Moved(s) ==
  \/ req'[s] = req[s]
  \/ req'[s].pc \in {"idle", "crashed"}
  \/ Started(s) \/ Continued(s) \/ Conflicted(s)

\* Goto moves one request and keeps what it carries.
LEMMA GotoGoes ==
  ASSUME req \in [Requests -> Request], NEW r \in Requests, NEW point, Goto(r, point)
  PROVE  /\ req'[r].pc = point /\ req'[r].lead = req[r].lead /\ req'[r].status = req[r].status
         /\ \A s \in Requests : s # r => req'[s] = req[s]
<1>1. [req[r] EXCEPT !.pc = point].status = req[r].status /\ req[r] \in Request
  BY DEF Request
<1>2. QED
  BY <1>1 DEF Goto, Request

LEMMA ReturnGoes ==
  ASSUME req \in [Requests -> Request], NEW r \in Requests, Return(r)
  PROVE  req'[r].pc = "idle" /\ \A s \in Requests : s # r => req'[s] = req[s]
  BY DEF Return, Idle

LEMMA ArriveMoves ==
  ASSUME TypeOK, NEW r \in Requests, Arrive(r)
  PROVE  \A s \in Requests : Moved(s)
<1> USE DEF TypeOK, Begin, Moved, Started, At
<1>1. ASSUME NEW l \in Leads, NEW x \in ManualStatuses \cup {None}, UpdateLeadRead(r, l, x)
      PROVE  \A s \in Requests : Moved(s)
  BY <1>1 DEF UpdateLeadRead
<1>2. ASSUME NEW l \in Leads,
             \/ RemoveLeadRead(r, l) \/ CreateProposalRead(r, l)
             \/ CreateFulfillmentRead(r, l) \/ CreateFollowUpRead(r, l)
      PROVE  \A s \in Requests : Moved(s)
  BY <1>2 DEF RemoveLeadRead, CreateProposalRead, CreateFulfillmentRead, CreateFollowUpRead
<1>3. ASSUME NEW p \in Proposals,
             EditProposalRead(r, p) \/ Send(r, p) \/ Reject(r, p) \/ AcceptStart(r, p)
      PROVE  \A s \in Requests : Moved(s)
  BY <1>3 DEF EditProposalRead, Send, Reject, AcceptStart
<1>4. ASSUME NEW f \in Fulfillments, CompleteFulfillment(r, f)
      PROVE  \A s \in Requests : Moved(s)
  BY <1>4 DEF CompleteFulfillment
<1>5. ASSUME NEW f \in Fulfillments, NEW x \in FulfillmentStatus, UpdateFulfillment(r, f, x)
      PROVE  \A s \in Requests : Moved(s)
  BY <1>5 DEF UpdateFulfillment
<1>6. QED
  BY <1>1, <1>2, <1>3, <1>4, <1>5 DEF Arrive

LEMMA ProceedMoves ==
  ASSUME TypeOK, NEW r \in Requests, Proceed(r)
  PROVE  \A s \in Requests : Moved(s)
<1>0. req \in [Requests -> Request]
  BY DEF TypeOK
<1>1. CASE Return(r)
  BY <1>0, <1>1, ReturnGoes DEF Moved
<1>2. ASSUME \A s \in Requests : s # r => req'[s] = req[s], Continued(r) \/ Conflicted(r)
      PROVE  \A s \in Requests : Moved(s)
  BY <1>2 DEF Moved
<1>3. CASE SetStatusRead(r)
  BY <1>0, <1>1, <1>2, <1>3, GotoGoes DEF SetStatusRead, Continued
<1>4. CASE AcceptTransition(r)
  BY <1>0, <1>2, <1>4, GotoGoes DEF AcceptTransition, Continued
<1>5. CASE AcceptReadLead(r)
  <2>1. /\ At(r, "acceptReadLead")
        /\ Return(r) \/ Goto(r, "acceptCommit") \/ Goto(r, "acceptWriteLead")
    BY <1>5 DEF AcceptReadLead
  <2>2. QED
    BY <1>0, <1>1, <1>2, <2>1, GotoGoes DEF Continued
<1>6. CASE AcceptWriteLead(r)
  <2>1. CASE r \in outdated \/ LeadLocked(req[r].lead)
    BY <1>0, <1>2, <1>6, <2>1, GotoGoes DEF AcceptWriteLead, Conflicted
  <2>2. CASE ~(r \in outdated \/ LeadLocked(req[r].lead))
    <3> DEFINE x == [req[r] EXCEPT !.pc = "acceptCommit", !.status = "CONFIRMED"]
    <3>1. req' = [req EXCEPT ![r] = x] /\ At(r, "acceptWriteLead")
      BY <1>0, <1>6, <2>2 DEF AcceptWriteLead
    <3>2. x.pc = "acceptCommit" /\ x.lead = req[r].lead
      BY <1>0 DEF Request
    <3> HIDE DEF x
    <3>3. QED
      BY <1>0, <1>2, <3>1, <3>2 DEF Continued
  <2>3. QED
    BY <2>1, <2>2
<1>7. CASE CountUnresolved(r)
  BY <1>0, <1>1, <1>2, <1>7, GotoGoes DEF CountUnresolved, Continued
<1>8. CASE CreateFollowUpWrite(r)
  <2>1. CASE req[r].status \in ClosedLeadStatuses
    BY <1>1, <1>8, <2>1 DEF CreateFollowUpWrite
  <2>2. CASE req[r].status \notin ClosedLeadStatuses
    <3> DEFINE x == [req[r] EXCEPT !.pc = "setStatusRead", !.status = "FOLLOW_UP"]
    <3>1. req' = [req EXCEPT ![r] = x] /\ At(r, "createFollowUp")
      BY <1>0, <1>8, <2>2 DEF CreateFollowUpWrite
    <3>2. x.pc = "setStatusRead" /\ x.lead = req[r].lead /\ x.status = "FOLLOW_UP"
      BY <1>0 DEF Request
    <3> HIDE DEF x
    <3>3. QED
      BY <1>0, <1>2, <2>2, <3>1, <3>2 DEF Continued
  <2>3. QED
    BY <2>1, <2>2
<1>9. QED
  BY <1>1, <1>3, <1>4, <1>5, <1>6, <1>7, <1>8 DEF Proceed, UpdateLeadWrite, RemoveLeadWrite,
     SetStatusWrite, CreateProposalWrite, EditProposalWrite, AcceptRefused, AcceptCommit,
     CreateFulfillmentWrite

LEMMA RequestsMove == ASSUME TypeOK, [Next]_vars PROVE \A s \in Requests : Moved(s)
<1>1. CASE UNCHANGED vars
  BY <1>1 DEF vars, Moved
<1>2. CASE UNCHANGED req
  BY <1>2 DEF Moved
<1>3. ASSUME NEW r \in Requests, Crash(r) \/ Restart(r)
      PROVE  \A s \in Requests : Moved(s)
  BY <1>3 DEF Crash, Restart, Return, Idle, Crashed, Moved, TypeOK
<1>4. QED
  BY <1>1, <1>2, <1>3, ArriveMoves, ProceedMoves DEF Next, CreateLead, CompleteFollowUp

\* Who changes the status of lead l: its creation, an acceptance, or a request that carries
\* the status as its own.
LEMMA StatusWriters ==
  ASSUME TypeOK, [Next]_vars, NEW l \in Leads, lead'[l].status # lead[l].status
  PROVE  \/ lead[l].status = Absent
         \/ lead'[l].status = "CONFIRMED"
         \/ \E s \in Requests : /\ req[s].pc \in {"updateLead", "setStatusWrite"}
                                /\ req[s].lead = l /\ lead'[l].status = req[s].status
<1> DEFINE Goal ==
      \/ lead[l].status = Absent
      \/ lead'[l].status = "CONFIRMED"
      \/ \E s \in Requests : /\ req[s].pc \in {"updateLead", "setStatusWrite"}
                             /\ req[s].lead = l /\ lead'[l].status = req[s].status
<1>1. ASSUME NEW o \in Leads, CreateLead(o) PROVE Goal
  BY <1>1 DEF CreateLead, TypeOK, LeadDoc
<1>2. ASSUME NEW r \in Requests, UpdateLeadWrite(r) PROVE Goal
  <2>1. /\ At(r, "updateLead")
        /\ lead' = [lead EXCEPT ![req[r].lead] =
             [lead[req[r].lead] EXCEPT !.status = IF req[r].status = None THEN @ ELSE req[r].status]]
    BY <1>2 DEF UpdateLeadWrite, WriteLead
  <2>2. QED
    BY <2>1 DEF TypeOK, LeadDoc, At
<1>3. ASSUME NEW r \in Requests, RemoveLeadWrite(r) PROVE Goal
  BY <1>3 DEF RemoveLeadWrite, WriteLead, TypeOK, LeadDoc
<1>4. ASSUME NEW r \in Requests, SetStatusWrite(r) PROVE Goal
  BY <1>4 DEF SetStatusWrite, WriteLead, TypeOK, LeadDoc, At
<1>5. ASSUME NEW r \in Requests, AcceptCommit(r) PROVE Goal
  BY <1>5 DEF AcceptCommit, TypeOK, LeadDoc
<1>6. ~UNCHANGED lead
  OBVIOUS
<1> HIDE DEF Goal
<1>7. ASSUME NEW r \in Requests, Proceed(r) PROVE Goal
  BY <1>2, <1>3, <1>4, <1>5, <1>6, <1>7 DEF Proceed, SetStatusRead, CreateProposalWrite,
     EditProposalWrite, AcceptTransition, AcceptRefused, AcceptReadLead, AcceptWriteLead,
     CreateFulfillmentWrite, CountUnresolved, CreateFollowUpWrite
<1>8. ASSUME NEW r \in Requests, Arrive(r) PROVE FALSE
  BY <1>6, <1>8 DEF Arrive, UpdateLeadRead, RemoveLeadRead, CreateProposalRead,
     CreateFulfillmentRead, CreateFollowUpRead, EditProposalRead, Send, Reject, AcceptStart,
     CompleteFulfillment, UpdateFulfillment
<1>9. Goal
  BY <1>1, <1>6, <1>7, <1>8 DEF Next, CompleteFollowUp, Crash, Restart, vars
<1>10. QED
  BY <1>9 DEF Goal

\* Request s may still write the contents of proposal p.
Editing(s, p) == At(s, "editProposal") /\ req[s].proposal = p

\* An accepted proposal whose last edit has ended.
Locked(p) == proposal[p].status = "ACCEPTED" /\ \A s \in Requests : ~Editing(s, p)

LEMMA LockedStays ==
  ASSUME TypeOK, [Next]_vars, NEW p \in Proposals, Locked(p)
  PROVE  proposal'[p] = proposal[p]
<1> USE DEF TypeOK, ProposalDoc, Locked
<1>1. ASSUME NEW r \in Requests, NEW o \in Proposals, Send(r, o) \/ Reject(r, o)
      PROVE  proposal'[p] = proposal[p]
  BY <1>1 DEF Send, Reject, TransitionStatus
<1>2. ASSUME NEW r \in Requests, Arrive(r) PROVE proposal'[p] = proposal[p]
  BY <1>1, <1>2 DEF Arrive, UpdateLeadRead, RemoveLeadRead, CreateProposalRead,
     CreateFulfillmentRead, CreateFollowUpRead, EditProposalRead, AcceptStart,
     CompleteFulfillment, UpdateFulfillment
<1>3. ASSUME NEW r \in Requests, CreateProposalWrite(r) PROVE proposal'[p] = proposal[p]
  BY <1>3 DEF CreateProposalWrite, Absent
<1>4. ASSUME NEW r \in Requests, EditProposalWrite(r) PROVE proposal'[p] = proposal[p]
  BY <1>4 DEF EditProposalWrite, Editing
<1>5. ASSUME NEW r \in Requests, AcceptCommit(r) PROVE proposal'[p] = proposal[p]
  BY <1>5 DEF AcceptCommit
<1>6. ASSUME NEW r \in Requests, Proceed(r) PROVE proposal'[p] = proposal[p]
  BY <1>3, <1>4, <1>5, <1>6 DEF Proceed, UpdateLeadWrite, RemoveLeadWrite, SetStatusRead,
     SetStatusWrite, AcceptTransition, AcceptRefused, AcceptReadLead, AcceptWriteLead,
     CreateFulfillmentWrite, CountUnresolved, CreateFollowUpWrite
<1>7. QED
  BY <1>2, <1>6 DEF Next, CreateLead, CompleteFollowUp, Crash, Restart, vars

\* "An accepted proposal cannot be edited" (proposals.service.ts update): once the edits that
\* were checked before the acceptance have ended, the document of an accepted proposal never
\* changes again and no edit of it begins, so AcceptedProposalIsLocked fails for those only.
THEOREM AcceptedStaysLocked ==
  Spec => [][\A p \in Proposals :
               Locked(p) => proposal'[p] = proposal[p] /\ Locked(p)']_vars
<1>1. ASSUME TypeOK, [Next]_vars, NEW p \in Proposals, Locked(p)
      PROVE  proposal'[p] = proposal[p] /\ Locked(p)'
  <2>1. proposal'[p] = proposal[p]
    BY <1>1, LockedStays
  <2>2. ASSUME NEW s \in Requests, Editing(s, p)' PROVE FALSE
    <3>1. Moved(s) /\ req'[s].pc = "editProposal" /\ req'[s].proposal = p
      BY <1>1, <2>2, RequestsMove DEF Editing, At
    <3>2. Started(s) \/ Editing(s, p)
      BY <3>1 DEF Moved, Continued, Conflicted, Editing, At
    <3>3. QED
      BY <1>1, <3>1, <3>2 DEF Started, Locked
  <2>3. QED
    BY <1>1, <2>1, <2>2 DEF Locked
<1>2. TypeOK /\ [Next]_vars =>
        [\A p \in Proposals : Locked(p) => proposal'[p] = proposal[p] /\ Locked(p)']_vars
  BY <1>1
<1>3. QED
  BY <1>2, TypeCorrect, PTL DEF Spec

\* So the promise holds of every behaviour in which no edit is under way when a proposal
\* is accepted.
COROLLARY LockedWithoutOverlap ==
  Spec /\ [](\A p \in Proposals : proposal[p].status = "ACCEPTED" =>
               \A s \in Requests : ~Editing(s, p))
    => AcceptedProposalIsLocked
<1> DEFINE Apart == \A p \in Proposals : proposal[p].status = "ACCEPTED" =>
                      \A s \in Requests : ~Editing(s, p)
<1>1. ASSUME TypeOK, Apart, [Next]_vars, NEW p \in Proposals, proposal[p].status = "ACCEPTED"
      PROVE  proposal'[p].content = proposal[p].content
  BY <1>1, LockedStays DEF Locked
<1>2. TypeOK /\ Apart /\ [Next]_vars =>
        [\A p \in Proposals : proposal[p].status = "ACCEPTED" =>
           proposal'[p].content = proposal[p].content]_vars
  BY <1>1
<1>3. QED
  BY <1>2, TypeCorrect, PTL DEF Spec, AcceptedProposalIsLocked

-----------------------------------------------------------------------------
(* The lead's status *)

\* Request s carries status x to write it to lead l.
Setting(s, l, x) ==
  req[s].pc \in {"setStatusRead", "setStatusWrite"} /\ req[s].lead = l /\ req[s].status = x

\* Staff write status x to lead l by hand.
ByHand(s, l, x) == At(s, "updateLead") /\ req[s].lead = l /\ req[s].status = x

\* A follow-up that read lead l as open is on its way to move it.
Dragging(s, l) ==
  \/ At(s, "createFollowUp") /\ req[s].lead = l /\ req[s].status \notin ClosedLeadStatuses
  \/ Setting(s, l, "FOLLOW_UP")

Closed(l) == lead[l].status \in ClosedLeadStatuses

\* A request that counts open work was sent by the completion of a fulfillment.
CountInv == \A s \in Requests : At(s, "countUnresolved") => req[s].status = "COMPLETED"

LEMMA CountStep == TypeOK /\ CountInv /\ [Next]_vars => CountInv'
<1> SUFFICES ASSUME TypeOK, CountInv, [Next]_vars, NEW s \in Requests, At(s, "countUnresolved")'
             PROVE  req'[s].status = "COMPLETED"
  BY DEF CountInv, At
<1>1. Moved(s) /\ req'[s].pc = "countUnresolved"
  BY RequestsMove DEF At
<1>2. QED
  BY <1>1 DEF Moved, Started, Continued, Conflicted, CountInv, At

LEMMA Counts == Spec => [](TypeOK /\ CountInv)
<1>1. Init => CountInv
  BY DEF Init, CountInv, At, Idle
<1>2. QED
  BY <1>1, CountStep, TypeCorrect, PTL DEF Spec

\* No new follow-up sets out to move a lead that is closed.
LEMMA NoNewDrag ==
  ASSUME TypeOK, CountInv, [Next]_vars, NEW l \in Leads, Closed(l),
         NEW s \in Requests, Dragging(s, l)'
  PROVE  Dragging(s, l)
<1>1. Moved(s) /\ req'[s].pc \in {"createFollowUp", "setStatusRead", "setStatusWrite"}
      /\ req'[s].lead = l
  BY RequestsMove DEF Dragging, Setting, At
<1>2. CASE req'[s] = req[s]
  BY <1>2 DEF Dragging, Setting, At
<1>3. CASE Started(s)
  BY <1>1, <1>3 DEF Started, Dragging, Setting, At, Closed
<1>4. CASE Continued(s)
  <2>1. /\ req[s].lead = l /\ req'[s].pc \in {"setStatusRead", "setStatusWrite"}
        /\ req'[s].status = "FOLLOW_UP"
    BY <1>1, <1>4 DEF Continued, Dragging, Setting, At
  <2>2. QED
    BY <1>4, <2>1 DEF Continued, Dragging, Setting, At, CountInv
<1>5. QED
  BY <1>1, <1>2, <1>3, <1>4 DEF Moved, Conflicted

\* "Never drag a won/closed lead backward into FOLLOW_UP" (followups.service.ts): a closed
\* lead is moved to FOLLOW_UP only by staff or by a follow-up that had read the lead before
\* it was closed, and no follow-up created later joins those.
THEOREM OnlyOlderFollowUpsDrag ==
  Spec => [][\A l \in Leads : Closed(l) =>
               /\ lead'[l].status = "FOLLOW_UP" =>
                    \E s \in Requests : Dragging(s, l) \/ ByHand(s, l, "FOLLOW_UP")
               /\ \A s \in Requests : Dragging(s, l)' => Dragging(s, l)]_vars
<1>1. ASSUME TypeOK, [Next]_vars, NEW l \in Leads, Closed(l), lead'[l].status = "FOLLOW_UP"
      PROVE  \E s \in Requests : Dragging(s, l) \/ ByHand(s, l, "FOLLOW_UP")
  <2>1. lead'[l].status # lead[l].status /\ lead[l].status # Absent
    BY <1>1 DEF Closed, ClosedLeadStatuses, Absent
  <2>2. QED
    BY <1>1, <2>1, StatusWriters DEF Dragging, Setting, ByHand, At
<1>2. TypeOK /\ CountInv /\ [Next]_vars =>
        [\A l \in Leads : Closed(l) =>
           /\ lead'[l].status = "FOLLOW_UP" =>
                \E s \in Requests : Dragging(s, l) \/ ByHand(s, l, "FOLLOW_UP")
           /\ \A s \in Requests : Dragging(s, l)' => Dragging(s, l)]_vars
  BY <1>1, NoNewDrag
<1>3. QED
  BY <1>2, Counts, PTL DEF Spec

\* A completed fulfillment's request is on its way to complete lead l.
Completing(s, l) == Setting(s, l, "COMPLETED")

\* No fulfillment of a lead is opened or re-opened while a request completes the lead.
NoReopening ==
  \A s \in Requests, l \in Leads : Completing(s, l) => Unresolved(l)' \subseteq Unresolved(l)

CompletingInv ==
  \A s \in Requests, l \in Leads : Completing(s, l) => Unresolved(l) = {}

LEMMA CompletingStep ==
  TypeOK /\ CountInv /\ CompletingInv /\ [Next]_vars /\ [NoReopening]_vars => CompletingInv'
<1> SUFFICES ASSUME TypeOK, CompletingInv, [Next]_vars, [NoReopening]_vars,
                    NEW s \in Requests, NEW l \in Leads, Completing(s, l)'
             PROVE  Unresolved(l)' = {}
  BY DEF CompletingInv
<1>1. /\ Moved(s) /\ req'[s].pc \in {"setStatusRead", "setStatusWrite"}
      /\ req'[s].lead = l /\ req'[s].status = "COMPLETED"
  BY RequestsMove DEF Completing, Setting
<1>2. CASE UNCHANGED vars
  BY <1>2 DEF vars, CompletingInv, Completing, Setting, Unresolved
<1>3. CASE Completing(s, l)
  BY <1>2, <1>3 DEF NoReopening, CompletingInv
<1>4. CASE ~Completing(s, l)
  <2>1. Unresolved(l) = {} /\ UNCHANGED fulfillment
    BY <1>1, <1>4 DEF Moved, Started, Continued, Conflicted, Completing, Setting, At
  <2>2. QED
    BY <2>1 DEF Unresolved
<1>5. QED
  BY <1>3, <1>4

\* "All of a lead's fulfillments COMPLETED -> lead COMPLETED" (fulfillments.service.ts update):
\* when a lead becomes COMPLETED, and not by hand, it has no open fulfillment, unless one
\* was opened or re-opened between the count and the write that the count allowed.
THEOREM CompletedHasNoOpenWork ==
  Spec /\ [][NoReopening]_vars =>
    [][\A l \in Leads : lead[l].status # Absent /\ lead[l].status # "COMPLETED"
                        /\ lead'[l].status = "COMPLETED" =>
         Unresolved(l) = {} \/ \E s \in Requests : ByHand(s, l, "COMPLETED")]_vars
<1>1. ASSUME TypeOK, CompletingInv, [Next]_vars, NEW l \in Leads, lead[l].status # Absent,
             lead[l].status # "COMPLETED", lead'[l].status = "COMPLETED"
      PROVE  Unresolved(l) = {} \/ \E s \in Requests : ByHand(s, l, "COMPLETED")
  <2>1. PICK s \in Requests : /\ req[s].pc \in {"updateLead", "setStatusWrite"}
                              /\ req[s].lead = l /\ req[s].status = "COMPLETED"
    BY <1>1, StatusWriters
  <2>2. QED
    BY <1>1, <2>1 DEF CompletingInv, Completing, Setting, ByHand, At
<1>2. TypeOK /\ CompletingInv /\ [Next]_vars =>
        [\A l \in Leads : lead[l].status # Absent /\ lead[l].status # "COMPLETED"
                          /\ lead'[l].status = "COMPLETED" =>
           Unresolved(l) = {} \/ \E s \in Requests : ByHand(s, l, "COMPLETED")]_vars
  BY <1>1
<1>3. Init => CompletingInv
  BY DEF Init, CompletingInv, Completing, Setting, Idle
<1>4. QED
  BY <1>2, <1>3, CompletingStep, Counts, PTL DEF Spec

-----------------------------------------------------------------------------
(* The end of a request: what of RequestsEnd is not fairness *)

\* The queries that a request at point pc runs at most before it ends, conflicts aside.
QueriesLeft(pc) ==
  CASE pc \in {"idle", "crashed"} -> 0
    [] pc = "accept" -> 4
    [] pc \in {"acceptReadLead", "countUnresolved", "createFollowUp"} -> 3
    [] pc \in {"acceptWriteLead", "setStatusRead"} -> 2
    [] OTHER -> 1

\* Every query brings the request that runs it nearer to its end, except the write that
\* meets another write of the same lead and starts its transaction over (MongoDB's write
\* conflict, proposals.service.ts accept): no other retry and no loop is in the handlers.
THEOREM RequestsAdvance ==
  Spec => [][\A s \in Requests :
               \/ req'[s] = req[s] \/ At(s, "idle") \/ At(s, "crashed")
               \/ QueriesLeft(req'[s].pc) < QueriesLeft(req[s].pc)
               \/ Conflicted(s)]_vars
<1>1. ASSUME TypeOK, [Next]_vars, NEW s \in Requests
      PROVE  \/ req'[s] = req[s] \/ At(s, "idle") \/ At(s, "crashed")
             \/ QueriesLeft(req'[s].pc) < QueriesLeft(req[s].pc)
             \/ Conflicted(s)
  <2>1. Moved(s)
    BY <1>1, RequestsMove
  <2>2. CASE req'[s].pc \in {"idle", "crashed"} /\ ~At(s, "idle") /\ ~At(s, "crashed")
    <3>1. QueriesLeft(req[s].pc) \in 1 .. 4 /\ QueriesLeft(req'[s].pc) = 0
      BY <2>2 DEF QueriesLeft, At
    <3>2. QED
      BY <3>1
  <2>3. CASE Continued(s)
    BY <2>3 DEF Continued, QueriesLeft, At
  <2>4. QED
    BY <2>1, <2>2, <2>3 DEF Moved, Started
<1>2. TypeOK /\ [Next]_vars =>
        [\A s \in Requests : \/ req'[s] = req[s] \/ At(s, "idle") \/ At(s, "crashed")
                             \/ QueriesLeft(req'[s].pc) < QueriesLeft(req[s].pc)
                             \/ Conflicted(s)]_vars
  BY <1>1
<1>3. QED
  BY <1>2, TypeCorrect, PTL DEF Spec

\* A transaction's snapshot becomes outdated only by the last write of another request: each
\* time a transaction has to start over, the lead is locked by one that is about to commit, or
\* another request has ended in the meantime, so the requests together never retry in vain.
THEOREM RetriesArePaidFor ==
  Spec => [][\A s \in Requests : s \notin outdated /\ s \in outdated' =>
               \E x \in Requests : x # s /\ ~At(x, "idle") /\ At(x, "idle")']_vars
<1>1. ASSUME TypeOK, [Next]_vars, NEW s \in Requests, s \notin outdated, s \in outdated'
      PROVE  \E x \in Requests : x # s /\ ~At(x, "idle") /\ At(x, "idle")'
  <2>1. ASSUME NEW x \in Requests, Return(x), s \in OutdatedBy(req[x].lead),
               ~InTransaction(x) \/ x # s, ~At(x, "idle")
        PROVE  \E y \in Requests : y # s /\ ~At(y, "idle") /\ At(y, "idle")'
    BY <1>1, <2>1, ReturnGoes DEF OutdatedBy, TypeOK, At
  <2>2. ASSUME NEW x \in Requests, UpdateLeadWrite(x) \/ RemoveLeadWrite(x) \/ SetStatusWrite(x)
        PROVE  \E y \in Requests : y # s /\ ~At(y, "idle") /\ At(y, "idle")'
    BY <1>1, <2>1, <2>2 DEF UpdateLeadWrite, RemoveLeadWrite, SetStatusWrite, WriteLead,
       InTransaction, TxPoints, At
  <2>3. ASSUME NEW x \in Requests, AcceptCommit(x)
        PROVE  \E y \in Requests : y # s /\ ~At(y, "idle") /\ At(y, "idle")'
    BY <1>1, <2>1, <2>3 DEF AcceptCommit, At
  <2>4. ASSUME NEW x \in Requests, Proceed(x)
        PROVE  \E y \in Requests : y # s /\ ~At(y, "idle") /\ At(y, "idle")'
    BY <1>1, <2>2, <2>3, <2>4 DEF Proceed, SetStatusRead, CreateProposalWrite, EditProposalWrite,
       AcceptTransition, AcceptRefused, AcceptReadLead, AcceptWriteLead, CreateFulfillmentWrite,
       CountUnresolved, CreateFollowUpWrite
  <2>5. ASSUME NEW x \in Requests, Arrive(x) PROVE FALSE
    BY <1>1, <2>5 DEF Arrive, UpdateLeadRead, RemoveLeadRead, CreateProposalRead,
       CreateFulfillmentRead, CreateFollowUpRead, EditProposalRead, Send, Reject, AcceptStart,
       CompleteFulfillment, UpdateFulfillment
  <2>6. QED
    BY <1>1, <2>4, <2>5 DEF Next, CreateLead, CompleteFollowUp, Crash, Restart, vars
<1>2. TypeOK /\ [Next]_vars =>
        [\A s \in Requests : s \notin outdated /\ s \in outdated' =>
           \E x \in Requests : x # s /\ ~At(x, "idle") /\ At(x, "idle")']_vars
  BY <1>1
<1>3. QED
  BY <1>2, TypeCorrect, PTL DEF Spec

\* An id of OpenedIds in use names the proposal whose acceptance opened it.
OpenedNamed == \A f \in OpenedIds : fulfillment[f].status = Absent \/ Opener(f) # None

LEMMA OpenedNamedStep == AcceptInv /\ OpenedNamed /\ [Next]_vars => OpenedNamed'
<1> SUFFICES ASSUME AcceptInv, OpenedNamed, [Next]_vars PROVE OpenedNamed'
  OBVIOUS
<1> USE DEF AcceptInv, TypeOK, OpenedNamed, Opener, FulfillmentDoc
<1>1. ASSUME NEW r \in Requests, NEW f \in Fulfillments, CompleteFulfillment(r, f)
      PROVE  OpenedNamed'
  BY <1>1 DEF CompleteFulfillment, Fulfillments
<1>2. ASSUME NEW r \in Requests, NEW f \in Fulfillments, NEW x \in FulfillmentStatus,
             UpdateFulfillment(r, f, x)
      PROVE  OpenedNamed'
  BY <1>2 DEF UpdateFulfillment, Fulfillments
<1>3. ASSUME NEW r \in Requests, Arrive(r) PROVE OpenedNamed'
  BY <1>1, <1>2, <1>3 DEF Arrive, UpdateLeadRead, RemoveLeadRead, CreateProposalRead,
     CreateFulfillmentRead, CreateFollowUpRead, EditProposalRead, Send, Reject, AcceptStart
<1>4. ASSUME NEW r \in Requests, CreateFulfillmentWrite(r) PROVE OpenedNamed'
  BY <1>4, ConstantsOK DEF CreateFulfillmentWrite, Fulfillments
<1>5. ASSUME NEW r \in Requests, AcceptCommit(r) PROVE OpenedNamed'
  <2>1. req[r].proposal # None
    BY <1>5, ConstantsOK DEF AcceptCommit, AcceptNamesProposal, InTransaction, TxPoints, At
  <2>2. QED
    BY <1>5, <2>1 DEF AcceptCommit, Fulfillments
<1>6. ASSUME NEW r \in Requests, Proceed(r) PROVE OpenedNamed'
  BY <1>4, <1>5, <1>6 DEF Proceed, UpdateLeadWrite, RemoveLeadWrite, SetStatusRead,
     SetStatusWrite, CreateProposalWrite, EditProposalWrite, AcceptTransition, AcceptRefused,
     AcceptReadLead, AcceptWriteLead, CountUnresolved, CreateFollowUpWrite
<1>7. QED
  BY <1>3, <1>6 DEF Next, CreateLead, CompleteFollowUp, Crash, Restart, vars

\* Acceptances in which no more than one proposal each asks for an order never run out of
\* them: with one id for each proposal, a transaction about to commit always finds a free
\* one, so the model's bound on ids blocks no acceptance (proposals.service.ts accept).
THEOREM CommitsFindRoom ==
  ASSUME IsFiniteSet(Proposals), IsFiniteSet(OpenedIds),
         Cardinality(Proposals) <= Cardinality(OpenedIds)
  PROVE  Spec => [](\A r \in Requests : At(r, "acceptCommit") =>
                      \E f \in OpenedIds : fulfillment[f].status = Absent)
<1>1. ASSUME AcceptInv, OpenedNamed, NEW r \in Requests, At(r, "acceptCommit"),
             \A f \in OpenedIds : fulfillment[f].status # Absent
      PROVE  FALSE
  <2> DEFINE p == req[r].proposal
             Others == Proposals \ {p}
             opener == [f \in OpenedIds |-> Opener(f)]
  <2>1. p \in Proposals /\ proposal[p].status \in Acceptable
    BY <1>1 DEF AcceptInv, AcceptNamesProposal, TransactionHolds, InTransaction, TxPoints, At, Stage
  <2>2. ASSUME NEW f \in OpenedIds
        PROVE  Opener(f) \in Others /\ OpenedBy(Opener(f)) = {f}
    <3>1. f \in Fulfillments /\ Opener(f) \in Proposals
      BY <1>1 DEF AcceptInv, TypeOK, FulfillmentDoc, Fulfillments, Opener, OpenedNamed
    <3>2. f \in OpenedBy(Opener(f))
      BY <3>1 DEF OpenedBy, Opener
    <3>3. proposal[Opener(f)].status = "ACCEPTED" /\ \E g \in Fulfillments : OpenedBy(Opener(f)) = {g}
      BY <1>1, <3>1, <3>2 DEF AcceptInv, AcceptedIffFulfilled
    <3>4. QED
      BY <2>1, <3>1, <3>2, <3>3 DEF Acceptable
  <2>3. opener \in Injection(OpenedIds, Others)
    <3>1. opener \in [OpenedIds -> Others]
      BY <2>2
    <3>2. ASSUME NEW f \in OpenedIds, NEW g \in OpenedIds, opener[f] = opener[g] PROVE f = g
      <4>1. Opener(f) = Opener(g)
        BY <3>2
      <4>2. {f} = {g}
        BY <2>2, <4>1
      <4>3. QED
        BY <4>2
    <3>3. QED
      BY <3>1, <3>2 DEF Injection, IsInjective
  <2>4. IsFiniteSet(Others) /\ Cardinality(Others) = Cardinality(Proposals) - 1
    BY <2>1, FS_RemoveElement
  <2>5. Cardinality(OpenedIds) <= Cardinality(Others)
    BY <2>3, <2>4, FS_Injection
  <2>6. QED
    BY <2>4, <2>5, FS_CardinalityType
<1>2. AcceptInv /\ OpenedNamed =>
        \A r \in Requests : At(r, "acceptCommit") =>
          \E f \in OpenedIds : fulfillment[f].status = Absent
  BY <1>1
<1>3. Init => OpenedNamed
  BY DEF Init, OpenedNamed, Fulfillments
<1>4. QED
  BY <1>2, <1>3, OpenedNamedStep, InitAcceptInv, StepAcceptInv, PTL DEF Spec

=============================================================================
