---------------------------- MODULE SalesPipeline ----------------------------
(***************************************************************************)
(* The lead -> proposal -> fulfillment pipeline of the CRM back end:       *)
(* LeadsService, ProposalsService, FulfillmentsService, FollowUpsService.  *)
(*                                                                         *)
(* Every HTTP handler is an async function of a stateless server over      *)
(* MongoDB.  One awaited query is atomic; between two awaits any other     *)
(* request may run.  A request is therefore a small process: req[r] holds  *)
(* the point it has reached and the values it read and still carries.      *)
(* Handlers whose only query that matters is one conditional write are one *)
(* action.  Timeline and audit rows are appended only, read by no handler  *)
(* here, and left out.                                                     *)
(*                                                                         *)
(* Acceptance runs in a MongoDB transaction.  The write of a document by   *)
(* an open transaction locks it: plain writers wait for the lock, another  *)
(* transaction gets a write conflict, and so does a transaction that       *)
(* writes a lead modified after its own snapshot.  On a write conflict     *)
(* withTransaction aborts and runs the callback again.                     *)
(***************************************************************************)
EXTENDS Naturals, FiniteSets

CONSTANTS
  Leads, Proposals, FollowUps,  \* ids of documents, created on demand
  OpenedIds,       \* ids of the fulfillments that acceptance opens
  StaffIds,        \* ids of the fulfillments staff create by hand
  Requests,        \* handler invocations that can be in flight together
  Contents,        \* values of a proposal's editable fields (title, amount, ...)
  ManualStatuses,  \* lead statuses staff write with PATCH /leads/:id in this run
  None

LeadStatus == {"NEW", "QUOTE_SENT", "FOLLOW_UP", "CONFIRMED", "ARRANGEMENTS",
               "VOUCHER_SENT", "COMPLETED", "REJECTED"}
ProposalStatus == {"DRAFT", "SENT", "VIEWED", "ACCEPTED", "REJECTED", "EXPIRED"}
FulfillmentStatus == {"PENDING", "IN_PROGRESS", "WAITING_CUSTOMER", "COMPLETED", "CANCELLED"}
FollowUpState == {"OPEN", "COMPLETED"}
Absent == "ABSENT"   \* the status of a document not created yet

Fulfillments == OpenedIds \cup StaffIds

ASSUME ConstantsOK ==
  /\ OpenedIds \cap StaffIds = {}
  /\ ManualStatuses \subseteq LeadStatus
  /\ None \notin Leads \cup Proposals \cup Contents \cup LeadStatus

VARIABLES
  lead,         \* [Leads -> [status, removed]], removed = the isDeleted flag
  proposal,     \* [Proposals -> [status, lead, content]]
  fulfillment,  \* [Fulfillments -> [status, lead, opener]]; opener is the proposal
                \* whose acceptance opened it, None for one created by staff
  followup,     \* [FollowUps -> [state, lead]]
  req,          \* [Requests -> [pc, lead, proposal, status]]
  outdated      \* open transactions whose lead was written after their snapshot

vars == <<lead, proposal, fulfillment, followup, req, outdated>>

\* A transaction is open from its first write to its commit or abort.
TxPoints == {"acceptReadLead", "acceptWriteLead", "acceptCommit"}

Points == {"idle", "crashed", "updateLead", "removeLead", "createProposal", "editProposal",
           "setStatusRead", "setStatusWrite", "accept", "createFulfillment",
           "countUnresolved", "createFollowUp"} \cup TxPoints

Idle == [pc |-> "idle", lead |-> None, proposal |-> None, status |-> None]

Crashed == [pc |-> "crashed", lead |-> None, proposal |-> None, status |-> None]

Init ==
  /\ lead = [l \in Leads |-> [status |-> Absent, removed |-> FALSE]]
  /\ proposal = [p \in Proposals |-> [status |-> Absent, lead |-> None, content |-> None]]
  /\ fulfillment = [f \in Fulfillments |-> [status |-> Absent, lead |-> None, opener |-> None]]
  /\ followup = [u \in FollowUps |-> [state |-> Absent, lead |-> None]]
  /\ req = [r \in Requests |-> Idle]
  /\ outdated = {}

-----------------------------------------------------------------------------
(* Reads, locks and writes shared by the handlers *)

At(r, point) == req[r].pc = point

\* LeadsRepository.findById: soft-deleted leads are not found.
Visible(l) == lead[l].status # Absent /\ ~lead[l].removed

InTransaction(r) == req[r].pc \in TxPoints

\* transitionStatus has written the proposal in a transaction still open.
ProposalLocked(p) == \E r \in Requests : InTransaction(r) /\ req[r].proposal = p

\* An open transaction has written CONFIRMED to the lead.
LeadLocked(l) ==
  \E r \in Requests : At(r, "acceptCommit") /\ req[r].lead = l /\ req[r].status = "CONFIRMED"

\* The transactions that a write of lead l leaves with an outdated snapshot.
OutdatedBy(l) == {r \in Requests : InTransaction(r) /\ req[r].lead = l}

\* A plain findOneAndUpdate on a lead, by id and tenant only: it also finds removed leads.
WriteLead(l, doc) ==
  /\ ~LeadLocked(l)
  /\ lead' = [lead EXCEPT ![l] = doc]
  /\ outdated' = outdated \cup OutdatedBy(l)

Begin(r, point, l, p, s) ==
  /\ At(r, "idle")
  /\ req' = [req EXCEPT ![r] = [pc |-> point, lead |-> l, proposal |-> p, status |-> s]]

\* The bound on documents: a request that will insert one leaves an id to the others.
\* (The code has no such bound; ids are the model's only finite resource.)
Room(unused, point) == Cardinality({r \in Requests : At(r, point)}) < Cardinality(unused)

Goto(r, point) == req' = [req EXCEPT ![r].pc = point]

Return(r) == req' = [req EXCEPT ![r] = Idle]

-----------------------------------------------------------------------------
(* LeadsService *)

\* create: one insert; the agency look-up before it never fails the request.
CreateLead(l) ==
  /\ lead[l].status = Absent
  /\ \E s \in ManualStatuses \cup {"NEW"} : lead' = [lead EXCEPT ![l].status = s]
  /\ UNCHANGED <<proposal, fulfillment, followup, req, outdated>>

\* update: read, then write whatever the body holds (None: no status in the body).
UpdateLeadRead(r, l, s) ==
  /\ Visible(l)
  /\ Begin(r, "updateLead", l, None, s)
  /\ UNCHANGED <<lead, proposal, fulfillment, followup, outdated>>

UpdateLeadWrite(r) ==
  LET l == req[r].lead IN
  /\ At(r, "updateLead")
  /\ WriteLead(l, [lead[l] EXCEPT !.status = IF req[r].status = None THEN @ ELSE req[r].status])
  /\ Return(r)
  /\ UNCHANGED <<proposal, fulfillment, followup>>

\* remove: read, then soft-delete.
RemoveLeadRead(r, l) ==
  /\ Visible(l)
  /\ Begin(r, "removeLead", l, None, None)
  /\ UNCHANGED <<lead, proposal, fulfillment, followup, outdated>>

RemoveLeadWrite(r) ==
  LET l == req[r].lead IN
  /\ At(r, "removeLead")
  /\ WriteLead(l, [lead[l] EXCEPT !.removed = TRUE])
  /\ Return(r)
  /\ UNCHANGED <<proposal, fulfillment, followup>>

\* setStatus, outside a transaction: read the lead, give up on a removed one, do
\* nothing when it has the status already, else write.
SetStatusRead(r) ==
  LET l == req[r].lead IN
  /\ At(r, "setStatusRead")
  /\ IF ~Visible(l) \/ lead[l].status = req[r].status THEN Return(r)
                                                     ELSE Goto(r, "setStatusWrite")
  /\ UNCHANGED <<lead, proposal, fulfillment, followup, outdated>>

SetStatusWrite(r) ==
  LET l == req[r].lead IN
  /\ At(r, "setStatusWrite")
  /\ WriteLead(l, [lead[l] EXCEPT !.status = req[r].status])
  /\ Return(r)
  /\ UNCHANGED <<proposal, fulfillment, followup>>

-----------------------------------------------------------------------------
(* ProposalsService *)

CreateProposalRead(r, l) ==
  /\ Visible(l)
  /\ Room({p \in Proposals : proposal[p].status = Absent}, "createProposal")
  /\ Begin(r, "createProposal", l, None, None)
  /\ UNCHANGED <<lead, proposal, fulfillment, followup, outdated>>

\* The insert under a fresh token.
CreateProposalWrite(r) ==
  /\ At(r, "createProposal")
  /\ \E p \in Proposals, c \in Contents :
       /\ proposal[p].status = Absent
       /\ proposal' = [proposal EXCEPT ![p] =
                         [status |-> "DRAFT", lead |-> req[r].lead, content |-> c]]
  /\ Return(r)
  /\ UNCHANGED <<lead, fulfillment, followup, outdated>>

\* update: refused when the proposal is read ACCEPTED; the write has no such condition.
EditProposalRead(r, p) ==
  /\ proposal[p].status \notin {Absent, "ACCEPTED"}
  /\ Begin(r, "editProposal", None, p, None)
  /\ UNCHANGED <<lead, proposal, fulfillment, followup, outdated>>

EditProposalWrite(r) ==
  LET p == req[r].proposal IN
  /\ At(r, "editProposal")
  /\ ~ProposalLocked(p)
  /\ \E c \in Contents : proposal' = [proposal EXCEPT ![p].content = c]
  /\ Return(r)
  /\ UNCHANGED <<lead, fulfillment, followup, outdated>>

\* Mutant: the update's filter forgets the status, as a read-then-write handler would.
TransitionStatusUnconditional(p, from, to) ==
  /\ proposal[p].status # Absent
  /\ ~ProposalLocked(p)
  /\ proposal' = [proposal EXCEPT ![p].status = to]

\* ProposalsRepository.transitionStatus outside a transaction: one conditional write.
TransitionStatus(p, from, to) ==
  /\ proposal[p].status \in from
  /\ ~ProposalLocked(p)
  /\ proposal' = [proposal EXCEPT ![p].status = to]

\* Mutant: the proposal's new status is passed for the lead's.
SendWrongStatus(r, p) ==
  /\ TransitionStatus(p, {"DRAFT", "SENT"}, "SENT")
  /\ Begin(r, "setStatusRead", proposal[p].lead, None, "SENT")
  /\ UNCHANGED <<lead, fulfillment, followup, outdated>>

\* send and reject: flip the proposal, then set the lead's status in further queries.
Send(r, p) ==
  /\ TransitionStatus(p, {"DRAFT", "SENT"}, "SENT")
  /\ Begin(r, "setStatusRead", proposal[p].lead, None, "QUOTE_SENT")
  /\ UNCHANGED <<lead, fulfillment, followup, outdated>>

Reject(r, p) ==
  /\ TransitionStatus(p, {"DRAFT", "SENT", "VIEWED"}, "REJECTED")
  /\ Begin(r, "setStatusRead", proposal[p].lead, None, "REJECTED")
  /\ UNCHANGED <<lead, fulfillment, followup, outdated>>

\* accept: the read before the transaction decides nothing but existence.
AcceptStart(r, p) ==
  /\ proposal[p].status # Absent
  /\ Begin(r, "accept", proposal[p].lead, p, None)
  /\ UNCHANGED <<lead, proposal, fulfillment, followup, outdated>>

Acceptable == {"SENT", "VIEWED"}

\* Mutant: the status flip is not the transaction's locking write.
AcceptTransitionUnlocked(r) ==
  /\ At(r, "accept")
  /\ proposal[req[r].proposal].status \in Acceptable
  /\ Goto(r, "acceptReadLead")
  /\ outdated' = outdated \ {r}
  /\ UNCHANGED <<lead, proposal, fulfillment, followup>>

\* transitionStatus in the transaction, its first operation, which fixes the snapshot.
AcceptTransition(r) ==
  LET p == req[r].proposal IN
  /\ At(r, "accept")
  /\ proposal[p].status \in Acceptable
  /\ ~ProposalLocked(p)
  /\ Goto(r, "acceptReadLead")
  /\ outdated' = outdated \ {r}
  /\ UNCHANGED <<lead, proposal, fulfillment, followup>>

\* Mutant: a proposal in the wrong state is waited for.
AcceptRefusedNever(r) == At(r, "accept") /\ FALSE /\ UNCHANGED vars

\* The wrong state or a lost race: the transaction aborts and the request fails.
AcceptRefused(r) ==
  /\ At(r, "accept")
  /\ proposal[req[r].proposal].status \notin Acceptable
  /\ Return(r)
  /\ UNCHANGED <<lead, proposal, fulfillment, followup, outdated>>

\* setStatus in the transaction reads the lead outside the session.
AcceptReadLead(r) ==
  LET l == req[r].lead IN
  /\ At(r, "acceptReadLead")
  /\ CASE ~Visible(l) -> Return(r)
       [] Visible(l) /\ lead[l].status = "CONFIRMED" -> Goto(r, "acceptCommit")
       [] OTHER -> Goto(r, "acceptWriteLead")
  /\ UNCHANGED <<lead, proposal, fulfillment, followup, outdated>>

\* Mutant: setStatus forgets to pass the session on, so the lead is written at once.
AcceptWriteLeadNoSession(r) ==
  LET l == req[r].lead IN
  /\ At(r, "acceptWriteLead")
  /\ WriteLead(l, [lead[l] EXCEPT !.status = "CONFIRMED"])
  /\ Goto(r, "acceptCommit")
  /\ UNCHANGED <<proposal, fulfillment, followup>>

\* The lead's write in the transaction; a write conflict aborts it and tries it again.
AcceptWriteLead(r) ==
  LET l == req[r].lead IN
  /\ At(r, "acceptWriteLead")
  /\ IF r \in outdated \/ LeadLocked(l)
       THEN Goto(r, "accept")
       ELSE req' = [req EXCEPT ![r].pc = "acceptCommit", ![r].status = "CONFIRMED"]
  /\ UNCHANGED <<lead, proposal, fulfillment, followup, outdated>>

\* createFromAcceptedProposal and the commit, which makes all the writes visible at once.
AcceptCommit(r) ==
  LET l == req[r].lead
      p == req[r].proposal
      wrote == req[r].status = "CONFIRMED"
  IN
  /\ At(r, "acceptCommit")
  /\ proposal' = [proposal EXCEPT ![p].status = "ACCEPTED"]
  /\ lead' = IF wrote THEN [lead EXCEPT ![l].status = "CONFIRMED"] ELSE lead
  /\ outdated' = (IF wrote THEN outdated \cup OutdatedBy(l) ELSE outdated) \ {r}
  /\ \E f \in OpenedIds :
       /\ fulfillment[f].status = Absent
       /\ fulfillment' = [fulfillment EXCEPT ![f] =
                            [status |-> "PENDING", lead |-> l, opener |-> p]]
  /\ Return(r)
  /\ UNCHANGED followup

-----------------------------------------------------------------------------
(* FulfillmentsService *)

CreateFulfillmentRead(r, l) ==
  /\ Visible(l)
  /\ Room({f \in StaffIds : fulfillment[f].status = Absent}, "createFulfillment")
  /\ Begin(r, "createFulfillment", l, None, None)
  /\ UNCHANGED <<lead, proposal, fulfillment, followup, outdated>>

CreateFulfillmentWrite(r) ==
  /\ At(r, "createFulfillment")
  /\ \E f \in StaffIds, s \in FulfillmentStatus :
       /\ fulfillment[f].status = Absent
       /\ fulfillment' = [fulfillment EXCEPT ![f] =
                            [status |-> s, lead |-> req[r].lead, opener |-> None]]
  /\ Return(r)
  /\ UNCHANGED <<lead, proposal, followup, outdated>>

\* update to a status other than COMPLETED.
UpdateFulfillment(r, f, s) ==
  /\ At(r, "idle")
  /\ fulfillment[f].status # Absent
  /\ s # "COMPLETED"
  /\ fulfillment' = [fulfillment EXCEPT ![f].status = s]
  /\ UNCHANGED <<lead, proposal, followup, req, outdated>>

\* update to COMPLETED: the request goes on to count the lead's open fulfillments.
CompleteFulfillment(r, f) ==
  /\ fulfillment[f].status # Absent
  /\ fulfillment' = [fulfillment EXCEPT ![f].status = "COMPLETED"]
  /\ Begin(r, "countUnresolved", fulfillment[f].lead, None, "COMPLETED")
  /\ UNCHANGED <<lead, proposal, followup, outdated>>

\* Mutant: a cancelled fulfillment still counts as open work.
UnresolvedOrCancelled(l) ==
  {f \in Fulfillments : fulfillment[f].lead = l /\ fulfillment[f].status # "COMPLETED"}

Unresolved(l) ==
  {f \in Fulfillments : fulfillment[f].lead = l
                        /\ fulfillment[f].status \notin {"COMPLETED", "CANCELLED"}}

CountUnresolved(r) ==
  /\ At(r, "countUnresolved")
  /\ IF Unresolved(req[r].lead) = {} THEN Goto(r, "setStatusRead") ELSE Return(r)
  /\ UNCHANGED <<lead, proposal, fulfillment, followup, outdated>>

-----------------------------------------------------------------------------
(* FollowUpsService *)

ClosedLeadStatuses == {"CONFIRMED", "REJECTED", "COMPLETED"}

\* create: the lead's status is read here ...
CreateFollowUpRead(r, l) ==
  /\ Visible(l)
  /\ Room({u \in FollowUps : followup[u].state = Absent}, "createFollowUp")
  /\ Begin(r, "createFollowUp", l, None, lead[l].status)
  /\ UNCHANGED <<lead, proposal, fulfillment, followup, outdated>>

\* ... and decides here, after the insert, whether the lead moves to FOLLOW_UP.
CreateFollowUpWrite(r) ==
  LET l == req[r].lead IN
  /\ At(r, "createFollowUp")
  /\ \E u \in FollowUps :
       /\ followup[u].state = Absent
       /\ followup' = [followup EXCEPT ![u] = [state |-> "OPEN", lead |-> l]]
  /\ IF req[r].status \in ClosedLeadStatuses
       THEN Return(r)
       ELSE req' = [req EXCEPT ![r].pc = "setStatusRead", ![r].status = "FOLLOW_UP"]
  /\ UNCHANGED <<lead, proposal, fulfillment, outdated>>

\* update with an outcome stamps completedAt; a later edit never clears it.
CompleteFollowUp(u) ==
  /\ followup[u].state # Absent
  /\ followup' = [followup EXCEPT ![u].state = "COMPLETED"]
  /\ UNCHANGED <<lead, proposal, fulfillment, req, outdated>>

-----------------------------------------------------------------------------
(* The server process dies under a request: what it wrote stays, an open *)
(* transaction aborts, and the client's slot is usable after a restart.  *)

Crash(r) ==
  /\ req[r].pc \notin {"idle", "crashed"}
  /\ req' = [req EXCEPT ![r] = Crashed]
  /\ outdated' = outdated \ {r}
  /\ UNCHANGED <<lead, proposal, fulfillment, followup>>

Restart(r) ==
  /\ At(r, "crashed")
  /\ Return(r)
  /\ UNCHANGED <<lead, proposal, fulfillment, followup, outdated>>

-----------------------------------------------------------------------------

\* A client sends a new request.
Arrive(r) ==
  \/ \E l \in Leads :
       \/ \E s \in ManualStatuses \cup {None} : UpdateLeadRead(r, l, s)
       \/ RemoveLeadRead(r, l)
       \/ CreateProposalRead(r, l)
       \/ CreateFulfillmentRead(r, l)
       \/ CreateFollowUpRead(r, l)
  \/ \E p \in Proposals : EditProposalRead(r, p) \/ Send(r, p) \/ Reject(r, p) \/ AcceptStart(r, p)
  \/ \E f \in Fulfillments :
       CompleteFulfillment(r, f) \/ \E s \in FulfillmentStatus : UpdateFulfillment(r, f, s)

\* A request in flight runs its next query.
Proceed(r) ==
  \/ UpdateLeadWrite(r) \/ RemoveLeadWrite(r)
  \/ SetStatusRead(r) \/ SetStatusWrite(r)
  \/ CreateProposalWrite(r) \/ EditProposalWrite(r)
  \/ AcceptTransition(r) \/ AcceptRefused(r) \/ AcceptReadLead(r) \/ AcceptWriteLead(r)
  \/ AcceptCommit(r)
  \/ CreateFulfillmentWrite(r) \/ CountUnresolved(r)
  \/ CreateFollowUpWrite(r)

Next ==
  \/ \E l \in Leads : CreateLead(l)
  \/ \E u \in FollowUps : CompleteFollowUp(u)
  \/ \E r \in Requests : Arrive(r) \/ Proceed(r) \/ Crash(r) \/ Restart(r)

Spec == Init /\ [][Next]_vars

\* Node runs every request on to its next await; nothing makes a client send one,
\* and nothing makes a server crash or come back.
FairSpec == Spec /\ \A r \in Requests : WF_vars(Proceed(r))

-----------------------------------------------------------------------------
(* Properties *)

LeadDoc == [status : LeadStatus \cup {Absent}, removed : BOOLEAN]
ProposalDoc == [status : ProposalStatus \cup {Absent}, lead : Leads \cup {None},
                content : Contents \cup {None}]
FulfillmentDoc == [status : FulfillmentStatus \cup {Absent}, lead : Leads \cup {None},
                   opener : Proposals \cup {None}]
FollowUpDoc == [state : FollowUpState \cup {Absent}, lead : Leads \cup {None}]

\* A request on its way to set a lead's status carries a status to set.
CarriesStatus(q) ==
  q.pc \in {"setStatusRead", "setStatusWrite", "countUnresolved"} => q.status \in LeadStatus

Request == {q \in [pc : Points, lead : Leads \cup {None}, proposal : Proposals \cup {None},
                   status : LeadStatus \cup {Absent, None}] : CarriesStatus(q)}

\* Every document and every request in flight holds values of its schema.
TypeOK ==
  /\ lead \in [Leads -> LeadDoc]
  /\ proposal \in [Proposals -> ProposalDoc]
  /\ fulfillment \in [Fulfillments -> FulfillmentDoc]
  /\ followup \in [FollowUps -> FollowUpDoc]
  /\ req \in [Requests -> Request]
  /\ outdated \subseteq Requests

OpenedBy(p) == {f \in Fulfillments : fulfillment[f].opener = p}

\* However accepts, rejects, re-sends, retries and crashes interleave, an accepted
\* proposal has opened exactly one fulfillment, and a proposal that is not accepted none:
\* proposals.service.ts accept(), "a mid-flow failure rolls everything back".
AcceptedIffFulfilled ==
  \A p \in Proposals :
    IF proposal[p].status = "ACCEPTED"
      THEN \E f \in Fulfillments : OpenedBy(p) = {f}
      ELSE OpenedBy(p) = {}

\* The record that entitles lead l to have status s.
Grounds(l, s) ==
  CASE s = "QUOTE_SENT" ->
         \E p \in Proposals : proposal[p].lead = l /\ proposal[p].status \notin {Absent, "DRAFT"}
    [] s = "CONFIRMED" ->
         \E p \in Proposals : proposal[p].lead = l /\ proposal[p].status = "ACCEPTED"
    [] s = "REJECTED" ->
         \E p \in Proposals : proposal[p].lead = l /\ proposal[p].status = "REJECTED"
    [] s = "FOLLOW_UP" -> \E u \in FollowUps : followup[u].lead = l
    [] s = "COMPLETED" -> \E f \in Fulfillments : fulfillment[f].lead = l
    [] OTHER -> FALSE

\* A status the workflows write to a lead is always backed by the record that caused
\* it, although the record and the lead are written by different queries: a crash may
\* leave the lead behind its records, never ahead of them.
LeadNeverAhead ==
  \A l \in Leads :
    lead[l].status \in ManualStatuses \cup {Absent, "NEW"} \/ Grounds(l, lead[l].status)

\* What a client of the proposals API is promised: DealBook's atomic decisions.
Stage == [p \in Proposals |-> proposal[p].status]
Order == [f \in OpenedIds |-> fulfillment[f].opener]

Deals == INSTANCE DealBook WITH stage <- Stage, order <- Order

\* The handlers implement the deal book: whatever the interleaving, a proposal's
\* life seen from outside is draft, offers, and one final decision that opens its
\* order in the same instant.
ImplementsDealBook == Deals!Spec

\* Transactions opened for ever, one after another, can starve a write that waits for
\* a document they lock (MongoDB queues nobody) and each other by write conflicts.
Contended == \E q \in Requests : []<>InTransaction(q)

\* Completing the last open fulfillment of a lead completes the lead, although the
\* write, the count and the lead's update are separate queries: the request that
\* counts finds open work, or the lead becomes COMPLETED, or was removed, or the
\* server died.
CompletionReachesLead ==
  \/ \A r \in Requests, l \in Leads :
       At(r, "countUnresolved") /\ req[r].lead = l
         ~> \/ lead[l].status = "COMPLETED" \/ ~Visible(l) \/ At(r, "crashed")
            \/ \E f \in Fulfillments : fulfillment[f].lead = l
                 /\ fulfillment[f].status \in {"PENDING", "IN_PROGRESS", "WAITING_CUSTOMER"}
  \/ Contended

\* No request hangs, the ones that wait for a document locked by an open transaction
\* included.
RequestsEnd ==
  \/ \A r \in Requests : ~At(r, "idle") ~> At(r, "idle") \/ At(r, "crashed")
  \/ Contended

\* "Never drag a won/closed lead backward into FOLLOW_UP" (followups.service.ts:44).
WonLeadStaysOutOfFollowUp ==
  [][\A l \in Leads : lead[l].status \in ClosedLeadStatuses => lead'[l].status # "FOLLOW_UP"]_vars

\* "An accepted proposal cannot be edited" (proposals.service.ts:109).
AcceptedProposalIsLocked ==
  [][\A p \in Proposals : proposal[p].status = "ACCEPTED"
       => proposal'[p].content = proposal[p].content]_vars

=============================================================================
