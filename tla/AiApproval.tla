----------------------------- MODULE AiApproval -----------------------------
(***************************************************************************)
(* The AI copilot (AiCopilotService): what the model recommends is stored  *)
(* as an action, a person approves or rejects it, and the client reports   *)
(* that an approved action was carried out.  Next to it the persisted chat *)
(* of a session: the user's turn is stored, the provider is asked, and its *)
(* reply is stored.                                                        *)
(*                                                                         *)
(* updateAction writes by id alone, so a decision or a report computed     *)
(* from an old read overwrites whatever another request wrote meanwhile.   *)
(***************************************************************************)
EXTENDS Handlers, Naturals, Sequences, SequencesExt

CONSTANTS
  AiActions,     \* ids of recommended actions
  AiSessions,    \* ids of chat sessions
  MaxMessages,   \* bound: messages stored in a session
  HistoryWindow  \* the last messages sent to the provider (20 in the code)

ASSUME AiAssumption == MaxMessages \in Nat /\ HistoryWindow \in Nat /\ "ABSENT" # None

AiActionStatus == {"RECOMMENDED", "APPROVED", "REJECTED", "EXECUTED", "FAILED"}
AiDecision == {"APPROVED", "REJECTED"}
AiRole == {"USER", "ASSISTANT"}

\* None is no conversation: a session that does not exist is told from any that does.
ASSUME SessionAssumption == None \notin Seq(AiRole)

VARIABLES
  aiAction,   \* [AiActions -> [status, executedAt]]; ABSENT until recorded
  approvals,  \* [AiActions -> the decisions recorded for it in ai_approvals]
  messages,   \* [AiSessions -> the stored conversation, oldest first; None: no session]
  aiReq       \* [Requests -> the handler in flight]

aiVars == <<aiAction, approvals, messages, aiReq>>

AiInit ==
  /\ aiAction = [a \in AiActions |-> [status |-> "ABSENT", executedAt |-> FALSE]]
  /\ approvals = [a \in AiActions |-> {}]
  /\ messages = [s \in AiSessions |-> None]
  /\ aiReq = [r \in Requests |-> Idle]

-----------------------------------------------------------------------------
(* Actions: recommend, decide, report *)

RecordAction(a) ==
  /\ aiAction[a].status = "ABSENT"
  /\ aiAction' = [aiAction EXCEPT ![a].status = "RECOMMENDED"]
  /\ UNCHANGED <<approvals, messages, aiReq>>

\* approveAction and rejectAction refuse an action they do not read as RECOMMENDED.
DecideRead(r, a, decision) ==
  /\ At(aiReq, r, "idle")
  /\ aiAction[a].status = "RECOMMENDED"
  /\ aiReq' = Continue(aiReq, r, [pc |-> "recordApproval", action |-> a, decision |-> decision])
  /\ UNCHANGED <<aiAction, approvals, messages>>

\* Mutant: a failure to record the approval is swallowed.
RecordApprovalSwallowed(r) ==
  /\ At(aiReq, r, "recordApproval")
  /\ \/ approvals' = [approvals EXCEPT ![aiReq[r].action] = @ \cup {aiReq[r].decision}]
     \/ UNCHANGED approvals
  /\ aiReq' = Continue(aiReq, r, [aiReq[r] EXCEPT !.pc = "writeDecision"])
  /\ UNCHANGED <<aiAction, messages>>

RecordApproval(r) ==
  /\ At(aiReq, r, "recordApproval")
  /\ approvals' = [approvals EXCEPT ![aiReq[r].action] = @ \cup {aiReq[r].decision}]
  /\ aiReq' = Continue(aiReq, r, [aiReq[r] EXCEPT !.pc = "writeDecision"])
  /\ UNCHANGED <<aiAction, messages>>

WriteDecision(r) ==
  /\ At(aiReq, r, "writeDecision")
  /\ aiAction' = [aiAction EXCEPT ![aiReq[r].action].status = aiReq[r].decision]
  /\ aiReq' = Finish(aiReq, r)
  /\ UNCHANGED <<approvals, messages>>

\* markExecuted refuses an action it does not read as APPROVED.
ReportRead(r, a) ==
  /\ At(aiReq, r, "idle")
  /\ aiAction[a].status = "APPROVED"
  /\ \E result \in {"EXECUTED", "FAILED"} :
       aiReq' = Continue(aiReq, r, [pc |-> "writeReport", action |-> a, result |-> result])
  /\ UNCHANGED <<aiAction, approvals, messages>>

WriteReport(r) ==
  /\ At(aiReq, r, "writeReport")
  /\ aiAction' = [aiAction EXCEPT ![aiReq[r].action] =
                    [status |-> aiReq[r].result, executedAt |-> TRUE]]
  /\ aiReq' = Finish(aiReq, r)
  /\ UNCHANGED <<approvals, messages>>

-----------------------------------------------------------------------------
(* Sessions and their chat *)

CreateSession(s) ==
  /\ messages[s] = None
  /\ messages' = [messages EXCEPT ![s] = <<>>]
  /\ UNCHANGED <<aiAction, approvals, aiReq>>

PostRead(r, s) ==
  /\ At(aiReq, r, "idle")
  /\ messages[s] # None
  /\ aiReq' = Continue(aiReq, r, [pc |-> "storeTurn", session |-> s])
  /\ UNCHANGED <<aiAction, approvals, messages>>

\* createMessage: appended, since messages are listed by createdAt.
Store(s, role) ==
  /\ Len(messages[s]) < MaxMessages
  /\ messages' = [messages EXCEPT ![s] = Append(@, role)]

\* Mutant: the chat goes on when the turn could not be stored.
StoreTurnSwallowed(r) ==
  /\ At(aiReq, r, "storeTurn")
  /\ Store(aiReq[r].session, "USER") \/ UNCHANGED messages
  /\ aiReq' = Continue(aiReq, r, [aiReq[r] EXCEPT !.pc = "listPrior"])
  /\ UNCHANGED <<aiAction, approvals>>

StoreTurn(r) ==
  /\ At(aiReq, r, "storeTurn")
  /\ Store(aiReq[r].session, "USER")
  /\ aiReq' = Continue(aiReq, r, [aiReq[r] EXCEPT !.pc = "listPrior"])
  /\ UNCHANGED <<aiAction, approvals>>

\* The history handed to the provider is the tail of what is stored by now.
LastTurns(conversation) ==
  SubSeq(conversation, Len(conversation) - HistoryWindow + 1, Len(conversation))

ListPrior(r) ==
  /\ At(aiReq, r, "listPrior")
  /\ LET stored == messages[aiReq[r].session]
         history == IF Len(stored) <= HistoryWindow THEN stored ELSE LastTurns(stored)
     IN  aiReq' = Continue(aiReq, r, [pc |-> "chat", session |-> aiReq[r].session,
                                      history |-> history])
  /\ UNCHANGED <<aiAction, approvals, messages>>

\* The provider answers, or throws and the stored turn stays without a reply.
Chat(r) ==
  /\ At(aiReq, r, "chat")
  /\ \/ aiReq' = Continue(aiReq, r, [pc |-> "storeReply", session |-> aiReq[r].session])
     \/ aiReq' = Finish(aiReq, r)
  /\ UNCHANGED <<aiAction, approvals, messages>>

\* The reply is stored and the session touched (its lastMessageAt only sorts the list).
StoreReply(r) ==
  /\ At(aiReq, r, "storeReply")
  /\ Store(aiReq[r].session, "ASSISTANT")
  /\ aiReq' = Finish(aiReq, r)
  /\ UNCHANGED <<aiAction, approvals>>

\* The process of a request in flight dies.
AiAbandon(r) ==
  /\ ~At(aiReq, r, "idle")
  /\ aiReq' = Finish(aiReq, r)
  /\ UNCHANGED <<aiAction, approvals, messages>>

-----------------------------------------------------------------------------
AiNext ==
  \/ \E a \in AiActions : RecordAction(a)
  \/ \E s \in AiSessions : CreateSession(s)
  \/ \E r \in Requests :
       \/ \E a \in AiActions, d \in AiDecision : DecideRead(r, a, d)
       \/ RecordApproval(r) \/ WriteDecision(r)
       \/ \E a \in AiActions : ReportRead(r, a)
       \/ WriteReport(r)
       \/ \E s \in AiSessions : PostRead(r, s)
       \/ StoreTurn(r) \/ ListPrior(r) \/ Chat(r) \/ StoreReply(r)
       \/ AiAbandon(r)

AiSpec == AiInit /\ [][AiNext]_aiVars

-----------------------------------------------------------------------------
(* Properties *)

AiRequest ==
  {Idle}
    \cup [pc : {"recordApproval", "writeDecision"}, action : AiActions, decision : AiDecision]
    \cup [pc : {"writeReport"}, action : AiActions, result : {"EXECUTED", "FAILED"}]
    \cup [pc : {"storeTurn", "listPrior", "storeReply"}, session : AiSessions]
    \cup [pc : {"chat"}, session : AiSessions, history : Seq(AiRole)]

\* Every value has the type its schema gives it (ai-action, ai-approval, ai-message).
AiTypeOK ==
  /\ aiAction \in [AiActions -> [status : AiActionStatus \cup {"ABSENT"}, executedAt : BOOLEAN]]
  /\ approvals \in [AiActions -> SUBSET AiDecision]
  /\ messages \in [AiSessions -> Seq(AiRole) \cup {None}]
  /\ aiReq \in [Requests -> AiRequest]

\* A decision is recorded in ai_approvals before it takes effect: whatever requests
\* interleave and wherever a process dies, an action that counts as approved, executed
\* or failed has an APPROVED approval, and a rejected one a REJECTED approval.
DecisionRecorded ==
  \A a \in AiActions :
    /\ aiAction[a].status \in {"APPROVED", "EXECUTED", "FAILED"} => "APPROVED" \in approvals[a]
    /\ aiAction[a].status = "REJECTED" => "REJECTED" \in approvals[a]
    /\ aiAction[a].executedAt => "APPROVED" \in approvals[a]

\* Every stored reply answers a stored turn: however the turns of several requests
\* interleave and fail, no beginning of a conversation has more replies than turns.
Turns(conversation, role) == Cardinality({i \in DOMAIN conversation : conversation[i] = role})

RepliesAnswer ==
  \A s \in AiSessions : messages[s] # None =>
    \A n \in 1..Len(messages[s]) :
      Turns(SubSeq(messages[s], 1, n), "ASSISTANT") <= Turns(SubSeq(messages[s], 1, n), "USER")

=============================================================================
