-------------------------- MODULE InquiryConversion --------------------------
(***************************************************************************)
(* The entry of the sales pipeline: InquiriesService (lifecycle, edits and *)
(* conversion into a lead), LeadsService.create as conversion, POST /leads *)
(* and the create dialog use it, and AgenciesService, whose findOrCreate   *)
(* lead creation calls.  Customer data other than the company name, which  *)
(* selects the agency, tells no property apart and is left out, and so are *)
(* audit and activity rows.                                                *)
(***************************************************************************)
EXTENDS Handlers, Naturals, FiniteSets

CONSTANTS
  Inquiries, InquiryLeads, Agencies,  \* ids of documents, created on demand
  Companies                           \* company names, as compared without case

ASSUME InquiryAssumption == None \notin InquiryLeads \cup Companies

InquiryStatus == {"DRAFT", "COLLECTING_INFORMATION", "READY_FOR_PRICING", "QUOTED",
                  "CONVERTED", "CANCELLED"}
TerminalInquiry == {"CONVERTED", "CANCELLED"}
Convertible == {"READY_FOR_PRICING", "QUOTED"}

\* Mutant: the table lets staff set a quoted inquiry to CONVERTED.
TransitionsConvert ==
  [s \in InquiryStatus |->
     IF s = "QUOTED" THEN {"READY_FOR_PRICING", "CONVERTED", "CANCELLED"}
     ELSE IF s \in TerminalInquiry THEN {}
     ELSE {"COLLECTING_INFORMATION", "READY_FOR_PRICING", "QUOTED", "CANCELLED"} \ {s}]

Transitions ==
  [s \in InquiryStatus |->
     CASE s = "DRAFT" -> {"COLLECTING_INFORMATION", "READY_FOR_PRICING", "CANCELLED"}
       [] s = "COLLECTING_INFORMATION" -> {"READY_FOR_PRICING", "DRAFT", "CANCELLED"}
       [] s = "READY_FOR_PRICING" -> {"QUOTED", "COLLECTING_INFORMATION", "CANCELLED"}
       [] s = "QUOTED" -> {"READY_FOR_PRICING", "CANCELLED"}
       [] OTHER -> {}]

CompanyOrNone == Companies \cup {None}

VARIABLES
  inquiry,    \* [Inquiries -> [status, company, lead, removed, origin]]; origin is the
              \* lead the create dialog made with it (not stored: it names the dialog's run)
  salesLead,  \* [InquiryLeads -> [made, company, quoted, answered]]; answered: no query of
              \* findOrCreate failed before the insert (not stored)
  agency,     \* [Agencies -> [name, removed]]; None: not created
  everNamed,  \* history: the names agencies have had
  inquiryReq  \* [Requests -> the handler in flight]

inquiryVars == <<inquiry, salesLead, agency, everNamed, inquiryReq>>

InquiryInit ==
  /\ inquiry = [i \in Inquiries |-> [status |-> "ABSENT", company |-> None, lead |-> None,
                                     removed |-> FALSE, origin |-> None]]
  /\ salesLead = [l \in InquiryLeads |-> [made |-> FALSE, company |-> None,
                                          quoted |-> FALSE, answered |-> FALSE]]
  /\ agency = [g \in Agencies |-> [name |-> None, removed |-> FALSE]]
  /\ everNamed = {}
  /\ inquiryReq = [r \in Requests |-> Idle]

-----------------------------------------------------------------------------
(* InquiriesService *)

\* findByIdScoped: a removed inquiry is not found.
FoundInquiry(i) == inquiry[i].status # "ABSENT" /\ ~inquiry[i].removed

\* An insert; a reference that collides is drawn again, up to five times.
InsertInquiry(i, company, origin) ==
  /\ inquiry[i].status = "ABSENT"
  /\ inquiry' = [inquiry EXCEPT ![i].status = "DRAFT", ![i].company = company,
                                ![i].origin = origin]

CreateInquiry(i) ==
  /\ \E c \in CompanyOrNone : InsertInquiry(i, c, None)
  /\ UNCHANGED <<salesLead, agency, everNamed, inquiryReq>>

BeginInquiry(r, i, next) ==
  /\ At(inquiryReq, r, "idle")
  /\ FoundInquiry(i)
  /\ inquiryReq' = Continue(inquiryReq, r, next)
  /\ UNCHANGED <<inquiry, salesLead, agency, everNamed>>

EditInquiryRead(r, i) ==
  /\ inquiry[i].status \notin TerminalInquiry
  /\ \E c \in CompanyOrNone :
       BeginInquiry(r, i, [pc |-> "editInquiry", inquiry |-> i, company |-> c])

TransitionRead(r, i) ==
  /\ FoundInquiry(i)
  /\ \E s \in Transitions[inquiry[i].status] :
       BeginInquiry(r, i, [pc |-> "transition", inquiry |-> i, status |-> s])

RemoveInquiryRead(r, i) == BeginInquiry(r, i, [pc |-> "removeInquiry", inquiry |-> i])

\* updateScoped and softDeleteScoped write by id alone, whatever the document has become.
WriteInquiry(r) ==
  LET q == inquiryReq[r] IN
  /\ \/ /\ At(inquiryReq, r, "editInquiry")
        /\ inquiry' = [inquiry EXCEPT ![q.inquiry].company = q.company]
     \/ /\ At(inquiryReq, r, "transition")
        /\ inquiry' = [inquiry EXCEPT ![q.inquiry].status = q.status]
     \/ /\ At(inquiryReq, r, "removeInquiry")
        /\ inquiry' = [inquiry EXCEPT ![q.inquiry].removed = TRUE]
     \/ /\ At(inquiryReq, r, "linkLead")
        /\ inquiry' = [inquiry EXCEPT ![q.inquiry].status = "CONVERTED",
                                      ![q.inquiry].lead = q.lead]
  /\ inquiryReq' = Finish(inquiryReq, r)
  /\ UNCHANGED <<salesLead, agency, everNamed>>

-----------------------------------------------------------------------------
(* LeadsService.create, called by POST /leads, convert and the create dialog *)

\* A company name has its agency looked up first, without one the lead is inserted at once.
CreatingLead(caller, i, company) ==
  [pc |-> IF company = None THEN "insertLead" ELSE "findAgency",
   caller |-> caller, inquiry |-> i, company |-> company, answered |-> TRUE]

\* convert: the status and details are those read here; the lead is created before
\* anything tells other requests that this inquiry is being converted.
ConvertRead(r, i) ==
  /\ inquiry[i].status \in Convertible
  /\ BeginInquiry(r, i, CreatingLead("convert", i, inquiry[i].company))

PostLead(r, caller) ==
  /\ At(inquiryReq, r, "idle")
  /\ \E c \in CompanyOrNone :
       inquiryReq' = Continue(inquiryReq, r, CreatingLead(caller, None, c))
  /\ UNCHANGED <<inquiry, salesLead, agency, everNamed>>

\* The lead is inserted; conversion then links it, the dialog goes on to save its quote.
InsertLead(r, l) ==
  LET q == inquiryReq[r]
      next == [pc |-> IF q.caller = "convert" THEN "linkLead" ELSE "saveQuote",
               inquiry |-> q.inquiry, lead |-> l]
  IN
  /\ At(inquiryReq, r, "insertLead")
  /\ ~salesLead[l].made
  /\ salesLead' = [salesLead EXCEPT ![l] = [made |-> TRUE, company |-> q.company,
                                            quoted |-> FALSE, answered |-> q.answered]]
  /\ inquiryReq' = IF q.caller = "api" THEN Finish(inquiryReq, r)
                                       ELSE Continue(inquiryReq, r, next)
  /\ UNCHANGED <<inquiry, agency, everNamed>>

\* Mutant: the dialog goes on when the quote could not be saved.
DialogSaveQuoteSwallowed(r) ==
  /\ At(inquiryReq, r, "saveQuote")
  /\ salesLead' \in {salesLead, [salesLead EXCEPT ![inquiryReq[r].lead].quoted = TRUE]}
  /\ inquiryReq' = Continue(inquiryReq, r, [inquiryReq[r] EXCEPT !.pc = "postInquiry"])
  /\ UNCHANGED <<inquiry, agency, everNamed>>

\* The dialog's second call stores the WhatsApp quote on the lead it created, its third
\* creates the inquiry.  A call that fails ends the run; pressing Create starts a new one.
DialogSaveQuote(r) ==
  /\ At(inquiryReq, r, "saveQuote")
  /\ salesLead' = [salesLead EXCEPT ![inquiryReq[r].lead].quoted = TRUE]
  /\ inquiryReq' = Continue(inquiryReq, r, [inquiryReq[r] EXCEPT !.pc = "postInquiry"])
  /\ UNCHANGED <<inquiry, agency, everNamed>>

DialogPostInquiry(r, i) ==
  LET l == inquiryReq[r].lead IN
  /\ At(inquiryReq, r, "postInquiry")
  /\ InsertInquiry(i, salesLead[l].company, l)
  /\ inquiryReq' = Finish(inquiryReq, r)
  /\ UNCHANGED <<salesLead, agency, everNamed>>

-----------------------------------------------------------------------------
(* AgenciesService *)

AgencyNamed(name) == \E g \in Agencies : agency[g].name = name /\ ~agency[g].removed

\* Mutant: findOrCreate finds, and does not create.
FindAgencyOnly(r) ==
  LET q == inquiryReq[r] IN
  /\ q.pc \in {"findAgency", "checkAgency"}
  /\ inquiryReq' = Continue(inquiryReq, r, [q EXCEPT !.pc = "insertLead"])
  /\ UNCHANGED <<inquiry, salesLead, agency, everNamed>>

\* findOrCreate: an agency of that name settles it; otherwise create checks again.
FindAgency(r) ==
  LET q == inquiryReq[r] IN
  /\ q.pc \in {"findAgency", "checkAgency"}
  /\ inquiryReq' = Continue(inquiryReq, r,
       [q EXCEPT !.pc = IF AgencyNamed(q.company) THEN "insertLead"
                        ELSE IF q.pc = "findAgency" THEN "checkAgency"
                        ELSE "insertAgency"])
  /\ UNCHANGED <<inquiry, salesLead, agency, everNamed>>

\* Lead creation swallows whatever findOrCreate throws, be it that either look-up or the
\* insert of the agency failed, and inserts the lead with its company all the same.
SwallowAgencyError(r) ==
  LET q == inquiryReq[r] IN
  /\ q.pc \in {"findAgency", "checkAgency", "insertAgency"}
  /\ q.caller # "staff"
  /\ inquiryReq' = Continue(inquiryReq, r, [q EXCEPT !.pc = "insertLead", !.answered = FALSE])
  /\ UNCHANGED <<inquiry, salesLead, agency, everNamed>>

\* Staff create an agency by hand, refused when the name is taken.
CreateAgencyRead(r, name) ==
  /\ At(inquiryReq, r, "idle")
  /\ ~AgencyNamed(name)
  /\ inquiryReq' = Continue(inquiryReq, r, [pc |-> "insertAgency", caller |-> "staff",
                              inquiry |-> None, company |-> name, answered |-> TRUE])
  /\ UNCHANGED <<inquiry, salesLead, agency, everNamed>>

\* The insert does not check the name again, and the index on it is not unique.
InsertAgency(r, g) ==
  LET q == inquiryReq[r] IN
  /\ At(inquiryReq, r, "insertAgency")
  /\ agency[g].name = None
  /\ agency' = [agency EXCEPT ![g].name = q.company]
  /\ everNamed' = everNamed \cup {q.company}
  /\ inquiryReq' = IF q.caller = "staff" THEN Finish(inquiryReq, r)
                   ELSE Continue(inquiryReq, r, [q EXCEPT !.pc = "insertLead"])
  /\ UNCHANGED <<inquiry, salesLead>>

ChangeAgencyRead(r, g) ==
  /\ At(inquiryReq, r, "idle")
  /\ agency[g].name # None /\ ~agency[g].removed
  /\ \E c \in CompanyOrNone :  \* a new name, or None to remove it
       inquiryReq' = Continue(inquiryReq, r, [pc |-> "changeAgency", agency |-> g, name |-> c])
  /\ UNCHANGED <<inquiry, salesLead, agency, everNamed>>

\* update can give an agency a name that another one has; remove only flags it.
ChangeAgencyWrite(r) ==
  LET q == inquiryReq[r] IN
  /\ At(inquiryReq, r, "changeAgency")
  /\ IF q.name = None
       THEN agency' = [agency EXCEPT ![q.agency].removed = TRUE] /\ UNCHANGED everNamed
       ELSE /\ agency' = [agency EXCEPT ![q.agency].name = q.name]
            /\ everNamed' = everNamed \cup {q.name}
  /\ inquiryReq' = Finish(inquiryReq, r)
  /\ UNCHANGED <<inquiry, salesLead>>

-----------------------------------------------------------------------------
\* The process dies, the connection drops, or a query fails where nothing catches it.
InquiryAbandon(r) ==
  /\ ~At(inquiryReq, r, "idle")
  /\ inquiryReq' = Finish(inquiryReq, r)
  /\ UNCHANGED <<inquiry, salesLead, agency, everNamed>>

InquiryNext ==
  \/ \E i \in Inquiries : CreateInquiry(i)
  \/ \E r \in Requests :
       \/ \E i \in Inquiries :
            \/ EditInquiryRead(r, i) \/ TransitionRead(r, i) \/ RemoveInquiryRead(r, i)
            \/ ConvertRead(r, i) \/ DialogPostInquiry(r, i)
       \/ WriteInquiry(r)
       \/ \E caller \in {"api", "dialog"} : PostLead(r, caller)
       \/ FindAgency(r) \/ SwallowAgencyError(r)
       \/ \E l \in InquiryLeads : InsertLead(r, l)
       \/ DialogSaveQuote(r)
       \/ \E c \in Companies : CreateAgencyRead(r, c)
       \/ \E g \in Agencies : InsertAgency(r, g) \/ ChangeAgencyRead(r, g)
       \/ ChangeAgencyWrite(r)
       \/ InquiryAbandon(r)

InquirySpec == InquiryInit /\ [][InquiryNext]_inquiryVars

-----------------------------------------------------------------------------
(* Properties *)

InquiryRequest ==
  {Idle}
    \cup [pc : {"editInquiry"}, inquiry : Inquiries, company : CompanyOrNone]
    \cup [pc : {"transition"}, inquiry : Inquiries, status : InquiryStatus]
    \cup [pc : {"removeInquiry"}, inquiry : Inquiries]
    \cup [pc : {"linkLead"}, inquiry : Inquiries, lead : InquiryLeads]
    \cup [pc : {"saveQuote", "postInquiry"}, inquiry : {None}, lead : InquiryLeads]
    \cup [pc : {"findAgency", "checkAgency", "insertAgency", "insertLead"},
          caller : {"api", "dialog", "convert", "staff"}, inquiry : Inquiries \cup {None},
          company : CompanyOrNone, answered : BOOLEAN]
    \cup [pc : {"changeAgency"}, agency : Agencies, name : CompanyOrNone]

\* Every value has the type its schema gives it (inquiry, lead, agency).
InquiryTypeOK ==
  /\ inquiry \in [Inquiries -> [status : InquiryStatus \cup {"ABSENT"}, company : CompanyOrNone,
                                lead : InquiryLeads \cup {None}, removed : BOOLEAN,
                                origin : InquiryLeads \cup {None}]]
  /\ salesLead \in [InquiryLeads -> [made : BOOLEAN, company : CompanyOrNone,
                                     quoted : BOOLEAN, answered : BOOLEAN]]
  /\ agency \in [Agencies -> [name : CompanyOrNone, removed : BOOLEAN]]
  /\ everNamed \subseteq Companies
  /\ inquiryReq \in [Requests -> InquiryRequest]

\* A converted inquiry has a lead of its own: whichever requests edit, cancel, remove or
\* convert it again meanwhile, CONVERTED never stands without a lead, a link points at a lead
\* that was inserted, and no lead is the conversion of two inquiries or the dialog's own.
ConvertedHasOwnLead ==
  \A i \in Inquiries :
    /\ inquiry[i].status = "CONVERTED" => inquiry[i].lead # None
    /\ inquiry[i].lead # None =>
         /\ salesLead[inquiry[i].lead].made
         /\ \A j \in Inquiries : /\ i # j => inquiry[j].lead # inquiry[i].lead
                                /\ inquiry[j].origin # inquiry[i].lead

\* The create dialog leaves no inquiry behind without its lead and the lead's quote: a run
\* cut short after any of its three calls leaves at most a lead.
DialogLeavesNoOrphan ==
  \A i \in Inquiries : inquiry[i].origin # None =>
    salesLead[inquiry[i].origin].made /\ salesLead[inquiry[i].origin].quoted

\* A lead that names a company was preceded by an agency of that name, unless a query of
\* findOrCreate failed, the insert of the agency included, and the failure was swallowed:
\* losing the race to create it (AGENCY_NAME_CONFLICT, swallowed as well) means that another
\* request has created it.
CompanyHadAgency ==
  \A l \in InquiryLeads :
    salesLead[l].answered /\ salesLead[l].company # None
      => salesLead[l].company \in everNamed

=============================================================================
