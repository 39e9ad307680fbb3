------------------------- MODULE LeadFunnel_proofs -------------------------
(***************************************************************************)
(* Theorems about the way of a lead to its quote: InquiryConversion, for   *)
(* any number of inquiries, leads, agencies, companies and requests;       *)
(* LeadPricing, for any options, parties and edits; QuoteText, for any     *)
(* route and hotel rows; and LeadIntake, for any answers and any catalog.  *)
(*                                                                         *)
(* Conversion and the create dialog insert a lead first and tell the rest  *)
(* of the system about it later, so the first invariant follows each lead  *)
(* while only the request that made it knows of it (Holds): it exists, no  *)
(* inquiry names it yet, and no other request holds it.                    *)
(*                                                                         *)
(* The second invariant says what an option is once it was normalized      *)
(* (Settled); that normalizing it again changes nothing is arithmetic.     *)
(*                                                                         *)
(* The quote filters and concatenates arrays.  Each of them is described   *)
(* by the positions its elements are taken from (Lists); what recursive    *)
(* functions compute is proved with the set of numbers up to which it      *)
(* holds, which has no smallest number missing (Induction).                *)
(*                                                                         *)
(* The intake looks the hotels up row by row, each after the names of the  *)
(* rows before it (EnrichedBy).  A second look-up changes no row: the name *)
(* it found is its own best match, and was free or else all of them are    *)
(* taken (EnrichTwice).                                                    *)
(***************************************************************************)
EXTENDS InquiryConversion, LeadPricing, QuoteText, LeadIntake, FiniteSetTheorems,
        WellFoundedInduction, TLAPS

InquiryDoc == [status : InquiryStatus \cup {"ABSENT"}, company : CompanyOrNone,
               lead : InquiryLeads \cup {None}, removed : BOOLEAN,
               origin : InquiryLeads \cup {None}]
LeadDoc == [made : BOOLEAN, company : CompanyOrNone, quoted : BOOLEAN, answered : BOOLEAN]
AgencyDoc == [name : CompanyOrNone, removed : BOOLEAN]

Creating == {"findAgency", "checkAgency", "insertAgency", "insertLead"}
Holds(q) == q.pc \in {"linkLead", "saveQuote", "postInquiry"}

\* What a request q carries, over the inquiries inq, the leads sl and the names ever given.
Carries(inq, sl, named, q) ==
  /\ q.pc = "transition" => q.status # "CONVERTED"
  /\ q.pc \in Creating => IF q.caller = "convert" THEN q.inquiry \in Inquiries
                                                  ELSE q.inquiry = None
  /\ q.pc \in Creating \ {"insertLead"} => q.company # None
  /\ q.pc = "insertLead" /\ q.answered /\ q.company # None => q.company \in named
  /\ Holds(q) => sl[q.lead].made /\ \A i \in Inquiries : inq[i].lead # q.lead
  /\ q.pc = "linkLead" => \A i \in Inquiries : inq[i].origin # q.lead
  /\ q.pc = "postInquiry" => sl[q.lead].quoted

\* No lead is held by two requests.
HeldOnce(req) ==
  \A r \in Requests, x \in Requests :
    r # x /\ Holds(req[r]) /\ Holds(req[x]) => req[r].lead # req[x].lead

AgenciesNamed(ag, named) ==
  \A g \in Agencies : ag[g].name # None => ag[g].name \in named

\* The inductive invariant.
InquiryInv ==
  /\ inquiry \in [Inquiries -> InquiryDoc]
  /\ salesLead \in [InquiryLeads -> LeadDoc]
  /\ agency \in [Agencies -> AgencyDoc]
  /\ everNamed \subseteq Companies
  /\ inquiryReq \in [Requests -> InquiryRequest]
  /\ ConvertedHasOwnLead
  /\ DialogLeavesNoOrphan
  /\ CompanyHadAgency
  /\ AgenciesNamed(agency, everNamed)
  /\ HeldOnce(inquiryReq)
  /\ \A r \in Requests : Carries(inquiry, salesLead, everNamed, inquiryReq[r])

\* No step takes away a lead, its quote, or a name from the history.
Persists(sl, named, sl2, named2) ==
  /\ \A l \in InquiryLeads :
       sl[l].made => sl2[l].made /\ (sl[l].quoted => sl2[l].quoted)
  /\ named \subseteq named2

\* A step makes inquiries name no lead they did not, but for the lead own.
NamesOnly(inq, inq2, own) ==
  \A i \in Inquiries : /\ inq2[i].lead = inq[i].lead \/ inq2[i].lead = own
                       /\ inq2[i].origin = inq[i].origin \/ inq2[i].origin = own

-----------------------------------------------------------------------------
(* Requests *)

\* The fields of a request, by the point it has reached.
LEMMA RequestFields ==
  ASSUME NEW q \in InquiryRequest
  PROVE  /\ q.pc = "editInquiry" => q.inquiry \in Inquiries /\ q.company \in CompanyOrNone
         /\ q.pc = "transition" => q.inquiry \in Inquiries /\ q.status \in InquiryStatus
         /\ q.pc = "removeInquiry" => q.inquiry \in Inquiries
         /\ q.pc = "linkLead" => q.inquiry \in Inquiries
         /\ Holds(q) => q.lead \in InquiryLeads
         /\ q.pc \in {"saveQuote", "postInquiry"} => q.inquiry = None
         /\ q.pc \in Creating =>
              /\ q.caller \in {"api", "dialog", "convert", "staff"}
              /\ q.inquiry \in Inquiries \cup {None}
              /\ q.company \in CompanyOrNone /\ q.answered \in BOOLEAN
              /\ q = [pc |-> q.pc, caller |-> q.caller, inquiry |-> q.inquiry,
                      company |-> q.company, answered |-> q.answered]
         /\ q.pc \in {"saveQuote", "postInquiry"} =>
              q = [pc |-> q.pc, inquiry |-> q.inquiry, lead |-> q.lead]
         /\ q.pc = "changeAgency" => q.agency \in Agencies /\ q.name \in CompanyOrNone
  BY DEF InquiryRequest, Idle, Creating, Holds

LEMMA Requested ==
  /\ Idle \in InquiryRequest
  /\ \A i \in Inquiries, c \in CompanyOrNone :
       [pc |-> "editInquiry", inquiry |-> i, company |-> c] \in InquiryRequest
  /\ \A i \in Inquiries, s \in InquiryStatus :
       [pc |-> "transition", inquiry |-> i, status |-> s] \in InquiryRequest
  /\ \A i \in Inquiries : [pc |-> "removeInquiry", inquiry |-> i] \in InquiryRequest
  /\ \A i \in Inquiries, l \in InquiryLeads :
       [pc |-> "linkLead", inquiry |-> i, lead |-> l] \in InquiryRequest
  /\ \A p \in {"saveQuote", "postInquiry"}, l \in InquiryLeads :
       [pc |-> p, inquiry |-> None, lead |-> l] \in InquiryRequest
  /\ \A p \in Creating, k \in {"api", "dialog", "convert", "staff"},
        i \in Inquiries \cup {None}, c \in CompanyOrNone, b \in BOOLEAN :
       [pc |-> p, caller |-> k, inquiry |-> i, company |-> c, answered |-> b] \in InquiryRequest
  /\ \A g \in Agencies, c \in CompanyOrNone :
       [pc |-> "changeAgency", agency |-> g, name |-> c] \in InquiryRequest
  BY DEF InquiryRequest, Idle, Creating

LEMMA CarriesOn ==
  ASSUME NEW inq, NEW sl, NEW named, NEW inq2, NEW sl2, NEW named2, NEW own,
         NEW q \in InquiryRequest, Carries(inq, sl, named, q),
         Persists(sl, named, sl2, named2), NamesOnly(inq, inq2, own),
         Holds(q) => q.lead # own
  PROVE  Carries(inq2, sl2, named2, q)
<1>1. Holds(q) => sl2[q.lead].made /\ \A i \in Inquiries : inq2[i].lead # q.lead
  BY RequestFields DEF Carries, Persists, NamesOnly
<1>2. q.pc = "linkLead" => \A i \in Inquiries : inq2[i].origin # q.lead
  BY DEF Carries, NamesOnly, Holds
<1>3. q.pc = "postInquiry" => sl2[q.lead].quoted
  BY RequestFields DEF Carries, Persists, Holds
<1>4. q.pc = "insertLead" /\ q.answered /\ q.company # None => q.company \in named2
  BY DEF Carries, Persists
<1>5. QED
  BY <1>1, <1>2, <1>3, <1>4 DEF Carries

\* The one argument behind every step: documents stay sound, nothing is taken away, and the
\* request that moves carries what it should and holds no lead of another request.
LEMMA StepSound ==
  ASSUME InquiryInv, NEW r \in Requests, NEW next \in InquiryRequest, NEW own,
         inquiryReq' = Continue(inquiryReq, r, next),
         inquiry' \in [Inquiries -> InquiryDoc], salesLead' \in [InquiryLeads -> LeadDoc],
         agency' \in [Agencies -> AgencyDoc], everNamed' \subseteq Companies,
         ConvertedHasOwnLead', DialogLeavesNoOrphan', CompanyHadAgency',
         AgenciesNamed(agency', everNamed'),
         Persists(salesLead, everNamed, salesLead', everNamed'),
         NamesOnly(inquiry, inquiry', own),
         Carries(inquiry', salesLead', everNamed', next),
         \A x \in Requests \ {r} : Holds(inquiryReq[x]) =>
           /\ inquiryReq[x].lead # own
           /\ Holds(next) => inquiryReq[x].lead # next.lead
  PROVE  InquiryInv'
<1>1. /\ inquiryReq' \in [Requests -> InquiryRequest] /\ inquiryReq'[r] = next
      /\ \A x \in Requests \ {r} : inquiryReq'[x] = inquiryReq[x]
  BY DEF InquiryInv, Continue
<1>2. \A x \in Requests : Carries(inquiry', salesLead', everNamed', inquiryReq'[x])
  <2> TAKE x \in Requests
  <2>1. CASE x = r
    BY <1>1, <2>1
  <2>2. CASE x # r
    <3>1. PICK q \in InquiryRequest : q = inquiryReq[x] /\ q = inquiryReq'[x]
      BY <1>1, <2>2 DEF InquiryInv
    <3>2. Carries(inquiry, salesLead, everNamed, q) /\ (Holds(q) => q.lead # own)
      BY <2>2, <3>1 DEF InquiryInv
    <3>3. QED
      BY <3>1, <3>2, CarriesOn
  <2>3. QED
    BY <2>1, <2>2
<1>3. HeldOnce(inquiryReq')
  BY <1>1 DEF InquiryInv, HeldOnce
<1>4. QED
  BY <1>1, <1>2, <1>3 DEF InquiryInv

LEMMA NothingTaken ==
  /\ \A sl, named : Persists(sl, named, sl, named)
  /\ \A inq, own : NamesOnly(inq, inq, own)
  BY DEF Persists, NamesOnly

\* Leads are never None.
LEMMA HeldIsLead ==
  ASSUME InquiryInv, NEW r \in Requests, Holds(inquiryReq[r])
  PROVE  inquiryReq[r].lead \in InquiryLeads /\ inquiryReq[r].lead # None
<1>1. PICK q \in InquiryRequest : q = inquiryReq[r]
  BY DEF InquiryInv
<1>2. QED
  BY <1>1, RequestFields, InquiryAssumption

\* Steps that only move a request.
LEMMA StepMoves ==
  ASSUME InquiryInv, NEW r \in Requests, NEW next \in InquiryRequest,
         inquiryReq' = Continue(inquiryReq, r, next),
         inquiry' = inquiry, salesLead' = salesLead, agency' = agency, everNamed' = everNamed,
         Carries(inquiry, salesLead, everNamed, next), ~Holds(next)
  PROVE  InquiryInv'
<1>1. /\ inquiry' \in [Inquiries -> InquiryDoc] /\ salesLead' \in [InquiryLeads -> LeadDoc]
      /\ agency' \in [Agencies -> AgencyDoc] /\ everNamed' \subseteq Companies
      /\ AgenciesNamed(agency', everNamed') /\ Carries(inquiry', salesLead', everNamed', next)
  BY DEF InquiryInv
<1>2. ConvertedHasOwnLead' /\ DialogLeavesNoOrphan' /\ CompanyHadAgency'
  BY DEF InquiryInv, ConvertedHasOwnLead, DialogLeavesNoOrphan, CompanyHadAgency
<1>3. /\ Persists(salesLead, everNamed, salesLead', everNamed')
      /\ NamesOnly(inquiry, inquiry', None)
  BY NothingTaken
<1>4. \A x \in Requests \ {r} : Holds(inquiryReq[x]) => inquiryReq[x].lead # None
  BY HeldIsLead
<1>5. QED
  BY <1>1, <1>2, <1>3, <1>4, StepSound

LEMMA IdleCarries == \A inq, sl, named : Carries(inq, sl, named, Idle) /\ ~Holds(Idle)
  BY DEF Carries, Idle, Holds, Creating

LEMMA InitInquiryInv == InquiryInit => InquiryInv
<1> SUFFICES ASSUME InquiryInit PROVE InquiryInv
  OBVIOUS
<1>1. /\ inquiry \in [Inquiries -> InquiryDoc] /\ salesLead \in [InquiryLeads -> LeadDoc]
      /\ agency \in [Agencies -> AgencyDoc] /\ everNamed \subseteq Companies
  BY DEF InquiryInit, InquiryDoc, LeadDoc, AgencyDoc, CompanyOrNone
<1>2. inquiryReq \in [Requests -> InquiryRequest] /\ HeldOnce(inquiryReq)
  BY Requested, IdleCarries DEF InquiryInit, HeldOnce
<1>3. \A r \in Requests : Carries(inquiry, salesLead, everNamed, inquiryReq[r])
  BY IdleCarries DEF InquiryInit
<1>4. /\ ConvertedHasOwnLead /\ DialogLeavesNoOrphan /\ CompanyHadAgency
      /\ AgenciesNamed(agency, everNamed)
  BY DEF InquiryInit, ConvertedHasOwnLead, DialogLeavesNoOrphan, CompanyHadAgency, AgenciesNamed
<1>5. QED
  BY <1>1, <1>2, <1>3, <1>4 DEF InquiryInv

\* Steps outside any request: nobody holds None, so all requests carry on.
LEMMA StepStill ==
  ASSUME InquiryInv, inquiryReq' = inquiryReq,
         inquiry' \in [Inquiries -> InquiryDoc], salesLead' = salesLead, agency' = agency,
         everNamed' = everNamed, ConvertedHasOwnLead', DialogLeavesNoOrphan',
         NamesOnly(inquiry, inquiry', None)
  PROVE  InquiryInv'
<1>1. \A r \in Requests : Carries(inquiry', salesLead', everNamed', inquiryReq'[r])
  <2> TAKE r \in Requests
  <2>1. PICK q \in InquiryRequest : q = inquiryReq[r] /\ q = inquiryReq'[r]
    BY DEF InquiryInv
  <2>2. Carries(inquiry, salesLead, everNamed, q) /\ (Holds(q) => q.lead # None)
    BY <2>1, HeldIsLead DEF InquiryInv
  <2>3. Persists(salesLead, everNamed, salesLead', everNamed')
    BY NothingTaken
  <2>4. QED
    BY <2>1, <2>2, <2>3, CarriesOn
<1>2. /\ salesLead' \in [InquiryLeads -> LeadDoc] /\ agency' \in [Agencies -> AgencyDoc]
      /\ everNamed' \subseteq Companies /\ inquiryReq' \in [Requests -> InquiryRequest]
      /\ AgenciesNamed(agency', everNamed') /\ HeldOnce(inquiryReq') /\ CompanyHadAgency'
  BY DEF InquiryInv, CompanyHadAgency
<1>3. QED
  BY <1>1, <1>2 DEF InquiryInv

-----------------------------------------------------------------------------
(* InquiriesService *)

\* Writes that give an inquiry no lead, no origin, and do not convert it.
LEMMA PlainWrite ==
  ASSUME InquiryInv, NEW i \in Inquiries, NEW d \in InquiryDoc,
         inquiry' = [inquiry EXCEPT ![i] = d], salesLead' = salesLead,
         d.lead = inquiry[i].lead, d.origin \in {inquiry[i].origin, None},
         d.status = "CONVERTED" => inquiry[i].status = "CONVERTED"
  PROVE  /\ inquiry' \in [Inquiries -> InquiryDoc]
         /\ ConvertedHasOwnLead' /\ DialogLeavesNoOrphan'
         /\ NamesOnly(inquiry, inquiry', None)
<1>1. /\ inquiry' \in [Inquiries -> InquiryDoc] /\ inquiry'[i] = d
      /\ \A j \in Inquiries \ {i} : inquiry'[j] = inquiry[j]
  BY DEF InquiryInv
<1>2. \A j \in Inquiries : /\ inquiry'[j].lead = inquiry[j].lead
                           /\ inquiry'[j].origin \in {inquiry[j].origin, None}
                           /\ inquiry'[j].status = "CONVERTED" =>
                                inquiry[j].status = "CONVERTED"
  BY <1>1
<1>3. ConvertedHasOwnLead'
  BY <1>2 DEF InquiryInv, ConvertedHasOwnLead
<1>4. DialogLeavesNoOrphan'
  BY <1>2 DEF InquiryInv, DialogLeavesNoOrphan
<1>5. NamesOnly(inquiry, inquiry', None)
  BY <1>2 DEF NamesOnly
<1>6. QED
  BY <1>1, <1>3, <1>4, <1>5

LEMMA StepCreateInquiry ==
  ASSUME InquiryInv, NEW i \in Inquiries, CreateInquiry(i)
  PROVE  InquiryInv'
<1>1. PICK c \in CompanyOrNone : InsertInquiry(i, c, None)
  BY DEF CreateInquiry
<1>2. PICK d : d = [inquiry[i] EXCEPT !.status = "DRAFT", !.company = c, !.origin = None]
  OBVIOUS
<1>3. /\ d \in InquiryDoc /\ d.lead = inquiry[i].lead /\ d.origin = None
      /\ d.status # "CONVERTED"
  BY <1>2 DEF InquiryInv, InquiryDoc, InquiryStatus
<1>4. inquiry' = [inquiry EXCEPT ![i] = d]
  BY <1>1, <1>2 DEF InsertInquiry, InquiryInv
<1>5. QED
  BY <1>3, <1>4, PlainWrite, StepStill DEF CreateInquiry

\* The table never leads to CONVERTED.
LEMMA TableNeverConverts ==
  \A s \in InquiryStatus : Transitions[s] \subseteq InquiryStatus \ {"CONVERTED"}
  BY DEF Transitions, InquiryStatus

LEMMA StepInquiryReads ==
  ASSUME InquiryInv, NEW r \in Requests, NEW i \in Inquiries,
         EditInquiryRead(r, i) \/ TransitionRead(r, i) \/ RemoveInquiryRead(r, i)
  PROVE  InquiryInv'
<1>1. CASE EditInquiryRead(r, i)
  <2>1. PICK c \in CompanyOrNone :
          BeginInquiry(r, i, [pc |-> "editInquiry", inquiry |-> i, company |-> c])
    BY <1>1 DEF EditInquiryRead
  <2>2. [pc |-> "editInquiry", inquiry |-> i, company |-> c] \in InquiryRequest
    BY Requested
  <2>3. QED
    BY <2>1, <2>2, StepMoves DEF BeginInquiry, Carries, Holds, Creating
<1>2. CASE TransitionRead(r, i)
  <2>1. PICK s \in Transitions[inquiry[i].status] :
          BeginInquiry(r, i, [pc |-> "transition", inquiry |-> i, status |-> s])
    BY <1>2 DEF TransitionRead
  <2>2. inquiry[i].status \in InquiryStatus
    BY <1>2 DEF TransitionRead, FoundInquiry, InquiryInv, InquiryDoc
  <2>3. s \in InquiryStatus /\ s # "CONVERTED"
    BY <2>1, <2>2, TableNeverConverts
  <2>4. [pc |-> "transition", inquiry |-> i, status |-> s] \in InquiryRequest
    BY <2>3, Requested
  <2>5. QED
    BY <2>1, <2>3, <2>4, StepMoves DEF BeginInquiry, Carries, Holds, Creating
<1>3. CASE RemoveInquiryRead(r, i)
  <2>1. [pc |-> "removeInquiry", inquiry |-> i] \in InquiryRequest
    BY Requested
  <2>2. QED
    BY <1>3, <2>1, StepMoves DEF RemoveInquiryRead, BeginInquiry, Carries, Holds, Creating
<1>4. QED
  BY <1>1, <1>2, <1>3

\* The conversion of an inquiry ends: its lead was named by nobody.
LEMMA StepLinkLead ==
  ASSUME InquiryInv, NEW r \in Requests, At(inquiryReq, r, "linkLead"), WriteInquiry(r)
  PROVE  InquiryInv'
<1>1. PICK q \in InquiryRequest : q = inquiryReq[r] /\ q.pc = "linkLead"
  BY DEF InquiryInv, At
<1>2. PICK i \in Inquiries : i = q.inquiry
  BY <1>1, RequestFields
<1>3. PICK l \in InquiryLeads : l = q.lead
  BY <1>1, RequestFields DEF Holds
<1>4. /\ salesLead[l].made /\ l # None
      /\ \A j \in Inquiries : inquiry[j].lead # l /\ inquiry[j].origin # l
  BY <1>1, <1>3, InquiryAssumption DEF InquiryInv, Carries, Holds
<1>5. PICK d : d = [inquiry[i] EXCEPT !.status = "CONVERTED", !.lead = l]
  OBVIOUS
<1>6. d \in InquiryDoc /\ d.lead = l /\ d.origin = inquiry[i].origin
  BY <1>5 DEF InquiryInv, InquiryDoc, InquiryStatus
<1>7. /\ inquiry' = [inquiry EXCEPT ![i] = d] /\ inquiryReq' = Continue(inquiryReq, r, Idle)
      /\ salesLead' = salesLead /\ agency' = agency /\ everNamed' = everNamed
  BY <1>1, <1>2, <1>3, <1>5 DEF WriteInquiry, At, Finish, InquiryInv
<1>8. /\ inquiry' \in [Inquiries -> InquiryDoc] /\ inquiry'[i] = d
      /\ \A j \in Inquiries \ {i} : inquiry'[j] = inquiry[j]
  BY <1>6, <1>7 DEF InquiryInv
<1>9. ConvertedHasOwnLead'
  BY <1>4, <1>6, <1>7, <1>8 DEF InquiryInv, ConvertedHasOwnLead
<1>10. DialogLeavesNoOrphan' /\ CompanyHadAgency'
  BY <1>6, <1>7, <1>8 DEF InquiryInv, DialogLeavesNoOrphan, CompanyHadAgency
<1>11. /\ NamesOnly(inquiry, inquiry', l)
       /\ Persists(salesLead, everNamed, salesLead', everNamed')
  BY <1>6, <1>7, <1>8 DEF NamesOnly, Persists
<1>12. \A x \in Requests \ {r} : Holds(inquiryReq[x]) => inquiryReq[x].lead # l
  BY <1>1, <1>3 DEF InquiryInv, HeldOnce, Holds
<1>13. AgenciesNamed(agency', everNamed')
  BY <1>7 DEF InquiryInv
<1>14. /\ Idle \in InquiryRequest /\ Carries(inquiry', salesLead', everNamed', Idle)
       /\ \A x \in Requests \ {r} : Holds(inquiryReq[x]) =>
            /\ inquiryReq[x].lead # l
            /\ Holds(Idle) => inquiryReq[x].lead # Idle.lead
  BY <1>12, Requested, IdleCarries
<1>15. /\ salesLead' \in [InquiryLeads -> LeadDoc] /\ agency' \in [Agencies -> AgencyDoc]
       /\ everNamed' \subseteq Companies
  BY <1>7 DEF InquiryInv
<1>16. QED
  BY <1>7, <1>8, <1>9, <1>10, <1>11, <1>13, <1>14, <1>15, StepSound

LEMMA StepWriteInquiry ==
  ASSUME InquiryInv, NEW r \in Requests, WriteInquiry(r)
  PROVE  InquiryInv'
<1>1. PICK q \in InquiryRequest : q = inquiryReq[r] /\ Carries(inquiry, salesLead, everNamed, q)
  BY DEF InquiryInv
<1>2. CASE q.pc = "linkLead"
  BY <1>1, <1>2, StepLinkLead DEF At
<1>3. ASSUME NEW i \in Inquiries, NEW d \in InquiryDoc, inquiry' = [inquiry EXCEPT ![i] = d],
             d.lead = inquiry[i].lead, d.origin = inquiry[i].origin,
             d.status = "CONVERTED" => inquiry[i].status = "CONVERTED"
      PROVE  InquiryInv'
  <2>1. /\ inquiryReq' = Continue(inquiryReq, r, Idle)
        /\ salesLead' = salesLead /\ agency' = agency /\ everNamed' = everNamed
    BY DEF WriteInquiry, Finish
  <2>2. /\ inquiry' \in [Inquiries -> InquiryDoc]
        /\ ConvertedHasOwnLead' /\ DialogLeavesNoOrphan'
        /\ NamesOnly(inquiry, inquiry', None)
    BY <1>3, <2>1, PlainWrite
  <2>3. /\ CompanyHadAgency' /\ AgenciesNamed(agency', everNamed')
        /\ Persists(salesLead, everNamed, salesLead', everNamed')
    BY <2>1, NothingTaken DEF InquiryInv, CompanyHadAgency
  <2>4. \A x \in Requests \ {r} : Holds(inquiryReq[x]) => inquiryReq[x].lead # None
    BY HeldIsLead
  <2>5. QED
    BY <2>1, <2>2, <2>3, <2>4, Requested, IdleCarries, StepSound DEF InquiryInv
<1>4. CASE q.pc = "editInquiry"
  <2>1. PICK i \in Inquiries, c \in CompanyOrNone : i = q.inquiry /\ c = q.company
    BY <1>4, RequestFields
  <2>2. PICK d : d = [inquiry[i] EXCEPT !.company = c]
    OBVIOUS
  <2>3. /\ d \in InquiryDoc /\ d.lead = inquiry[i].lead /\ d.origin = inquiry[i].origin
        /\ d.status = inquiry[i].status
    BY <2>2 DEF InquiryInv, InquiryDoc
  <2>4. inquiry' = [inquiry EXCEPT ![i] = d]
    BY <1>1, <1>4, <2>1, <2>2 DEF WriteInquiry, At, InquiryInv
  <2>5. QED
    BY <1>3, <2>3, <2>4
<1>5. CASE q.pc = "transition"
  <2>1. PICK i \in Inquiries, s \in InquiryStatus : i = q.inquiry /\ s = q.status
    BY <1>5, RequestFields
  <2>2. PICK d : d = [inquiry[i] EXCEPT !.status = s]
    OBVIOUS
  <2>3. /\ d \in InquiryDoc /\ d.lead = inquiry[i].lead /\ d.origin = inquiry[i].origin
        /\ d.status # "CONVERTED"
    BY <1>1, <1>5, <2>1, <2>2 DEF InquiryInv, InquiryDoc, Carries
  <2>4. inquiry' = [inquiry EXCEPT ![i] = d]
    BY <1>1, <1>5, <2>1, <2>2 DEF WriteInquiry, At, InquiryInv
  <2>5. QED
    BY <1>3, <2>3, <2>4
<1>6. CASE q.pc = "removeInquiry"
  <2>1. PICK i \in Inquiries : i = q.inquiry
    BY <1>6, RequestFields
  <2>2. PICK d : d = [inquiry[i] EXCEPT !.removed = TRUE]
    OBVIOUS
  <2>3. /\ d \in InquiryDoc /\ d.lead = inquiry[i].lead /\ d.origin = inquiry[i].origin
        /\ d.status = inquiry[i].status
    BY <2>2 DEF InquiryInv, InquiryDoc
  <2>4. inquiry' = [inquiry EXCEPT ![i] = d]
    BY <1>1, <1>6, <2>1, <2>2 DEF WriteInquiry, At, InquiryInv
  <2>5. QED
    BY <1>3, <2>3, <2>4
<1>7. q.pc \in {"linkLead", "editInquiry", "transition", "removeInquiry"}
  BY <1>1 DEF WriteInquiry, At
<1>8. QED
  BY <1>2, <1>4, <1>5, <1>6, <1>7

-----------------------------------------------------------------------------
(* Leads *)

\* Lead creation begins knowing of no agency, and needs none without a company.
LEMMA CreatingSound ==
  ASSUME NEW caller \in {"api", "dialog", "convert"}, NEW i \in Inquiries \cup {None},
         IF caller = "convert" THEN i \in Inquiries ELSE i = None,
         NEW company \in CompanyOrNone
  PROVE  /\ CreatingLead(caller, i, company) \in InquiryRequest
         /\ ~Holds(CreatingLead(caller, i, company))
         /\ \A inq, sl, named : Carries(inq, sl, named, CreatingLead(caller, i, company))
<1>1. PICK p \in Creating : /\ p = IF company = None THEN "insertLead" ELSE "findAgency"
  BY DEF Creating
<1>2. PICK q : q = [pc |-> p, caller |-> caller, inquiry |-> i, company |-> company,
                    answered |-> TRUE]
  OBVIOUS
<1>3. q = CreatingLead(caller, i, company)
  BY <1>1, <1>2 DEF CreatingLead
<1>4. q \in InquiryRequest
  BY <1>1, <1>2, Requested
<1>5. ~Holds(q) /\ \A inq, sl, named : Carries(inq, sl, named, q)
  BY <1>1, <1>2 DEF Holds, Carries, Creating
<1>6. QED
  BY <1>3, <1>4, <1>5

LEMMA StepCreatingBegins ==
  ASSUME InquiryInv, NEW r \in Requests,
         \/ \E i \in Inquiries : ConvertRead(r, i)
         \/ \E caller \in {"api", "dialog"} : PostLead(r, caller)
  PROVE  InquiryInv'
<1>1. ASSUME NEW i \in Inquiries, ConvertRead(r, i) PROVE InquiryInv'
  <2>1. inquiry[i].company \in CompanyOrNone
    BY DEF InquiryInv, InquiryDoc
  <2>2. QED
    BY <1>1, <2>1, CreatingSound, StepMoves DEF ConvertRead, BeginInquiry
<1>2. ASSUME NEW caller \in {"api", "dialog"}, PostLead(r, caller) PROVE InquiryInv'
  <2>1. PICK c \in CompanyOrNone :
          inquiryReq' = Continue(inquiryReq, r, CreatingLead(caller, None, c))
    BY <1>2 DEF PostLead
  <2>2. QED
    BY <1>2, <2>1, CreatingSound, StepMoves DEF PostLead
<1>3. QED
  BY <1>1, <1>2

\* A new lead is named and held by nobody: what is named or held has been made.
LEMMA StepInsertLead ==
  ASSUME InquiryInv, NEW r \in Requests, NEW l \in InquiryLeads, InsertLead(r, l)
  PROVE  InquiryInv'
<1>1. PICK q \in InquiryRequest : /\ q = inquiryReq[r] /\ q.pc = "insertLead"
                                 /\ Carries(inquiry, salesLead, everNamed, q)
  BY DEF InquiryInv, InsertLead, At
<1>2. /\ q.company \in CompanyOrNone /\ q.answered \in BOOLEAN
      /\ IF q.caller = "convert" THEN q.inquiry \in Inquiries ELSE q.inquiry = None
      /\ q.answered /\ q.company # None => q.company \in everNamed
  BY <1>1, RequestFields DEF Carries, Creating
<1>3. PICK d : d = [made |-> TRUE, company |-> q.company, quoted |-> FALSE,
                    answered |-> q.answered]
  OBVIOUS
<1>4. /\ d \in LeadDoc /\ d.made
      /\ d.answered /\ d.company # None => d.company \in everNamed
  BY <1>2, <1>3 DEF LeadDoc
<1>5. /\ salesLead' = [salesLead EXCEPT ![l] = d] /\ ~salesLead[l].made
      /\ inquiry' = inquiry /\ agency' = agency /\ everNamed' = everNamed
  BY <1>1, <1>3 DEF InsertLead
<1>6. /\ salesLead' \in [InquiryLeads -> LeadDoc] /\ salesLead'[l] = d
      /\ \A x \in InquiryLeads \ {l} : salesLead'[x] = salesLead[x]
  BY <1>4, <1>5 DEF InquiryInv
<1>7. /\ l # None
      /\ \A i \in Inquiries : inquiry[i].lead # l /\ inquiry[i].origin # l
  BY <1>5, InquiryAssumption DEF InquiryInv, ConvertedHasOwnLead, DialogLeavesNoOrphan
<1>8. ConvertedHasOwnLead'
  BY <1>5, <1>6, <1>7 DEF InquiryInv, ConvertedHasOwnLead, InquiryDoc
<1>9. DialogLeavesNoOrphan'
  BY <1>5, <1>6, <1>7 DEF InquiryInv, DialogLeavesNoOrphan, InquiryDoc
<1>10. CompanyHadAgency'
  BY <1>4, <1>5, <1>6 DEF InquiryInv, CompanyHadAgency
<1>11. /\ Persists(salesLead, everNamed, salesLead', everNamed')
       /\ NamesOnly(inquiry, inquiry', None)
  BY <1>5, <1>6 DEF Persists, NamesOnly
<1>12. PICK next \in InquiryRequest :
         /\ inquiryReq' = Continue(inquiryReq, r, next)
         /\ next = Idle \/ (next.pc \in {"linkLead", "saveQuote"} /\ next.lead = l)
  <2>1. CASE q.caller = "api"
    BY <1>1, <2>1, Requested DEF InsertLead, Finish
  <2>2. CASE q.caller = "convert"
    <3>1. [pc |-> "linkLead", inquiry |-> q.inquiry, lead |-> l] \in InquiryRequest
      BY <1>2, <2>2, Requested
    <3>2. inquiryReq' = Continue(inquiryReq, r,
                                 [pc |-> "linkLead", inquiry |-> q.inquiry, lead |-> l])
      BY <1>1, <2>2 DEF InsertLead
    <3>3. QED
      BY <3>1, <3>2
  <2>3. CASE q.caller \notin {"api", "convert"}
    <3>1. [pc |-> "saveQuote", inquiry |-> None, lead |-> l] \in InquiryRequest
      BY Requested
    <3>2. inquiryReq' = Continue(inquiryReq, r,
                                 [pc |-> "saveQuote", inquiry |-> None, lead |-> l])
      BY <1>1, <1>2, <2>3 DEF InsertLead
    <3>3. QED
      BY <3>1, <3>2
  <2>4. QED
    BY <2>1, <2>2, <2>3
<1>13. Carries(inquiry', salesLead', everNamed', next)
  <2>1. CASE next = Idle
    BY <2>1, IdleCarries
  <2>2. CASE next.pc \in {"linkLead", "saveQuote"} /\ next.lead = l
    BY <1>4, <1>5, <1>6, <1>7, <2>2 DEF Carries, Holds, Creating
  <2>3. QED
    BY <1>12, <2>1, <2>2
<1>14. \A x \in Requests \ {r} : Holds(inquiryReq[x]) =>
         /\ inquiryReq[x].lead # None
         /\ Holds(next) => inquiryReq[x].lead # next.lead
  <2> SUFFICES ASSUME NEW x \in Requests \ {r}, Holds(inquiryReq[x])
               PROVE  inquiryReq[x].lead # None /\ inquiryReq[x].lead # l
    BY <1>12, IdleCarries
  <2>1. salesLead[inquiryReq[x].lead].made
    BY DEF InquiryInv, Carries
  <2>2. QED
    BY <1>5, <2>1, HeldIsLead
<1>15. AgenciesNamed(agency', everNamed')
  BY <1>5 DEF InquiryInv
<1>16. QED
  BY <1>5, <1>6, <1>8, <1>9, <1>10, <1>11, <1>12, <1>13, <1>14, <1>15, StepSound
  DEF InquiryInv

LEMMA StepDialogSaveQuote ==
  ASSUME InquiryInv, NEW r \in Requests, DialogSaveQuote(r)
  PROVE  InquiryInv'
<1>1. PICK q \in InquiryRequest : /\ q = inquiryReq[r] /\ q.pc = "saveQuote"
                                 /\ Carries(inquiry, salesLead, everNamed, q)
  BY DEF InquiryInv, DialogSaveQuote, At
<1>2. PICK l \in InquiryLeads : l = q.lead
  BY <1>1, RequestFields DEF Holds
<1>3. /\ salesLead[l].made /\ \A i \in Inquiries : inquiry[i].lead # l
      /\ q = [pc |-> "saveQuote", inquiry |-> None, lead |-> l]
  BY <1>1, <1>2, RequestFields DEF Carries, Holds
<1>4. PICK next \in InquiryRequest :
        /\ next = [pc |-> "postInquiry", inquiry |-> None, lead |-> l]
        /\ inquiryReq' = Continue(inquiryReq, r, next)
  <2>1. [pc |-> "postInquiry", inquiry |-> None, lead |-> l] \in InquiryRequest
    BY Requested
  <2>2. [q EXCEPT !.pc = "postInquiry"] = [pc |-> "postInquiry", inquiry |-> None, lead |-> l]
    BY <1>3
  <2>3. inquiryReq' = Continue(inquiryReq, r, [q EXCEPT !.pc = "postInquiry"])
    BY <1>1 DEF DialogSaveQuote
  <2>4. QED
    BY <2>1, <2>2, <2>3
<1>5. PICK d : d = [salesLead[l] EXCEPT !.quoted = TRUE]
  OBVIOUS
<1>6. /\ d \in LeadDoc /\ d.made = salesLead[l].made /\ d.quoted
      /\ d.company = salesLead[l].company /\ d.answered = salesLead[l].answered
  BY <1>5 DEF InquiryInv, LeadDoc
<1>7. /\ salesLead' = [salesLead EXCEPT ![l] = d]
      /\ inquiry' = inquiry /\ agency' = agency /\ everNamed' = everNamed
  BY <1>1, <1>2, <1>5 DEF DialogSaveQuote, InquiryInv
<1>8. /\ salesLead' \in [InquiryLeads -> LeadDoc] /\ salesLead'[l] = d
      /\ \A x \in InquiryLeads \ {l} : salesLead'[x] = salesLead[x]
  BY <1>6, <1>7 DEF InquiryInv
<1>9. /\ ConvertedHasOwnLead' /\ DialogLeavesNoOrphan'
      /\ Persists(salesLead, everNamed, salesLead', everNamed')
      /\ NamesOnly(inquiry, inquiry', None)
  BY <1>6, <1>7, <1>8
  DEF InquiryInv, ConvertedHasOwnLead, DialogLeavesNoOrphan, InquiryDoc, Persists, NamesOnly
<1>10. CompanyHadAgency' /\ AgenciesNamed(agency', everNamed')
  BY <1>6, <1>7, <1>8 DEF InquiryInv, CompanyHadAgency
<1>11. Carries(inquiry', salesLead', everNamed', next)
  BY <1>3, <1>4, <1>6, <1>7, <1>8 DEF Carries, Holds, Creating
<1>12. \A x \in Requests \ {r} : Holds(inquiryReq[x]) =>
         inquiryReq[x].lead # None /\ inquiryReq[x].lead # next.lead
  BY <1>1, <1>2, <1>4, HeldIsLead DEF InquiryInv, HeldOnce, Holds
<1>13. QED
  BY <1>4, <1>7, <1>8, <1>9, <1>10, <1>11, <1>12, StepSound DEF InquiryInv

LEMMA StepDialogPostInquiry ==
  ASSUME InquiryInv, NEW r \in Requests, NEW i \in Inquiries, DialogPostInquiry(r, i)
  PROVE  InquiryInv'
<1>1. PICK q \in InquiryRequest : /\ q = inquiryReq[r] /\ q.pc = "postInquiry"
                                 /\ Carries(inquiry, salesLead, everNamed, q)
  BY DEF InquiryInv, DialogPostInquiry, At
<1>2. PICK l \in InquiryLeads : l = q.lead /\ l # None
  BY <1>1, RequestFields, InquiryAssumption DEF Holds
<1>3. /\ salesLead[l].made /\ salesLead[l].quoted
      /\ \A j \in Inquiries : inquiry[j].lead # l
  BY <1>1, <1>2 DEF Carries, Holds
<1>4. PICK d : d = [inquiry[i] EXCEPT !.status = "DRAFT", !.company = salesLead[l].company,
                                      !.origin = l]
  OBVIOUS
<1>5. /\ d \in InquiryDoc /\ d.status = "DRAFT" /\ d.lead = inquiry[i].lead /\ d.origin = l
  BY <1>4 DEF InquiryInv, InquiryDoc, LeadDoc, InquiryStatus
<1>6. /\ inquiry' = [inquiry EXCEPT ![i] = d] /\ inquiryReq' = Continue(inquiryReq, r, Idle)
      /\ salesLead' = salesLead /\ agency' = agency /\ everNamed' = everNamed
  BY <1>1, <1>2, <1>4 DEF DialogPostInquiry, InsertInquiry, Finish, InquiryInv
<1>7. /\ inquiry' \in [Inquiries -> InquiryDoc] /\ inquiry'[i] = d
      /\ \A j \in Inquiries \ {i} : inquiry'[j] = inquiry[j]
  BY <1>5, <1>6 DEF InquiryInv
<1>8. /\ ConvertedHasOwnLead' /\ DialogLeavesNoOrphan'
  BY <1>2, <1>3, <1>5, <1>6, <1>7 DEF InquiryInv, ConvertedHasOwnLead, DialogLeavesNoOrphan
<1>9. /\ CompanyHadAgency' /\ AgenciesNamed(agency', everNamed')
      /\ Persists(salesLead, everNamed, salesLead', everNamed')
      /\ NamesOnly(inquiry, inquiry', l)
  BY <1>5, <1>6, <1>7 DEF InquiryInv, CompanyHadAgency, Persists, NamesOnly
<1>10. \A x \in Requests \ {r} : Holds(inquiryReq[x]) => inquiryReq[x].lead # l
  BY <1>1, <1>2 DEF InquiryInv, HeldOnce, Holds
<1>11. /\ Idle \in InquiryRequest /\ Carries(inquiry', salesLead', everNamed', Idle)
       /\ \A x \in Requests \ {r} : Holds(inquiryReq[x]) =>
            /\ inquiryReq[x].lead # l
            /\ Holds(Idle) => inquiryReq[x].lead # Idle.lead
  BY <1>10, Requested, IdleCarries
<1>12. /\ salesLead' \in [InquiryLeads -> LeadDoc] /\ agency' \in [Agencies -> AgencyDoc]
       /\ everNamed' \subseteq Companies
  BY <1>6 DEF InquiryInv
<1>13. QED
  BY <1>6, <1>7, <1>8, <1>9, <1>11, <1>12, StepSound

-----------------------------------------------------------------------------
(* Agencies *)

LEMMA StepFindAgency ==
  ASSUME InquiryInv, NEW r \in Requests, FindAgency(r) \/ SwallowAgencyError(r)
  PROVE  InquiryInv'
<1>1. PICK q \in InquiryRequest : /\ q = inquiryReq[r] /\ q.pc \in Creating \ {"insertLead"}
                                 /\ Carries(inquiry, salesLead, everNamed, q)
  BY DEF InquiryInv, FindAgency, SwallowAgencyError, Creating
<1>2. /\ q.caller \in {"api", "dialog", "convert", "staff"} /\ q.inquiry \in Inquiries \cup {None}
      /\ q.company \in CompanyOrNone /\ q.company # None /\ q.answered \in BOOLEAN
      /\ IF q.caller = "convert" THEN q.inquiry \in Inquiries ELSE q.inquiry = None
      /\ q = [pc |-> q.pc, caller |-> q.caller, inquiry |-> q.inquiry,
              company |-> q.company, answered |-> q.answered]
  BY <1>1, RequestFields DEF Carries, Creating
<1>3. AgencyNamed(q.company) => q.company \in everNamed
  BY <1>2 DEF AgencyNamed, InquiryInv, AgenciesNamed
<1>4. PICK p, b :
        /\ p \in Creating /\ b \in BOOLEAN
        /\ inquiryReq' = Continue(inquiryReq, r, [q EXCEPT !.pc = p, !.answered = b])
        /\ p = "insertLead" /\ b => q.company \in everNamed
  <2>1. CASE inquiryReq' = Continue(inquiryReq, r, [q EXCEPT !.pc = "insertLead", !.answered = FALSE])
    BY <2>1 DEF Creating
  <2>2. CASE inquiryReq' = Continue(inquiryReq, r,
               [q EXCEPT !.pc = IF AgencyNamed(q.company) THEN "insertLead"
                                ELSE IF q.pc = "findAgency" THEN "checkAgency"
                                ELSE "insertAgency"])
    <3>1. PICK p \in Creating :
            /\ p = IF AgencyNamed(q.company) THEN "insertLead"
                   ELSE IF q.pc = "findAgency" THEN "checkAgency" ELSE "insertAgency"
            /\ p = "insertLead" => q.company \in everNamed
      BY <1>3 DEF Creating
    <3>2. [q EXCEPT !.pc = p] = [q EXCEPT !.pc = p, !.answered = q.answered]
      BY <1>2
    <3>3. QED
      BY <1>2, <2>2, <3>1, <3>2
  <2>3. QED
    BY <1>1, <2>1, <2>2 DEF FindAgency, SwallowAgencyError
<1>5. PICK next : next = [pc |-> p, caller |-> q.caller, inquiry |-> q.inquiry,
                          company |-> q.company, answered |-> b]
  OBVIOUS
<1>6. next \in InquiryRequest /\ inquiryReq' = Continue(inquiryReq, r, next)
  <2>1. [q EXCEPT !.pc = p, !.answered = b] = next
    <3>1. PICK n, k, i, c, l :
            /\ n = q.pc /\ k = q.caller /\ i = q.inquiry /\ c = q.company /\ l = q.answered
            /\ q = [pc |-> n, caller |-> k, inquiry |-> i, company |-> c, answered |-> l]
      <4>1. q = [pc |-> q.pc, caller |-> q.caller, inquiry |-> q.inquiry,
                 company |-> q.company, answered |-> q.answered]
        BY <1>2
      <4>2. QED
        BY <4>1
    <3>2. [q EXCEPT !.pc = p, !.answered = b]
            = [pc |-> p, caller |-> k, inquiry |-> i, company |-> c, answered |-> b]
      <4>1. PICK moved : moved = [q EXCEPT !.pc = p]
        OBVIOUS
      <4>2. moved = [pc |-> p, caller |-> k, inquiry |-> i, company |-> c, answered |-> l]
        BY <3>1, <4>1
      <4>3. [q EXCEPT !.pc = p, !.answered = b] = [moved EXCEPT !.answered = b]
        BY <4>1
      <4>4. [moved EXCEPT !.answered = b]
              = [pc |-> p, caller |-> k, inquiry |-> i, company |-> c, answered |-> b]
        BY <4>2
      <4>5. QED
        BY <4>3, <4>4
    <3>3. QED
      BY <1>5, <3>1, <3>2
  <2>2. QED
    BY <1>2, <1>4, <1>5, <2>1, Requested
<1>7. Carries(inquiry, salesLead, everNamed, next) /\ ~Holds(next)
  BY <1>2, <1>4, <1>5 DEF Carries, Holds, Creating
<1>8. QED
  BY <1>6, <1>7, StepMoves DEF FindAgency, SwallowAgencyError

LEMMA StepAgencyReads ==
  ASSUME InquiryInv, NEW r \in Requests,
         \/ \E c \in Companies : CreateAgencyRead(r, c)
         \/ \E g \in Agencies : ChangeAgencyRead(r, g)
  PROVE  InquiryInv'
<1>1. ASSUME NEW c \in Companies, CreateAgencyRead(r, c) PROVE InquiryInv'
  <2>1. PICK next : next = [pc |-> "insertAgency", caller |-> "staff", inquiry |-> None,
                            company |-> c, answered |-> TRUE]
    OBVIOUS
  <2>2. next \in InquiryRequest
    BY <2>1, Requested DEF Creating, CompanyOrNone
  <2>3. Carries(inquiry, salesLead, everNamed, next) /\ ~Holds(next)
    BY <2>1, InquiryAssumption DEF Carries, Holds, Creating
  <2>4. QED
    BY <1>1, <2>1, <2>2, <2>3, StepMoves DEF CreateAgencyRead
<1>2. ASSUME NEW g \in Agencies, ChangeAgencyRead(r, g) PROVE InquiryInv'
  <2>1. PICK c \in CompanyOrNone :
          inquiryReq' = Continue(inquiryReq, r, [pc |-> "changeAgency", agency |-> g, name |-> c])
    BY <1>2 DEF ChangeAgencyRead
  <2>2. [pc |-> "changeAgency", agency |-> g, name |-> c] \in InquiryRequest
    BY Requested
  <2>3. QED
    BY <1>2, <2>1, <2>2, StepMoves DEF ChangeAgencyRead, Carries, Holds, Creating
<1>3. QED
  BY <1>1, <1>2

\* Agencies change and names are only added to those they ever had.
LEMMA AgencyWritten ==
  ASSUME InquiryInv, NEW r \in Requests, NEW next \in InquiryRequest, NEW g \in Agencies,
         NEW d \in AgencyDoc, NEW more \in SUBSET Companies,
         agency' = [agency EXCEPT ![g] = d], everNamed' = everNamed \cup more,
         d.name # None => d.name \in everNamed',
         inquiry' = inquiry, salesLead' = salesLead,
         inquiryReq' = Continue(inquiryReq, r, next),
         Carries(inquiry, salesLead, everNamed', next), ~Holds(next)
  PROVE  InquiryInv'
<1>1. agency' \in [Agencies -> AgencyDoc] /\ AgenciesNamed(agency', everNamed')
  BY DEF InquiryInv, AgenciesNamed
<1>2. ConvertedHasOwnLead' /\ DialogLeavesNoOrphan' /\ CompanyHadAgency'
  BY DEF InquiryInv, ConvertedHasOwnLead, DialogLeavesNoOrphan, CompanyHadAgency
<1>3. /\ Persists(salesLead, everNamed, salesLead', everNamed')
      /\ NamesOnly(inquiry, inquiry', None)
  BY DEF Persists, NamesOnly
<1>4. \A x \in Requests \ {r} : Holds(inquiryReq[x]) => inquiryReq[x].lead # None
  BY HeldIsLead
<1>5. /\ inquiry' \in [Inquiries -> InquiryDoc] /\ salesLead' \in [InquiryLeads -> LeadDoc]
      /\ everNamed' \subseteq Companies /\ Carries(inquiry', salesLead', everNamed', next)
  BY DEF InquiryInv
<1>6. QED
  BY <1>1, <1>2, <1>3, <1>4, <1>5, StepSound

LEMMA StepInsertAgency ==
  ASSUME InquiryInv, NEW r \in Requests, NEW g \in Agencies, InsertAgency(r, g)
  PROVE  InquiryInv'
<1>1. PICK q \in InquiryRequest : /\ q = inquiryReq[r] /\ q.pc = "insertAgency"
                                 /\ Carries(inquiry, salesLead, everNamed, q)
  BY DEF InquiryInv, InsertAgency, At
<1>2. /\ q.caller \in {"api", "dialog", "convert", "staff"} /\ q.inquiry \in Inquiries \cup {None}
      /\ q.company \in Companies /\ q.answered \in BOOLEAN
      /\ IF q.caller = "convert" THEN q.inquiry \in Inquiries ELSE q.inquiry = None
      /\ q = [pc |-> q.pc, caller |-> q.caller, inquiry |-> q.inquiry,
              company |-> q.company, answered |-> q.answered]
  BY <1>1, RequestFields DEF Carries, Creating, CompanyOrNone
<1>3. PICK d : d = [agency[g] EXCEPT !.name = q.company]
  OBVIOUS
<1>4. d \in AgencyDoc /\ d.name = q.company
  BY <1>2, <1>3 DEF InquiryInv, AgencyDoc, CompanyOrNone
<1>5. /\ agency' = [agency EXCEPT ![g] = d] /\ everNamed' = everNamed \cup {q.company}
      /\ inquiry' = inquiry /\ salesLead' = salesLead
  BY <1>1, <1>3 DEF InsertAgency, InquiryInv
<1>6. PICK next \in InquiryRequest :
        /\ inquiryReq' = Continue(inquiryReq, r, next)
        /\ Carries(inquiry, salesLead, everNamed', next) /\ ~Holds(next)
  <2>1. CASE q.caller = "staff"
    BY <1>1, <2>1, Requested, IdleCarries DEF InsertAgency, Finish
  <2>2. CASE q.caller # "staff"
    <3>1. PICK next : next = [pc |-> "insertLead", caller |-> q.caller, inquiry |-> q.inquiry,
                              company |-> q.company, answered |-> q.answered]
      OBVIOUS
    <3>2. next \in InquiryRequest
      BY <1>2, <3>1, Requested DEF Creating, CompanyOrNone
    <3>3. [q EXCEPT !.pc = "insertLead"] = next
      BY <1>2, <3>1
    <3>4. inquiryReq' = Continue(inquiryReq, r, next)
      BY <1>1, <2>2, <3>3 DEF InsertAgency
    <3>5. Carries(inquiry, salesLead, everNamed', next) /\ ~Holds(next)
      BY <1>2, <1>5, <3>1 DEF Carries, Holds, Creating
    <3>6. QED
      BY <3>2, <3>4, <3>5
  <2>3. QED
    BY <2>1, <2>2
<1>7. PICK more \in SUBSET Companies : more = {q.company}
  BY <1>2
<1>8. everNamed' = everNamed \cup more /\ d.name \in everNamed'
  BY <1>4, <1>5, <1>7
<1>9. QED
  BY <1>4, <1>5, <1>6, <1>8, AgencyWritten

LEMMA StepChangeAgencyWrite ==
  ASSUME InquiryInv, NEW r \in Requests, ChangeAgencyWrite(r)
  PROVE  InquiryInv'
<1>1. PICK q \in InquiryRequest : q = inquiryReq[r] /\ q.pc = "changeAgency"
  BY DEF InquiryInv, ChangeAgencyWrite, At
<1>2. PICK g \in Agencies, c \in CompanyOrNone : g = q.agency /\ c = q.name
  BY <1>1, RequestFields
<1>3. /\ inquiry' = inquiry /\ salesLead' = salesLead
      /\ inquiryReq' = Continue(inquiryReq, r, Idle)
  BY DEF ChangeAgencyWrite, Finish
<1>4. CASE c = None
  <2>1. PICK d : d = [agency[g] EXCEPT !.removed = TRUE]
    OBVIOUS
  <2>2. /\ d \in AgencyDoc /\ d.name = agency[g].name
        /\ agency[g].name # None => agency[g].name \in everNamed
    BY <2>1 DEF InquiryInv, AgencyDoc, AgenciesNamed
  <2>3. agency' = [agency EXCEPT ![g] = d] /\ everNamed' = everNamed
    BY <1>1, <1>2, <1>4, <2>1 DEF ChangeAgencyWrite, InquiryInv
  <2>4. PICK more \in SUBSET Companies : more = {}
    OBVIOUS
  <2>5. everNamed' = everNamed \cup more /\ (d.name # None => d.name \in everNamed')
    BY <2>2, <2>3, <2>4
  <2>6. QED
    BY <1>3, <2>2, <2>3, <2>5, Requested, IdleCarries, AgencyWritten
<1>5. CASE c # None
  <2>1. PICK d : d = [agency[g] EXCEPT !.name = c]
    OBVIOUS
  <2>2. d \in AgencyDoc /\ d.name = c /\ {c} \in SUBSET Companies
    BY <1>5, <2>1 DEF InquiryInv, AgencyDoc, CompanyOrNone
  <2>3. agency' = [agency EXCEPT ![g] = d] /\ everNamed' = everNamed \cup {c}
    BY <1>1, <1>2, <1>5, <2>1 DEF ChangeAgencyWrite, InquiryInv
  <2>4. PICK more \in SUBSET Companies : more = {c}
    BY <2>2
  <2>5. everNamed' = everNamed \cup more /\ d.name \in everNamed'
    BY <2>2, <2>3, <2>4
  <2>6. QED
    BY <1>3, <2>2, <2>3, <2>5, Requested, IdleCarries, AgencyWritten
<1>6. QED
  BY <1>4, <1>5

-----------------------------------------------------------------------------
LEMMA StepInquiryInv == InquiryInv /\ [InquiryNext]_inquiryVars => InquiryInv'
<1> SUFFICES ASSUME InquiryInv, [InquiryNext]_inquiryVars PROVE InquiryInv'
  OBVIOUS
<1>1. ASSUME NEW i \in Inquiries, CreateInquiry(i) PROVE InquiryInv'
  BY <1>1, StepCreateInquiry
<1>2. ASSUME NEW r \in Requests, NEW i \in Inquiries,
             \/ EditInquiryRead(r, i) \/ TransitionRead(r, i) \/ RemoveInquiryRead(r, i)
             \/ ConvertRead(r, i) \/ DialogPostInquiry(r, i)
      PROVE  InquiryInv'
  BY <1>2, StepInquiryReads, StepCreatingBegins, StepDialogPostInquiry
<1>3. ASSUME NEW r \in Requests,
             \/ WriteInquiry(r) \/ FindAgency(r) \/ SwallowAgencyError(r)
             \/ DialogSaveQuote(r) \/ ChangeAgencyWrite(r)
             \/ \E caller \in {"api", "dialog"} : PostLead(r, caller)
             \/ \E l \in InquiryLeads : InsertLead(r, l)
      PROVE  InquiryInv'
  BY <1>3, StepWriteInquiry, StepFindAgency, StepDialogSaveQuote, StepChangeAgencyWrite,
     StepCreatingBegins, StepInsertLead
<1>4. ASSUME NEW r \in Requests,
             \/ \E c \in Companies : CreateAgencyRead(r, c)
             \/ \E g \in Agencies : InsertAgency(r, g) \/ ChangeAgencyRead(r, g)
      PROVE  InquiryInv'
  BY <1>4, StepAgencyReads, StepInsertAgency
<1>5. ASSUME NEW r \in Requests, InquiryAbandon(r) PROVE InquiryInv'
  BY <1>5, Requested, IdleCarries, StepMoves DEF InquiryAbandon, Finish
<1>6. CASE UNCHANGED inquiryVars
  <2>1. ConvertedHasOwnLead' /\ DialogLeavesNoOrphan'
    BY <1>6 DEF inquiryVars, InquiryInv, ConvertedHasOwnLead, DialogLeavesNoOrphan
  <2>2. QED
    BY <1>6, <2>1, NothingTaken, StepStill DEF inquiryVars, InquiryInv
<1>7. QED
  BY <1>1, <1>2, <1>3, <1>4, <1>5, <1>6 DEF InquiryNext

LEMMA InquiryInvariant == InquirySpec => []InquiryInv
<1>1. InquiryInit => InquiryInv
  BY InitInquiryInv
<1>2. InquiryInv /\ [InquiryNext]_inquiryVars => InquiryInv'
  BY StepInquiryInv
<1>3. QED
  BY <1>1, <1>2, PTL DEF InquirySpec

-----------------------------------------------------------------------------
(* What holds of inquiries and their leads *)

\* Inquiries, leads, agencies and the requests under way always have the type their schema
\* gives them (inquiry.schema.ts, lead.schema.ts, agency.schema.ts).
THEOREM InquiryTypeCorrect == InquirySpec => []InquiryTypeOK
<1>1. InquiryInv => InquiryTypeOK
  BY DEF InquiryInv, InquiryTypeOK, InquiryDoc, LeadDoc, AgencyDoc
<1>2. QED
  BY <1>1, InquiryInvariant, PTL

\* A converted inquiry (inquiries.service.ts:206) has a lead of its own, whichever requests
\* edit, move, remove or convert it meanwhile and whatever stops half way.
THEOREM ConversionsOwnTheirLead == InquirySpec => []ConvertedHasOwnLead
<1>1. InquiryInv => ConvertedHasOwnLead
  BY DEF InquiryInv
<1>2. QED
  BY <1>1, InquiryInvariant, PTL

\* However the create dialog's three calls end (LeadCreateDialog.tsx), an inquiry it made has
\* its lead and the lead its quote.
THEOREM DialogInquiriesHaveLeads == InquirySpec => []DialogLeavesNoOrphan
<1>1. InquiryInv => DialogLeavesNoOrphan
  BY DEF InquiryInv
<1>2. QED
  BY <1>1, InquiryInvariant, PTL

\* Losing the race to create an agency (agencies.service.ts, AGENCY_NAME_CONFLICT) means that
\* the agency exists or existed: a lead's company had one unless a query of findOrCreate
\* failed and lead creation swallowed the failure (leads.service.ts:36-38).
THEOREM CompaniesHadAgencies == InquirySpec => []CompanyHadAgency
<1>1. InquiryInv => CompanyHadAgency
  BY DEF InquiryInv
<1>2. QED
  BY <1>1, InquiryInvariant, PTL

-----------------------------------------------------------------------------
(* What overlaps cost: the life cycle and the names are checked on a read that the write *)
(* does not repeat.  These theorems say which overlaps alone break what is checked.      *)

\* A request q that may still write inquiry i, other than to remove it.
Touches(q, i) ==
  \/ q.pc \in {"editInquiry", "transition", "linkLead"} /\ q.inquiry = i
  \/ q.pc \in Creating /\ q.caller = "convert" /\ q.inquiry = i

\* A terminal inquiry whose last such request has ended.
Over(i) ==
  inquiry[i].status \in TerminalInquiry /\ \A r \in Requests : ~Touches(inquiryReq[r], i)

\* The steps of request r.
RequestSteps(r) ==
  \/ \E i \in Inquiries :
       \/ EditInquiryRead(r, i) \/ TransitionRead(r, i) \/ RemoveInquiryRead(r, i)
       \/ ConvertRead(r, i) \/ DialogPostInquiry(r, i)
  \/ WriteInquiry(r)
  \/ \E caller \in {"api", "dialog"} : PostLead(r, caller)
  \/ FindAgency(r) \/ SwallowAgencyError(r)
  \/ \E l \in InquiryLeads : InsertLead(r, l)
  \/ DialogSaveQuote(r)
  \/ \E c \in Companies : CreateAgencyRead(r, c)
  \/ \E g \in Agencies : InsertAgency(r, g) \/ ChangeAgencyRead(r, g)
  \/ ChangeAgencyWrite(r)
  \/ InquiryAbandon(r)

\* A step is one of a request, which moves no other, or the creation of an inquiry.
LEMMA StepsOfRequests ==
  ASSUME [InquiryNext]_inquiryVars
  PROVE  \/ UNCHANGED inquiryVars \/ \E j \in Inquiries : CreateInquiry(j)
         \/ \E r \in Requests : RequestSteps(r)
  BY DEF InquiryNext, RequestSteps

LEMMA RequestMoves ==
  ASSUME NEW r \in Requests, RequestSteps(r)
  PROVE  \E next : inquiryReq' = Continue(inquiryReq, r, next)
  BY DEF RequestSteps, EditInquiryRead, TransitionRead, RemoveInquiryRead, ConvertRead,
     DialogPostInquiry, WriteInquiry, PostLead, FindAgency, SwallowAgencyError, InsertLead,
     DialogSaveQuote, CreateAgencyRead, InsertAgency, ChangeAgencyRead, ChangeAgencyWrite, InquiryAbandon,
     BeginInquiry, Finish

\* An insert of an agency ends the naming.
LEMMA InsertEnds ==
  ASSUME InquiryInv, NEW r \in Requests, NEW g \in Agencies, InsertAgency(r, g)
  PROVE  inquiryReq'[r].pc # "insertAgency"
<1>1. PICK q \in InquiryRequest : q = inquiryReq[r] /\ q.pc \in Creating
  BY DEF InquiryInv, InsertAgency, At, Creating
<1>2. q = [pc |-> q.pc, caller |-> q.caller, inquiry |-> q.inquiry, company |-> q.company,
           answered |-> q.answered]
  BY <1>1, RequestFields
<1>3. \E next \in {Idle, [q EXCEPT !.pc = "insertLead"]} :
        inquiryReq' = Continue(inquiryReq, r, next)
  BY <1>1 DEF InsertAgency, Finish
<1>4. QED
  BY <1>2, <1>3 DEF Continue, InquiryInv, Idle

\* No request begins to touch a terminal inquiry.
LEMMA NoneTouchesAgain ==
  ASSUME InquiryInv, [InquiryNext]_inquiryVars, NEW i \in Inquiries, Over(i),
         NEW s \in Requests
  PROVE  ~Touches(inquiryReq'[s], i)
<1>1. PICK q \in InquiryRequest : q = inquiryReq[s] /\ ~Touches(q, i)
  BY DEF InquiryInv, Over
<1>2. CASE inquiryReq'[s] = inquiryReq[s]
  BY <1>1, <1>2
<1>3. ASSUME NEW next, inquiryReq' = Continue(inquiryReq, s, next)
      PROVE  inquiryReq'[s] = next
  BY <1>3 DEF Continue, InquiryInv
<1>4. ~Touches(Idle, i)
  BY DEF Touches, Idle, Creating
<1>5. ASSUME NEW r \in Requests, r # s, NEW next, inquiryReq' = Continue(inquiryReq, r, next)
      PROVE  inquiryReq'[s] = inquiryReq[s]
  BY <1>5 DEF Continue, InquiryInv
<1>6. ASSUME NEW j \in Inquiries,
             \/ EditInquiryRead(s, j) \/ TransitionRead(s, j) \/ RemoveInquiryRead(s, j)
             \/ ConvertRead(s, j)
      PROVE  ~Touches(inquiryReq'[s], i)
  <2>1. CASE EditInquiryRead(s, j)
    <3>1. j # i
      BY <2>1 DEF EditInquiryRead, Over
    <3>2. QED
      BY <1>3, <2>1, <3>1 DEF EditInquiryRead, BeginInquiry, Touches, Creating
  <2>2. CASE TransitionRead(s, j)
    <3>1. inquiry[j].status \in InquiryStatus /\ Transitions[inquiry[j].status] # {}
      BY <2>2 DEF TransitionRead, FoundInquiry, InquiryInv, InquiryDoc
    <3>2. j # i
      BY <3>1 DEF Transitions, TerminalInquiry, InquiryStatus, Over
    <3>3. QED
      BY <1>3, <2>2, <3>2 DEF TransitionRead, BeginInquiry, Touches, Creating
  <2>3. CASE RemoveInquiryRead(s, j)
    BY <1>3, <2>3 DEF RemoveInquiryRead, BeginInquiry, Touches, Creating
  <2>4. CASE ConvertRead(s, j)
    <3>1. j # i
      BY <2>4 DEF ConvertRead, Convertible, TerminalInquiry, Over
    <3>2. PICK c : inquiryReq'[s] = CreatingLead("convert", j, c)
      BY <1>3, <2>4 DEF ConvertRead, BeginInquiry
    <3>3. CreatingLead("convert", j, c).inquiry = j
          /\ CreatingLead("convert", j, c).pc \in {"insertLead", "findAgency"}
      BY DEF CreatingLead
    <3>4. QED
      BY <3>1, <3>2, <3>3 DEF Touches
  <2>5. QED
    BY <1>6, <2>1, <2>2, <2>3, <2>4
<1>7. ASSUME NEW caller \in {"api", "dialog"}, PostLead(s, caller)
      PROVE  ~Touches(inquiryReq'[s], i)
  <2>1. PICK c : inquiryReq'[s] = CreatingLead(caller, None, c)
    BY <1>3, <1>7 DEF PostLead
  <2>2. CreatingLead(caller, None, c).caller # "convert"
        /\ CreatingLead(caller, None, c).pc \in {"insertLead", "findAgency"}
    BY <1>7 DEF CreatingLead
  <2>3. QED
    BY <2>1, <2>2 DEF Touches
<1>8. CASE FindAgency(s) \/ SwallowAgencyError(s)
  <2>1. PICK pc \in Creating, b \in BOOLEAN :
          inquiryReq'[s] = [pc |-> pc, caller |-> q.caller, inquiry |-> q.inquiry,
                            company |-> q.company, answered |-> b]
    <3>1. q.pc \in Creating
      BY <1>1, <1>8 DEF FindAgency, SwallowAgencyError, Creating
    <3>2. /\ q = [pc |-> q.pc, caller |-> q.caller, inquiry |-> q.inquiry,
                  company |-> q.company, answered |-> q.answered]
          /\ q.answered \in BOOLEAN
      BY <3>1, RequestFields
    <3>3. \/ \E pc \in Creating : inquiryReq'[s] = [q EXCEPT !.pc = pc]
          \/ inquiryReq'[s] = [q EXCEPT !.pc = "insertLead", !.answered = FALSE]
      BY <1>1, <1>3, <1>8 DEF FindAgency, SwallowAgencyError, Creating
    <3>4. QED
      BY <3>2, <3>3 DEF Creating
  <2>2. q.pc \in Creating
    BY <1>1, <1>8 DEF FindAgency, SwallowAgencyError, Creating
  <2>3. QED
    BY <1>1, <2>1, <2>2 DEF Touches, Creating
<1>9. ASSUME NEW l \in InquiryLeads, InsertLead(s, l)
      PROVE  ~Touches(inquiryReq'[s], i)
  <2>1. q.pc = "insertLead"
    BY <1>1, <1>9 DEF InsertLead, At
  <2>2. \/ inquiryReq'[s] = Idle
        \/ inquiryReq'[s] = [pc |-> IF q.caller = "convert" THEN "linkLead" ELSE "saveQuote",
                             inquiry |-> q.inquiry, lead |-> l]
    BY <1>1, <1>3, <1>9 DEF InsertLead, Finish
  <2>3. QED
    BY <1>1, <1>4, <2>1, <2>2 DEF Touches, Creating
<1>10. CASE DialogSaveQuote(s)
  <2>1. q = [pc |-> q.pc, inquiry |-> q.inquiry, lead |-> q.lead]
    BY <1>1, <1>10, RequestFields DEF DialogSaveQuote, At
  <2>2. inquiryReq'[s] = [q EXCEPT !.pc = "postInquiry"]
    BY <1>1, <1>3, <1>10 DEF DialogSaveQuote
  <2>3. inquiryReq'[s].pc = "postInquiry"
    BY <2>1, <2>2
  <2>4. QED
    BY <2>3 DEF Touches, Creating
<1>11. ASSUME NEW c \in Companies, CreateAgencyRead(s, c)
       PROVE  ~Touches(inquiryReq'[s], i)
  <2>1. inquiryReq'[s] = [pc |-> "insertAgency", caller |-> "staff", inquiry |-> None,
                          company |-> c, answered |-> TRUE]
    BY <1>3, <1>11 DEF CreateAgencyRead
  <2>2. inquiryReq'[s].pc = "insertAgency" /\ inquiryReq'[s].caller = "staff"
    BY <2>1
  <2>3. QED
    BY <2>2 DEF Touches, Creating
<1>12. ASSUME NEW g \in Agencies, InsertAgency(s, g) \/ ChangeAgencyRead(s, g)
       PROVE  ~Touches(inquiryReq'[s], i)
  <2>1. CASE InsertAgency(s, g)
    <3>1. q.pc = "insertAgency"
      BY <1>1, <2>1 DEF InsertAgency, At
    <3>2. q = [pc |-> q.pc, caller |-> q.caller, inquiry |-> q.inquiry,
               company |-> q.company, answered |-> q.answered]
      BY <3>1, RequestFields DEF Creating
    <3>3. inquiryReq'[s] = Idle \/ inquiryReq'[s] = [q EXCEPT !.pc = "insertLead"]
      BY <1>1, <1>3, <2>1 DEF InsertAgency, Finish
    <3>4. inquiryReq'[s] = Idle \/ /\ inquiryReq'[s].caller = q.caller
                                   /\ inquiryReq'[s].inquiry = q.inquiry
                                   /\ inquiryReq'[s].pc = "insertLead"
      BY <3>2, <3>3
    <3>5. QED
      BY <1>1, <1>4, <3>1, <3>4 DEF Touches, Creating
  <2>2. CASE ChangeAgencyRead(s, g)
    BY <1>3, <2>2 DEF ChangeAgencyRead, Touches, Creating
  <2>3. QED
    BY <1>12, <2>1, <2>2
<1>13. ASSUME NEW j \in Inquiries,
              \/ WriteInquiry(s) \/ ChangeAgencyWrite(s) \/ InquiryAbandon(s)
              \/ DialogPostInquiry(s, j)
       PROVE  ~Touches(inquiryReq'[s], i)
  BY <1>3, <1>4, <1>13 DEF WriteInquiry, ChangeAgencyWrite, InquiryAbandon, DialogPostInquiry,
     Finish
<1>14. ASSUME NEW r \in Requests, r # s, RequestSteps(r)
       PROVE  inquiryReq'[s] = inquiryReq[s]
  BY <1>5, <1>14, RequestMoves
<1>15. ASSUME NEW j \in Inquiries, CreateInquiry(j)
       PROVE  inquiryReq'[s] = inquiryReq[s]
  BY <1>15 DEF CreateInquiry
<1>16. CASE UNCHANGED inquiryVars
  BY <1>2, <1>16 DEF inquiryVars
<1>17. CASE \E r \in Requests : RequestSteps(r)
  BY <1>2, <1>6, <1>7, <1>8, <1>9, <1>10, <1>11, <1>12, <1>13, <1>14, <1>17 DEF RequestSteps
<1>18. QED
  BY <1>2, <1>15, <1>16, <1>17, StepsOfRequests

\* What its writes do to a terminal inquiry that no request touches.
LEMMA OverStays ==
  ASSUME InquiryInv, [InquiryNext]_inquiryVars, NEW i \in Inquiries, Over(i)
  PROVE  /\ inquiry'[i].status = inquiry[i].status /\ inquiry'[i].company = inquiry[i].company
         /\ inquiry'[i].lead = inquiry[i].lead
<1>1. inquiry \in [Inquiries -> InquiryDoc] /\ inquiry[i].status # "ABSENT"
  BY DEF InquiryInv, Over, TerminalInquiry
<1>2. ASSUME NEW j \in Inquiries, NEW c, NEW o, InsertInquiry(j, c, o)
      PROVE  inquiry'[i] = inquiry[i]
  BY <1>1, <1>2 DEF InsertInquiry
<1>3. ASSUME NEW r \in Requests, WriteInquiry(r)
      PROVE  /\ inquiry'[i].status = inquiry[i].status /\ inquiry'[i].company = inquiry[i].company
             /\ inquiry'[i].lead = inquiry[i].lead
  <2>1. PICK q \in InquiryRequest : q = inquiryReq[r] /\ ~Touches(q, i)
    BY DEF InquiryInv, Over
  <2>2. CASE q.pc = "removeInquiry"
    <3>1. inquiry' = [inquiry EXCEPT ![q.inquiry].removed = TRUE] /\ q.inquiry \in Inquiries
      BY <1>3, <2>1, <2>2, RequestFields DEF WriteInquiry, At
    <3>2. QED
      BY <1>1, <3>1 DEF InquiryDoc
  <2>3. CASE q.pc \in {"editInquiry", "transition", "linkLead"}
    <3>1. q.inquiry # i /\ q.inquiry \in Inquiries
      BY <2>1, <2>3, RequestFields DEF Touches
    <3>2. inquiry'[i] = inquiry[i]
      BY <1>1, <1>3, <2>1, <3>1 DEF WriteInquiry
    <3>3. QED
      BY <3>2
  <2>4. QED
    BY <1>3, <2>1, <2>2, <2>3 DEF WriteInquiry, At
<1>4. CASE UNCHANGED inquiry
  BY <1>4
<1>5. QED
  BY <1>2, <1>3, <1>4 DEF InquiryNext, inquiryVars, CreateInquiry, DialogPostInquiry,
     EditInquiryRead, TransitionRead, RemoveInquiryRead, ConvertRead, BeginInquiry, PostLead,
     FindAgency, SwallowAgencyError, InsertLead, DialogSaveQuote, CreateAgencyRead, InsertAgency,
     ChangeAgencyRead, ChangeAgencyWrite, InquiryAbandon

\* "A ${inquiry.status} inquiry cannot be edited" (inquiries.service.ts update, and the
\* transition table): an inquiry once CONVERTED or CANCELLED keeps its status, its lead and
\* its details for good as soon as the requests that had read it before have ended.
THEOREM TerminalInquiriesStay ==
  InquirySpec => [][\A i \in Inquiries : Over(i) =>
                      /\ inquiry'[i].status = inquiry[i].status
                      /\ inquiry'[i].company = inquiry[i].company
                      /\ inquiry'[i].lead = inquiry[i].lead
                      /\ Over(i)']_inquiryVars
<1>1. ASSUME InquiryInv, [InquiryNext]_inquiryVars, NEW i \in Inquiries, Over(i)
      PROVE  /\ inquiry'[i].status = inquiry[i].status
             /\ inquiry'[i].company = inquiry[i].company
             /\ inquiry'[i].lead = inquiry[i].lead
             /\ Over(i)'
  <2>1. inquiry'[i].status \in TerminalInquiry
    BY <1>1, OverStays DEF Over
  <2>2. \A r \in Requests : ~Touches(inquiryReq'[r], i)
    BY <1>1, NoneTouchesAgain
  <2>3. QED
    BY <1>1, <2>1, <2>2, OverStays DEF Over
<1>2. InquiryInv /\ [InquiryNext]_inquiryVars =>
        [\A i \in Inquiries : Over(i) =>
           /\ inquiry'[i].status = inquiry[i].status
           /\ inquiry'[i].company = inquiry[i].company
           /\ inquiry'[i].lead = inquiry[i].lead
           /\ Over(i)']_inquiryVars
  BY <1>1
<1>3. QED
  BY <1>2, InquiryInvariant, PTL DEF InquirySpec

\* Request r has found that no agency has the name c and is about to insert one.
Naming(r, c) == At(inquiryReq, r, "insertAgency") /\ inquiryReq[r].company = c

\* Never do two requests stand between the look-up and the insert of one name, and staff
\* rename no agency (update does not look the new name up at all).
OneNaming ==
  /\ \A c \in Companies : \A r, s \in Requests : Naming(r, c) /\ Naming(s, c) => r = s
  /\ \A r \in Requests : At(inquiryReq, r, "changeAgency") => inquiryReq[r].name = None

\* No two agencies of the workspace have one name.
NamesApart ==
  \A c \in Companies : \A g, h \in Agencies :
    /\ agency[g].name = c /\ ~agency[g].removed
    /\ agency[h].name = c /\ ~agency[h].removed
    => g = h

NamesInv ==
  /\ NamesApart
  /\ \A r \in Requests, c \in Companies : Naming(r, c) => ~AgencyNamed(c)

\* A request is about to insert a name only if it was so before or has just looked it up.
LEMMA NamingBegins ==
  ASSUME InquiryInv, [InquiryNext]_inquiryVars, NEW s \in Requests, NEW c \in Companies,
         Naming(s, c)'
  PROVE  Naming(s, c) \/ (UNCHANGED agency /\ ~AgencyNamed(c))
<1>1. PICK q \in InquiryRequest : q = inquiryReq[s]
  BY DEF InquiryInv
<1>2. inquiryReq'[s].pc = "insertAgency" /\ inquiryReq'[s].company = c
  BY DEF Naming, At
<1>3. ASSUME NEW next, inquiryReq' = Continue(inquiryReq, s, next)
      PROVE  inquiryReq'[s] = next
  BY <1>3 DEF Continue, InquiryInv
<1>4. ASSUME NEW r \in Requests, r # s, NEW next, inquiryReq' = Continue(inquiryReq, r, next)
      PROVE  Naming(s, c)
  BY <1>2, <1>4 DEF Continue, InquiryInv, Naming, At
<1>5. CASE FindAgency(s) \/ SwallowAgencyError(s)
  <2>1. q.pc \in Creating /\ UNCHANGED agency
    BY <1>1, <1>5 DEF FindAgency, SwallowAgencyError, Creating
  <2>2. q = [pc |-> q.pc, caller |-> q.caller, inquiry |-> q.inquiry, company |-> q.company,
             answered |-> q.answered]
    BY <2>1, RequestFields
  <2>3. \/ /\ inquiryReq'[s] = [q EXCEPT !.pc =
                IF AgencyNamed(q.company) THEN "insertLead"
                ELSE IF q.pc = "findAgency" THEN "checkAgency" ELSE "insertAgency"]
        \/ inquiryReq'[s] = [q EXCEPT !.pc = "insertLead", !.answered = FALSE]
    BY <1>1, <1>3, <1>5 DEF FindAgency, SwallowAgencyError
  <2>4. inquiryReq'[s].company = q.company /\ ~AgencyNamed(q.company)
    BY <1>2, <2>2, <2>3
  <2>5. QED
    BY <1>2, <2>1, <2>4
<1>6. ASSUME NEW d \in Companies, CreateAgencyRead(s, d)
      PROVE  UNCHANGED agency /\ ~AgencyNamed(c)
  <2>1. inquiryReq'[s] = [pc |-> "insertAgency", caller |-> "staff", inquiry |-> None,
                          company |-> d, answered |-> TRUE]
    BY <1>3, <1>6 DEF CreateAgencyRead
  <2>2. d = c
    BY <1>2, <2>1
  <2>3. QED
    BY <1>6, <2>2 DEF CreateAgencyRead
<1>7. ASSUME \/ \E j \in Inquiries :
                  \/ EditInquiryRead(s, j) \/ TransitionRead(s, j) \/ RemoveInquiryRead(s, j)
                  \/ ConvertRead(s, j) \/ DialogPostInquiry(s, j)
             \/ WriteInquiry(s) \/ ChangeAgencyWrite(s) \/ InquiryAbandon(s)
             \/ \E caller \in {"api", "dialog"} : PostLead(s, caller)
             \/ \E l \in InquiryLeads : InsertLead(s, l)
             \/ \E g \in Agencies : InsertAgency(s, g) \/ ChangeAgencyRead(s, g)
             \/ DialogSaveQuote(s)
      PROVE  FALSE
  <2>1. CASE \E j \in Inquiries :
               \/ EditInquiryRead(s, j) \/ TransitionRead(s, j) \/ RemoveInquiryRead(s, j)
    <3>1. ASSUME NEW j \in Inquiries, EditInquiryRead(s, j) PROVE FALSE
      BY <1>2, <1>3, <3>1 DEF EditInquiryRead, BeginInquiry
    <3>2. ASSUME NEW j \in Inquiries, TransitionRead(s, j) PROVE FALSE
      BY <1>2, <1>3, <3>2 DEF TransitionRead, BeginInquiry
    <3>3. ASSUME NEW j \in Inquiries, RemoveInquiryRead(s, j) PROVE FALSE
      BY <1>2, <1>3, <3>3 DEF RemoveInquiryRead, BeginInquiry
    <3>4. QED
      BY <2>1, <3>1, <3>2, <3>3
  <2>2. CASE \/ WriteInquiry(s) \/ ChangeAgencyWrite(s) \/ InquiryAbandon(s)
             \/ \E j \in Inquiries : DialogPostInquiry(s, j)
    BY <1>2, <1>3, <2>2 DEF WriteInquiry, ChangeAgencyWrite, InquiryAbandon,
       DialogPostInquiry, Finish, Idle
  <2>3. CASE \/ \E j \in Inquiries : ConvertRead(s, j)
             \/ \E caller \in {"api", "dialog"} : PostLead(s, caller)
    <3>1. \E caller, j, d : inquiryReq'[s] = CreatingLead(caller, j, d)
      BY <1>3, <2>3 DEF ConvertRead, PostLead, BeginInquiry
    <3>2. QED
      BY <1>2, <3>1 DEF CreatingLead
  <2>4. ASSUME NEW l \in InquiryLeads, InsertLead(s, l) PROVE FALSE
    <3>1. \/ inquiryReq'[s] = Idle
          \/ inquiryReq'[s] = [pc |-> IF q.caller = "convert" THEN "linkLead" ELSE "saveQuote",
                               inquiry |-> q.inquiry, lead |-> l]
      BY <1>1, <1>3, <2>4 DEF InsertLead, Finish
    <3>2. QED
      BY <1>2, <3>1 DEF Idle
  <2>5. ASSUME NEW g \in Agencies, InsertAgency(s, g) PROVE FALSE
    <3>1. q.pc \in Creating
      BY <1>1, <2>5 DEF InsertAgency, At, Creating
    <3>2. q = [pc |-> q.pc, caller |-> q.caller, inquiry |-> q.inquiry,
               company |-> q.company, answered |-> q.answered]
      BY <3>1, RequestFields
    <3>3. inquiryReq'[s] = Idle \/ inquiryReq'[s] = [q EXCEPT !.pc = "insertLead"]
      BY <1>1, <1>3, <2>5 DEF InsertAgency, Finish
    <3>4. QED
      BY <1>2, <3>2, <3>3 DEF Idle
  <2>6. ASSUME NEW g \in Agencies, ChangeAgencyRead(s, g) PROVE FALSE
    BY <1>2, <1>3, <2>6 DEF ChangeAgencyRead
  <2>7. CASE DialogSaveQuote(s)
    <3>1. q = [pc |-> q.pc, inquiry |-> q.inquiry, lead |-> q.lead]
      BY <1>1, <2>7, RequestFields DEF DialogSaveQuote, At
    <3>2. inquiryReq'[s] = [q EXCEPT !.pc = "postInquiry"]
      BY <1>1, <1>3, <2>7 DEF DialogSaveQuote
    <3>3. QED
      BY <1>2, <3>1, <3>2
  <2>8. QED
    BY <1>7, <2>1, <2>2, <2>3, <2>4, <2>5, <2>6, <2>7
<1>8. ASSUME NEW r \in Requests, r # s, RequestSteps(r)
      PROVE  Naming(s, c)
  <2>1. \E next : inquiryReq' = Continue(inquiryReq, r, next)
    BY <1>8, RequestMoves
  <2>2. QED
    BY <1>4, <1>8, <2>1
<1>9. CASE UNCHANGED inquiryReq
  BY <1>2, <1>9 DEF Naming, At
<1>10. CASE UNCHANGED inquiryVars \/ \E j \in Inquiries : CreateInquiry(j)
  BY <1>9, <1>10 DEF inquiryVars, CreateInquiry
<1>11. CASE \E r \in Requests : RequestSteps(r)
  BY <1>5, <1>6, <1>7, <1>8, <1>11 DEF RequestSteps
<1>12. QED
  BY <1>10, <1>11, StepsOfRequests

\* An insert of a name that nobody has, or a removal, keeps names apart.
LEMMA NamesStayApart ==
  ASSUME InquiryInv, NamesInv, OneNaming, OneNaming', [InquiryNext]_inquiryVars
  PROVE  NamesInv'
<1>1. agency \in [Agencies -> AgencyDoc] /\ None \notin Companies
  BY InquiryAssumption DEF InquiryInv
<1>2. CASE UNCHANGED agency
  <2>1. NamesApart' /\ \A c \in Companies : AgencyNamed(c)' = AgencyNamed(c)
    BY <1>2 DEF NamesInv, NamesApart, AgencyNamed
  <2>2. \A r \in Requests, c \in Companies : Naming(r, c)' => ~AgencyNamed(c)
    BY NamingBegins DEF NamesInv
  <2>3. QED
    BY <2>1, <2>2 DEF NamesInv
<1>3. ASSUME NEW r \in Requests, ChangeAgencyWrite(r) PROVE NamesInv'
  <2>1. PICK q \in InquiryRequest : q = inquiryReq[r] /\ q.pc = "changeAgency"
    BY <1>3 DEF InquiryInv, ChangeAgencyWrite, At
  <2>2. q.agency \in Agencies /\ q.name = None
    BY <2>1, RequestFields DEF OneNaming, At
  <2>3. agency' = [agency EXCEPT ![q.agency].removed = TRUE]
    BY <1>3, <2>1, <2>2 DEF ChangeAgencyWrite
  <2>4. \A g \in Agencies : /\ agency'[g].name = agency[g].name
                            /\ ~agency'[g].removed => ~agency[g].removed
    BY <1>1, <2>2, <2>3 DEF AgencyDoc
  <2>5. NamesApart' /\ \A c \in Companies : AgencyNamed(c)' => AgencyNamed(c)
    BY <2>4 DEF NamesInv, NamesApart, AgencyNamed
  <2>6. \A s \in Requests, c \in Companies : Naming(s, c)' => ~AgencyNamed(c)
    BY NamingBegins DEF NamesInv
  <2>7. QED
    BY <2>5, <2>6 DEF NamesInv
<1>4. ASSUME NEW r \in Requests, NEW g \in Agencies, InsertAgency(r, g) PROVE NamesInv'
  <2>1. PICK d \in CompanyOrNone :
          /\ d = inquiryReq[r].company /\ agency' = [agency EXCEPT ![g].name = d]
          /\ agency[g].name = None /\ At(inquiryReq, r, "insertAgency")
    <3>1. PICK q \in InquiryRequest : q = inquiryReq[r] /\ q.pc \in Creating
      BY <1>4 DEF InquiryInv, InsertAgency, At, Creating
    <3>2. QED
      BY <1>4, <3>1, RequestFields DEF InsertAgency
  <2>2. /\ agency'[g].name = d
        /\ \A h \in Agencies : h # g => agency'[h] = agency[h]
    BY <1>1, <2>1 DEF AgencyDoc
  <2>3. d \in Companies => ~AgencyNamed(d)
    BY <2>1 DEF NamesInv, Naming
  <2>4. NamesApart'
    BY <1>1, <2>1, <2>2, <2>3 DEF NamesInv, NamesApart, AgencyNamed
  <2>5. ASSUME NEW s \in Requests, NEW c \in Companies, Naming(s, c)' PROVE ~AgencyNamed(c)'
    <3>1. Naming(s, c) \/ (UNCHANGED agency /\ ~AgencyNamed(c))
      BY <2>5, NamingBegins
    <3>2. CASE Naming(s, c) /\ c # d
      <4>1. ~AgencyNamed(c)
        BY <3>2 DEF NamesInv
      <4>2. QED
        BY <2>2, <3>2, <4>1 DEF AgencyNamed
    <3>3. CASE Naming(s, c) /\ c = d
      <4>1. s = r
        BY <2>1, <3>3 DEF OneNaming, Naming
      <4>2. inquiryReq'[r].pc # "insertAgency"
        BY <1>4, InsertEnds
      <4>3. QED
        BY <2>5, <4>1, <4>2 DEF Naming, At
    <3>4. CASE UNCHANGED agency /\ ~AgencyNamed(c)
      BY <3>4 DEF AgencyNamed
    <3>5. QED
      BY <3>1, <3>2, <3>3, <3>4
  <2>6. QED
    BY <2>4, <2>5 DEF NamesInv
<1>5. UNCHANGED agency \/ \E r \in Requests :
        ChangeAgencyWrite(r) \/ \E g \in Agencies : InsertAgency(r, g)
  BY DEF InquiryNext, inquiryVars, CreateInquiry, DialogPostInquiry, EditInquiryRead,
     TransitionRead, RemoveInquiryRead, ConvertRead, BeginInquiry, PostLead, FindAgency,
     SwallowAgencyError, InsertLead, DialogSaveQuote, CreateAgencyRead, ChangeAgencyRead, WriteInquiry,
     InquiryAbandon
<1>6. QED
  BY <1>2, <1>3, <1>4, <1>5

\* "An agency named ... already exists" (agencies.service.ts create, AGENCY_NAME_CONFLICT): no
\* two agencies have one name if never two requests look up and insert one name at once and
\* staff rename none.  Removals, and requests with other names, overlap as they like.
THEOREM NamesApartOneByOne == InquirySpec /\ []OneNaming => []NamesApart
<1>1. InquiryInit => NamesInv
  BY InquiryAssumption DEF InquiryInit, NamesInv, NamesApart, Naming, At, Idle
<1>2. NamesInv => NamesApart
  BY DEF NamesInv
<1>3. InquiryInv /\ NamesInv /\ OneNaming /\ OneNaming' /\ [InquiryNext]_inquiryVars => NamesInv'
  BY NamesStayApart
<1>4. QED
  BY <1>1, <1>2, <1>3, InquiryInvariant, PTL DEF InquirySpec

-----------------------------------------------------------------------------
(* Arithmetic of prices *)

\* The quotient of a division, and what it leaves.
LEMMA Division ==
  ASSUME NEW a \in Nat, NEW b \in Nat \ {0}
  PROVE  /\ a \div b \in Nat
         /\ b * (a \div b) <= a /\ a < b * (a \div b) + b
  OBVIOUS

\* Rounding a quotient moves it by half at most.
LEMMA RoundWithin ==
  ASSUME NEW x \in Nat, NEW y \in Nat \ {0}
  PROVE  /\ RoundQuotient(x, y) \in Nat
         /\ 2 * (y * RoundQuotient(x, y) - x) <= y
         /\ -(2 * (y * RoundQuotient(x, y) - x)) <= y
<1> DEFINE a == 2 * x + y
           b == 2 * y
           q == a \div b
<1>1. a \in Nat /\ b \in Nat \ {0}
  OBVIOUS
<1>2. q \in Nat /\ b * q <= a /\ a < b * q + b
  <2> HIDE DEF a, b
  <2>1. QED
    BY <1>1, Division
<1>3. b * q = 2 * (y * q) /\ y * q \in Nat
  <2> HIDE DEF q
  <2>1. QED BY <1>2
<1>4. RoundQuotient(x, y) = q
  BY DEF RoundQuotient
<1> HIDE DEF q
<1> DEFINE m == y * q
<1>5. m \in Nat /\ 2 * m <= 2 * x + y /\ 2 * x + y < 2 * m + 2 * y
  BY <1>2, <1>3
<1> HIDE DEF m
<1>6. 2 * (m - x) <= y /\ -(2 * (m - x)) <= y
  BY <1>5
<1>7. QED
  BY <1>2, <1>4, <1>6 DEF m

\* An amount of whole dirhams stays.
LEMMA RoundWhole ==
  ASSUME NEW p \in Nat PROVE RoundQuotient(p * AedRate["AED"], Scale) = p
  BY DEF RoundQuotient, AedRate, Scale

LEMMA CeilPositive ==
  ASSUME NEW x \in Nat \ {0}, NEW y \in Nat \ {0}
  PROVE  CeilQuotient(x, y) \in Nat \ {0}
<1> DEFINE a == x + y - 1
           q == a \div y
<1>1. a \in Nat /\ a >= y
  OBVIOUS
<1>2. q \in Nat /\ a < y * q + y
  <2> HIDE DEF a
  <2>1. QED
    BY <1>1, Division
<1> HIDE DEF q
<1>3. q # 0
  BY <1>1, <1>2
<1>4. QED
  BY <1>2, <1>3 DEF CeilQuotient, q

\* The fields of an option.
LEMMA OptionIs ==
  ASSUME NEW o, HotelOption(o)
  PROVE  /\ o.currency \in DOMAIN AedRate /\ o.occupancyType \in DOMAIN Occupancy \cup {None}
         /\ \A f \in Amounts : o[f] \in Nat \cup {None}
         /\ \A f \in {"maxOccupancy", "paxCount", "nights", "rooms"} :
              o[f] \in (Nat \ {0}) \cup {None}
         /\ \A f \in OptionFields : o[f] \in FieldValues(f)
         /\ DOMAIN o = OptionFields
  BY DEF HotelOption, FieldValues, OptionFields, Amounts

\* A room holds someone.
LEMMA OccupancyPositive ==
  ASSUME NEW type \in DOMAIN Occupancy \cup {None} PROVE OccupancyToMax(type) \in Nat \ {0}
  BY PricingAssumption DEF OccupancyToMax, Occupancy

\* The intermediate values of Normalize.
Sharing(o, pax) == OrElse(o.paxCount, pax)
MaxOccupancy(o) == OrElse(o.maxOccupancy, OccupancyToMax(o.occupancyType))
Nights(o) == OrElse(o.nights, DefaultNights)
Rooms(o, pax) == RequiredRoomCount(Sharing(o, pax), MaxOccupancy(o), o.rooms)

LEMMA CountsPositive ==
  ASSUME NEW o, HotelOption(o), NEW pax \in Nat \ {0}
  PROVE  /\ Sharing(o, pax) \in Nat \ {0} /\ MaxOccupancy(o) \in Nat \ {0}
         /\ Nights(o) \in Nat \ {0} /\ Rooms(o, pax) \in Nat \ {0}
<1>1. /\ Sharing(o, pax) \in Nat \ {0} /\ MaxOccupancy(o) \in Nat \ {0}
      /\ Nights(o) \in Nat \ {0}
  BY OptionIs, OccupancyPositive DEF Sharing, MaxOccupancy, Nights, OrElse, DefaultNights
<1>2. CeilQuotient(Sharing(o, pax), MaxOccupancy(o)) \in Nat \ {0}
  BY <1>1, CeilPositive
<1>3. Rooms(o, pax) \in Nat \ {0}
  BY <1>2, OptionIs DEF Rooms, RequiredRoomCount
<1>4. QED
  BY <1>1, <1>3

LEMMA ConvertedNat ==
  ASSUME NEW x \in Nat, NEW c \in DOMAIN AedRate
  PROVE  Converted(x, c) = x * AedRate[c] /\ x * AedRate[c] \in Nat
  BY PricingAssumption DEF Converted, AedRate

LEMMA ConvertedNone == ASSUME NEW c PROVE Converted(None, c) = None
  BY DEF Converted

LEMMA PriceType ==
  ASSUME NEW o, HotelOption(o), NEW sharing \in Nat \ {0}, NEW k \in Nat \ {0}
  PROVE  PricePerNight(o, sharing, k) \in Nat \cup {None}
<1> DEFINE perNight == Converted(o.perNight, o.currency)
           total == Converted(o.total, o.currency)
           perPerson == Converted(o.perPerson, o.currency)
<1>1. perNight \in Nat \cup {None} /\ total \in Nat \cup {None} /\ perPerson \in Nat \cup {None}
  BY OptionIs, ConvertedNat, ConvertedNone DEF Amounts
<1>2. Scale \in Nat \ {0} /\ Scale * k \in Nat \ {0}
  BY DEF Scale
<1> HIDE DEF perNight, total, perPerson
<1>3. perNight # None => RoundQuotient(perNight, Scale) \in Nat
  BY <1>1, <1>2, RoundWithin
<1>4. total # None => RoundQuotient(total, Scale * k) \in Nat
  BY <1>1, <1>2, RoundWithin
<1>5. perPerson # None => RoundQuotient(perPerson * sharing, Scale * k) \in Nat
  <2>1. SUFFICES ASSUME perPerson \in Nat PROVE RoundQuotient(perPerson * sharing, Scale * k) \in Nat
    BY <1>1
  <2>2. perPerson * sharing \in Nat
    BY <2>1
  <2>3. QED
    BY <1>2, <2>2, RoundWithin
<1>6. QED
  BY <1>3, <1>4, <1>5 DEF PricePerNight, perNight, total, perPerson

\* What is settled: an option in dirhams that lacks no count, and whose total and price per
\* person are those of its price per night.
Settled(o, pax) ==
  /\ HotelOption(o)
  /\ o.currency = "AED"
  /\ o.maxOccupancy # None /\ o.nights # None /\ o.rooms # None
  /\ IF o.perNight = None
       THEN o.total = None /\ o.perPerson = None
       ELSE /\ o.total = o.perNight * o.nights * o.rooms
            /\ o.perPerson = RoundQuotient(o.total, Sharing(o, pax))

LEMMA NormalizeIs ==
  ASSUME NEW o, NEW pax
  PROVE  LET perNight == PricePerNight(o, Sharing(o, pax), Nights(o) * Rooms(o, pax))
             total == IF perNight = None THEN None ELSE perNight * Nights(o) * Rooms(o, pax)
         IN Normalize(o, pax) =
              [o EXCEPT !.currency = "AED", !.maxOccupancy = MaxOccupancy(o),
                        !.nights = Nights(o), !.rooms = Rooms(o, pax), !.perNight = perNight,
                        !.total = total,
                        !.perPerson = IF total = None THEN None
                                      ELSE RoundQuotient(total, Sharing(o, pax))]
  BY DEF Normalize, Sharing, MaxOccupancy, Nights, Rooms

\* A normalized option is settled.
LEMMA NormalizeSettles ==
  ASSUME NEW o, HotelOption(o), NEW pax \in Nat \ {0} PROVE Settled(Normalize(o, pax), pax)
<1> DEFINE sharing == Sharing(o, pax)
           nights == Nights(o)
           rooms == Rooms(o, pax)
           max == MaxOccupancy(o)
           perNight == PricePerNight(o, sharing, nights * rooms)
           total == IF perNight = None THEN None ELSE perNight * nights * rooms
           perPerson == IF total = None THEN None ELSE RoundQuotient(total, sharing)
           n == Normalize(o, pax)
<1>1. /\ sharing \in Nat \ {0} /\ nights \in Nat \ {0} /\ rooms \in Nat \ {0}
      /\ max \in Nat \ {0}
  BY CountsPositive
<1>2. n = [o EXCEPT !.currency = "AED", !.maxOccupancy = max, !.nights = nights, !.rooms = rooms,
                    !.perNight = perNight, !.total = total, !.perPerson = perPerson]
  BY NormalizeIs
<1>3. sharing = OrElse(o.paxCount, pax)
  BY DEF Sharing
<1> HIDE DEF sharing, nights, rooms, max
<1>4. nights * rooms \in Nat \ {0}
  BY <1>1
<1>5. perNight \in Nat \cup {None}
  BY <1>1, <1>4, PriceType
<1> HIDE DEF perNight
<1>6. total \in Nat \cup {None} /\ (perNight = None <=> total = None)
  <2>1. CASE perNight = None
    BY <2>1
  <2>2. CASE perNight \in Nat
    <3>1. perNight * nights * rooms \in Nat
      BY <1>1, <2>2
    <3>2. QED
      BY <2>2, <3>1, PricingAssumption
  <2>3. QED
    BY <1>5, <2>1, <2>2
<1>7. total # None => total = perNight * nights * rooms
  OBVIOUS
<1> HIDE DEF total
<1>8. perPerson \in Nat \cup {None}
  BY <1>1, <1>6, RoundWithin
<1> HIDE DEF perPerson
<1>9. DOMAIN o = OptionFields
  BY OptionIs
<1>10. /\ n.currency = "AED" /\ n.maxOccupancy = max /\ n.nights = nights /\ n.rooms = rooms
       /\ n.perNight = perNight /\ n.total = total /\ n.perPerson = perPerson
       /\ n.paxCount = o.paxCount /\ n.occupancyType = o.occupancyType
       /\ DOMAIN n = OptionFields
  BY <1>2, <1>9 DEF OptionFields
<1> HIDE DEF n
<1> USE DEF n
<1>11. n = [f \in OptionFields |-> n[f]]
  BY <1>2, <1>9
<1> HIDE DEF n
<1>12. HotelOption(n)
  <2>1. /\ n.currency \in FieldValues("currency")
        /\ n.occupancyType \in FieldValues("occupancyType")
        /\ n.paxCount \in FieldValues("paxCount")
    <3>1. "AED" \in FieldValues("currency")
      BY DEF FieldValues, AedRate, Amounts
    <3>2. o.occupancyType \in FieldValues("occupancyType") /\ o.paxCount \in FieldValues("paxCount")
      BY DEF HotelOption, OptionFields
    <3>3. QED
      BY <1>10, <3>1, <3>2
  <2>2. \A f \in Amounts : n[f] \in FieldValues(f)
    BY <1>5, <1>6, <1>8, <1>10 DEF FieldValues, Amounts
  <2>3. \A f \in {"maxOccupancy", "nights", "rooms"} : n[f] \in FieldValues(f)
    BY <1>1, <1>10 DEF FieldValues, Amounts
  <2>4. QED
    BY <1>11, <2>1, <2>2, <2>3 DEF HotelOption, OptionFields, Amounts
<1>13. Sharing(n, pax) = sharing
  BY <1>3, <1>10 DEF Sharing
<1>14. max # None /\ nights # None /\ rooms # None
  BY <1>1, PricingAssumption
<1>15. perPerson = IF total = None THEN None ELSE RoundQuotient(total, sharing)
  BY DEF perPerson
<1>16. Settled(n, pax)
  BY <1>6, <1>7, <1>10, <1>12, <1>13, <1>14, <1>15 DEF Settled
<1>17. QED
  BY <1>16 DEF n

\* Nothing of a settled option moves.
LEMMA SettledStays ==
  ASSUME NEW o, NEW pax \in Nat \ {0}, Settled(o, pax) PROVE Normalize(o, pax) = o
<1> DEFINE sharing == Sharing(o, pax)
           nights == Nights(o)
           rooms == Rooms(o, pax)
           max == MaxOccupancy(o)
           perNight == PricePerNight(o, sharing, nights * rooms)
           total == IF perNight = None THEN None ELSE perNight * nights * rooms
           perPerson == IF total = None THEN None ELSE RoundQuotient(total, sharing)
           n == Normalize(o, pax)
<1>1. n = [o EXCEPT !.currency = "AED", !.maxOccupancy = max, !.nights = nights, !.rooms = rooms,
                    !.perNight = perNight, !.total = total, !.perPerson = perPerson]
  BY NormalizeIs
<1>2. HotelOption(o) /\ o = [f \in OptionFields |-> o[f]] /\ o.currency = "AED"
  BY DEF Settled, HotelOption
<1>3. max = o.maxOccupancy /\ nights = o.nights /\ rooms = o.rooms
  BY DEF Settled, MaxOccupancy, Nights, Rooms, RequiredRoomCount, OrElse
<1>4. nights \in Nat \ {0} /\ rooms \in Nat \ {0} /\ sharing \in Nat \ {0}
  BY <1>2, CountsPositive
<1>5. perNight = o.perNight
  <2>1. CASE o.perNight = None
    BY <2>1, ConvertedNone DEF PricePerNight, Settled
  <2>2. CASE o.perNight \in Nat
    <3>1. Converted(o.perNight, o.currency) = o.perNight * AedRate["AED"]
      BY <1>2, <2>2, ConvertedNat DEF AedRate
    <3>2. o.perNight * AedRate["AED"] # None
      BY <2>2, PricingAssumption DEF AedRate
    <3>3. QED
      BY <2>2, <3>1, <3>2, RoundWhole DEF PricePerNight
  <2>3. QED
    BY <1>2, <2>1, <2>2, OptionIs DEF Amounts
<1> HIDE DEF perNight
<1>6. total = o.total
  BY <1>3, <1>5 DEF Settled
<1>7. perPerson = o.perPerson
  <2>1. CASE o.perNight = None
    BY <1>6, <2>1 DEF Settled
  <2>2. CASE o.perNight \in Nat
    <3>1. o.total = o.perNight * o.nights * o.rooms /\ o.perPerson = RoundQuotient(o.total, sharing)
      BY <2>2, PricingAssumption DEF Settled
    <3>2. o.total \in Nat
      BY <1>3, <1>4, <2>2, <3>1
    <3>3. QED
      BY <1>6, <3>1, <3>2, PricingAssumption
  <2>3. QED
    BY <1>2, <2>1, <2>2, OptionIs DEF Amounts
<1> HIDE DEF total, perPerson, max, nights, rooms
<1>8. QED
  BY <1>1, <1>2, <1>3, <1>5, <1>6, <1>7

\* The dialog's computation is the helper's, for an option that has a price per night.
LEMMA ExtractedSettled ==
  ASSUME NEW h \in Extractions, NEW pax \in Nat \ {0} PROVE Settled(Extracted(h, pax), pax)
<1> DEFINE sharing == Sharing(h, pax)
           nights == Nights(h)
           rooms == Rooms(h, pax)
           max == MaxOccupancy(h)
           total == h.perNight * nights * rooms
           perPerson == RoundQuotient(total, sharing)
           e == Extracted(h, pax)
<1>1. HotelOption(h) /\ h.perNight # None
  BY PricingAssumption
<1>2. /\ sharing \in Nat \ {0} /\ nights \in Nat \ {0} /\ rooms \in Nat \ {0}
      /\ max \in Nat \ {0}
  BY <1>1, CountsPositive
<1>3. e = [h EXCEPT !.currency = "AED", !.maxOccupancy = max, !.nights = nights, !.rooms = rooms,
                    !.total = total, !.perPerson = perPerson]
  BY DEF Extracted, Sharing, MaxOccupancy, Nights, Rooms
<1>4. sharing = OrElse(h.paxCount, pax)
  BY DEF Sharing
<1> HIDE DEF sharing, nights, rooms, max
<1>5. h.perNight \in Nat
  BY <1>1, OptionIs DEF Amounts
<1>6. total \in Nat /\ total = h.perNight * nights * rooms
  BY <1>2, <1>5
<1> HIDE DEF total
<1>7. perPerson \in Nat /\ perPerson = RoundQuotient(total, sharing)
  BY <1>2, <1>6, RoundWithin
<1> HIDE DEF perPerson
<1>8. DOMAIN h = OptionFields
  BY <1>1, OptionIs
<1>9. /\ e.currency = "AED" /\ e.maxOccupancy = max /\ e.nights = nights /\ e.rooms = rooms
      /\ e.total = total /\ e.perPerson = perPerson
      /\ e.perNight = h.perNight /\ e.paxCount = h.paxCount /\ e.occupancyType = h.occupancyType
  BY <1>3, <1>8 DEF OptionFields
<1>10. e = [f \in OptionFields |-> e[f]]
  BY <1>3, <1>8
<1> HIDE DEF e
<1>11. HotelOption(e)
  <2>1. /\ e.currency \in FieldValues("currency")
        /\ e.occupancyType \in FieldValues("occupancyType")
        /\ e.paxCount \in FieldValues("paxCount")
    <3>1. "AED" \in FieldValues("currency")
      BY DEF FieldValues, AedRate, Amounts
    <3>2. h.occupancyType \in FieldValues("occupancyType") /\ h.paxCount \in FieldValues("paxCount")
      BY <1>1 DEF HotelOption, OptionFields
    <3>3. QED
      BY <1>9, <3>1, <3>2
  <2>2. \A f \in Amounts : e[f] \in FieldValues(f)
    BY <1>5, <1>6, <1>7, <1>9 DEF FieldValues, Amounts
  <2>3. \A f \in {"maxOccupancy", "nights", "rooms"} : e[f] \in FieldValues(f)
    BY <1>2, <1>9 DEF FieldValues, Amounts
  <2>4. QED
    BY <1>10, <2>1, <2>2, <2>3 DEF HotelOption, OptionFields, Amounts
<1>12. Sharing(e, pax) = sharing
  BY <1>4, <1>9 DEF Sharing
<1>13. max # None /\ nights # None /\ rooms # None /\ h.perNight # None
  BY <1>1, <1>2, PricingAssumption
<1>14. Settled(e, pax)
  BY <1>6, <1>7, <1>9, <1>11, <1>12, <1>13 DEF Settled
<1>15. QED
  BY <1>14 DEF e

\* What the editor and the dialog make of options are options.
LEMMA PatchedOption ==
  ASSUME NEW o, HotelOption(o), NEW patch \in RowPatches PROVE HotelOption(Patched(o, patch))
<1> DEFINE p == Patched(o, patch)
<1>1. \A f \in OptionFields : p[f] = IF f \in DOMAIN patch THEN patch[f] ELSE o[f]
  BY DEF Patched
<1>2. p = [f \in OptionFields |-> p[f]]
  BY DEF Patched
<1> HIDE DEF p
<1>3. \A f \in OptionFields : p[f] \in FieldValues(f)
  BY <1>1, PricingAssumption DEF HotelOption
<1>4. HotelOption(p)
  BY <1>2, <1>3 DEF HotelOption
<1>5. QED
  BY <1>4 DEF p

LEMMA EmptyIsOption == HotelOption(EmptyOption)
<1>1. \A f \in OptionFields : EmptyOption[f] \in FieldValues(f)
  BY DEF EmptyOption, OptionFields, FieldValues, Amounts, AedRate
<1>2. QED
  BY <1>1 DEF HotelOption, EmptyOption

LEMMA CopyIsOption ==
  ASSUME NEW o, HotelOption(o)
  PROVE  HotelOption([o EXCEPT !.perNight = None, !.paxCount = None, !.occupancyType = "DOUBLE"])
<1> DEFINE c == [o EXCEPT !.perNight = None, !.paxCount = None, !.occupancyType = "DOUBLE"]
<1>1. DOMAIN o = OptionFields
  BY OptionIs
<1>2. c = [f \in OptionFields |-> c[f]]
  BY <1>1
<1>3. \A f \in OptionFields :
        c[f] = CASE f \in {"perNight", "paxCount"} -> None [] f = "occupancyType" -> "DOUBLE"
                 [] OTHER -> o[f]
  BY <1>1 DEF OptionFields
<1> HIDE DEF c
<1>4. \A f \in OptionFields : c[f] \in FieldValues(f)
  <2> TAKE f \in OptionFields
  <2>1. CASE f = "perNight"
    BY <1>3, <2>1 DEF FieldValues, Amounts
  <2>2. CASE f = "paxCount"
    BY <1>3, <2>2 DEF FieldValues, Amounts
  <2>3. CASE f = "occupancyType"
    BY <1>3, <2>3 DEF FieldValues, Amounts, Occupancy
  <2>4. CASE f \notin {"perNight", "paxCount", "occupancyType"}
    BY <1>3, <2>4 DEF HotelOption
  <2>5. QED
    BY <2>1, <2>2, <2>3, <2>4
<1>5. HotelOption(c)
  BY <1>2, <1>4 DEF HotelOption
<1>6. QED
  BY <1>5 DEF c

-----------------------------------------------------------------------------
(* The form and the saved lead *)

\* The inductive invariant: what is saved is settled, what the form shows are options.
QuoteInv ==
  /\ QuoteTypeOK
  /\ savedFor # None => \A r \in HotelRows : stored[r] # None => Settled(stored[r], savedFor)

LEMMA QuoteInitSound == QuoteInit => QuoteInv
<1> SUFFICES ASSUME QuoteInit PROVE QuoteInv
  OBVIOUS
<1>1. party \in Parties /\ form = stored
  BY DEF QuoteInit
<1>2. CASE /\ savedFor \in Parties
           /\ stored \in [HotelRows -> {None} \cup {Extracted(h, savedFor) : h \in Extractions}]
  <2>1. savedFor \in Nat \ {0}
    BY <1>2, PricingAssumption
  <2>2. \A r \in HotelRows : stored[r] = None \/ Settled(stored[r], savedFor)
    BY <1>2, <2>1, ExtractedSettled
  <2>3. stored = [r \in HotelRows |-> stored[r]]
    BY <1>2
  <2>4. QED
    BY <1>1, <1>2, <2>2, <2>3 DEF QuoteInv, QuoteTypeOK, Settled
<1>3. CASE savedFor = None /\ stored \in [HotelRows -> {None} \cup StoredOptions]
  <2>1. \A r \in HotelRows : stored[r] = None \/ HotelOption(stored[r])
    BY <1>3, PricingAssumption
  <2>2. stored = [r \in HotelRows |-> stored[r]]
    BY <1>3
  <2>3. QED
    BY <1>1, <1>3, <2>1, <2>2 DEF QuoteInv, QuoteTypeOK
<1>4. QED
  BY <1>2, <1>3 DEF QuoteInit

\* An edit of the form that puts an option, or nothing, into a row.
LEMMA EditSound ==
  ASSUME QuoteInv, NEW r \in HotelRows, NEW o, o = None \/ HotelOption(o),
         form' = [form EXCEPT ![r] = o], UNCHANGED <<stored, party, savedFor>>
  PROVE  QuoteInv'
<1>1. /\ form = [s \in HotelRows |-> form[s]]
      /\ \A s \in HotelRows : form[s] = None \/ HotelOption(form[s])
  BY DEF QuoteInv, QuoteTypeOK
<1>2. form' = [s \in HotelRows |-> form'[s]] /\ \A s \in HotelRows : form'[s] = IF s = r THEN o ELSE form[s]
  BY <1>1
<1>3. \A s \in HotelRows : form'[s] = None \/ HotelOption(form'[s])
  BY <1>1, <1>2
<1>4. QED
  BY <1>2, <1>3 DEF QuoteInv, QuoteTypeOK

LEMMA QuoteNextSound == QuoteInv /\ [QuoteNext]_quoteVars => QuoteInv'
<1> SUFFICES ASSUME QuoteInv, [QuoteNext]_quoteVars PROVE QuoteInv'
  OBVIOUS
<1>1. /\ party \in Nat \ {0}
      /\ \A r \in HotelRows : form[r] # None => HotelOption(form[r])
  BY PricingAssumption DEF QuoteInv, QuoteTypeOK
<1>2. \A o : HotelOption(o) => Settled(Normalize(o, party), party) /\ HotelOption(Normalize(o, party))
  BY <1>1, NormalizeSettles DEF Settled
<1>3. ASSUME NEW r \in HotelRows, UpdateRoom(r) PROVE QuoteInv'
  <2>1. PICK patch \in RowPatches :
          form' = [form EXCEPT ![r] = Normalize(Patched(form[r], patch), party)]
    BY <1>3 DEF UpdateRoom
  <2>2. HotelOption(Patched(form[r], patch))
    BY <1>1, <1>3, PatchedOption DEF UpdateRoom
  <2>3. QED
    BY <1>2, <1>3, <2>1, <2>2, EditSound DEF UpdateRoom
<1>4. ASSUME NEW r \in HotelRows, AddOption(r) PROVE QuoteInv'
  BY <1>2, <1>4, EmptyIsOption, EditSound DEF AddOption
<1>5. ASSUME NEW r \in HotelRows, NEW s \in HotelRows, AddRoomType(s, r) PROVE QuoteInv'
  <2>1. HotelOption(form[s])
    BY <1>1, <1>5 DEF AddRoomType
  <2>2. QED
    BY <1>2, <1>5, <2>1, CopyIsOption, EditSound DEF AddRoomType
<1>6. ASSUME NEW r \in HotelRows, RemoveRoom(r) PROVE QuoteInv'
  BY <1>6, EditSound DEF RemoveRoom
<1>7. CASE ChangeParty
  BY <1>7 DEF ChangeParty, QuoteInv, QuoteTypeOK
<1>8. CASE SaveLead
  <2>1. /\ stored' = [r \in HotelRows |-> stored'[r]]
        /\ \A r \in HotelRows :
             stored'[r] = IF form[r] = None THEN None ELSE Normalize(form[r], party)
    BY <1>8 DEF SaveLead, Normalized
  <2>2. \A r \in HotelRows : stored'[r] # None => Settled(stored'[r], party) /\ HotelOption(stored'[r])
    BY <1>1, <1>2, <2>1
  <2>3. form' = stored' /\ savedFor' = party /\ party' = party /\ party \in Parties
    BY <1>8 DEF SaveLead, QuoteInv, QuoteTypeOK
  <2>4. QED
    BY <2>1, <2>2, <2>3 DEF QuoteInv, QuoteTypeOK
<1>9. CASE Reseed
  BY <1>9 DEF Reseed, QuoteInv, QuoteTypeOK
<1>10. CASE UNCHANGED quoteVars
  BY <1>10 DEF quoteVars, QuoteInv, QuoteTypeOK
<1>11. QED
  BY <1>3, <1>4, <1>5, <1>6, <1>7, <1>8, <1>9, <1>10 DEF QuoteNext

LEMMA QuoteInductive == QuoteSpec => []QuoteInv
  BY QuoteInitSound, QuoteNextSound, PTL DEF QuoteSpec

\* What a price per night that rounds x over k room-nights comes to is off by half a dirham
\* per room-night at most.
LEMMA SpreadWithin ==
  ASSUME NEW x \in Nat, NEW nights \in Nat \ {0}, NEW rooms \in Nat \ {0}, NEW q,
         q = RoundQuotient(x, Scale * (nights * rooms))
  PROVE  LET moved == q * nights * rooms * Scale - x
             slack == Scale * nights * rooms
         IN 2 * moved <= slack /\ -(2 * moved) <= slack
<1> DEFINE y == Scale * (nights * rooms)
<1>1. nights * rooms \in Nat \ {0}
  OBVIOUS
<1>2. y \in Nat \ {0}
  BY <1>1 DEF Scale
<1>3. y = Scale * nights * rooms
  BY DEF Scale
<1> HIDE DEF y
<1>4. /\ q \in Nat
      /\ 2 * (y * q - x) <= y /\ -(2 * (y * q - x)) <= y
  BY <1>2, RoundWithin DEF y
<1>5. q * nights * rooms * Scale = y * q
  <2>1. PICK k \in Nat : k = nights * rooms
    BY <1>1
  <2>2. q * nights * rooms = q * k
    BY <1>4, <2>1
  <2>3. y * q = (Scale * k) * q
    BY <2>1 DEF y
  <2>4. q * k * Scale = (Scale * k) * q
    BY <1>4 DEF Scale
  <2>5. QED
    BY <2>2, <2>3, <2>4
<1>6. QED
  BY <1>3, <1>4, <1>5

\* A price per night, rounded, over all room-nights.
LEMMA NightsWithin ==
  ASSUME NEW x \in Nat, NEW nights \in Nat \ {0}, NEW rooms \in Nat \ {0}, NEW q,
         q = RoundQuotient(x, Scale)
  PROVE  LET moved == q * nights * rooms * Scale - x * nights * rooms
             slack == Scale * nights * rooms
         IN 2 * moved <= slack /\ -(2 * moved) <= slack
<1>1. PICK k \in Nat : k = nights * rooms
  OBVIOUS
<1> DEFINE d == Scale * q - x
<1>2. q \in Nat /\ 2 * d <= Scale /\ -(2 * d) <= Scale
  BY RoundWithin DEF Scale
<1>3. d \in Int
  BY <1>2 DEF Scale
<1>4. q * nights * rooms * Scale - x * nights * rooms = d * k
  <2>1. q * nights * rooms = q * k /\ x * nights * rooms = x * k
    BY <1>1, <1>2
  <2>2. q * k * Scale - x * k = (Scale * q - x) * k
    BY <1>2 DEF Scale
  <2>3. QED
    BY <2>1, <2>2
<1>5. Scale * nights * rooms = Scale * k
  BY <1>1 DEF Scale
<1> HIDE DEF d
<1>6. 2 * (d * k) <= Scale * k /\ -(2 * (d * k)) <= Scale * k
  <2>1. \A a \in Int, b \in Nat : a <= 10000 => a * b <= 10000 * b
    OBVIOUS
  <2>2. (2 * d) * k <= Scale * k /\ (-(2 * d)) * k <= Scale * k
    BY <1>2, <1>3, <2>1 DEF Scale
  <2>3. (2 * d) * k = 2 * (d * k) /\ (-(2 * d)) * k = -(2 * (d * k))
    BY <1>3
  <2>4. QED
    BY <2>2, <2>3
<1>7. QED
  BY <1>4, <1>5, <1>6

\* Normalizing an option keeps its price, whichever of the three it was given as.
LEMMA PriceKept ==
  ASSUME NEW o, HotelOption(o), NEW pax \in Nat \ {0}, Cost(o, pax) # None
  PROVE  LET n == Normalize(o, pax)
             moved == n.total * Scale - Cost(o, pax)
             slack == Scale * n.nights * n.rooms
         IN 2 * moved <= slack /\ -(2 * moved) <= slack
<1> DEFINE sharing == Sharing(o, pax)
           nights == Nights(o)
           rooms == Rooms(o, pax)
           perNight == PricePerNight(o, sharing, nights * rooms)
           n == Normalize(o, pax)
           c == o.currency
<1>1. sharing \in Nat \ {0} /\ nights \in Nat \ {0} /\ rooms \in Nat \ {0}
  BY CountsPositive
<1>2. DOMAIN o = OptionFields /\ c \in DOMAIN AedRate
  BY OptionIs
<1>3. /\ n.nights = nights /\ n.rooms = rooms
      /\ n.total = IF perNight = None THEN None ELSE perNight * nights * rooms
  BY <1>2, NormalizeIs DEF OptionFields
<1>4. sharing = OrElse(o.paxCount, pax)
  BY DEF Sharing
<1>5. /\ Cost(o, pax) =
           IF o.perNight # None THEN o.perNight * AedRate[c] * nights * rooms
           ELSE IF o.total # None THEN o.total * AedRate[c]
           ELSE IF o.perPerson # None THEN o.perPerson * AedRate[c] * sharing
           ELSE None
  BY <1>3, <1>4 DEF Cost
<1> HIDE DEF n, sharing, nights, rooms, c
<1>6. /\ \A f \in Amounts : o[f] \in Nat \cup {None}
      /\ c = o.currency
  BY OptionIs DEF c
<1>7. CASE o.perNight # None
  <2>1. PICK x \in Nat : x = o.perNight * AedRate[c] /\ Converted(o.perNight, c) = x
    BY <1>2, <1>6, <1>7, ConvertedNat DEF Amounts
  <2>2. perNight = RoundQuotient(x, Scale)
    BY <1>6, <2>1, PricingAssumption DEF PricePerNight
  <2>3. perNight \in Nat
    BY <2>2, RoundWithin DEF Scale
  <2>4. n.total = perNight * nights * rooms
    BY <1>3, <2>3, PricingAssumption
  <2>5. Cost(o, pax) = x * nights * rooms
    BY <1>5, <1>7, <2>1
  <2> HIDE DEF perNight
  <2>6. QED
    BY <1>1, <1>3, <2>1, <2>2, <2>4, <2>5, NightsWithin DEF n
<1>8. CASE o.perNight = None /\ o.total # None
  <2>1. PICK x \in Nat : x = o.total * AedRate[c] /\ Converted(o.total, c) = x
    BY <1>2, <1>6, <1>8, ConvertedNat DEF Amounts
  <2>2. perNight = RoundQuotient(x, Scale * (nights * rooms))
    BY <1>6, <1>8, <2>1, ConvertedNone, PricingAssumption DEF PricePerNight
  <2> HIDE DEF perNight
  <2>3. perNight \in Nat
    <3>1. Scale * (nights * rooms) \in Nat \ {0}
      BY <1>1 DEF Scale
    <3>2. QED
      BY <2>2, <3>1, RoundWithin
  <2>4. n.total = perNight * nights * rooms
    BY <1>3, <2>3, PricingAssumption
  <2>5. Cost(o, pax) = x
    BY <1>5, <1>8, <2>1
  <2>6. QED
    BY <1>1, <1>3, <2>1, <2>2, <2>4, <2>5, SpreadWithin DEF n
<1>9. CASE o.perNight = None /\ o.total = None
  <2>1. o.perPerson # None
    BY <1>5, <1>9
  <2>2. PICK y \in Nat : y = o.perPerson * AedRate[c] /\ Converted(o.perPerson, c) = y
    BY <1>2, <1>6, <2>1, ConvertedNat DEF Amounts
  <2>3. PICK x \in Nat : x = y * sharing
    BY <1>1
  <2>4. perNight = RoundQuotient(x, Scale * (nights * rooms))
    BY <1>6, <1>9, <2>2, <2>3, ConvertedNone, PricingAssumption DEF PricePerNight
  <2> HIDE DEF perNight
  <2>5. perNight \in Nat
    <3>1. Scale * (nights * rooms) \in Nat \ {0}
      BY <1>1 DEF Scale
    <3>2. QED
      BY <2>4, <3>1, RoundWithin
  <2>6. n.total = perNight * nights * rooms
    BY <1>3, <2>5, PricingAssumption
  <2>7. Cost(o, pax) = x
    BY <1>5, <1>9, <2>1, <2>2, <2>3
  <2>8. QED
    BY <1>1, <1>3, <2>3, <2>4, <2>6, <2>7, SpreadWithin DEF n
<1>10. QED
  BY <1>7, <1>8, <1>9

-----------------------------------------------------------------------------
(* What holds of prices *)

\* The form and the lead hold options that the server accepts (LeadHotelOptionDto).
THEOREM QuoteTypeCorrect == QuoteSpec => []QuoteTypeOK
<1>1. QuoteInv => QuoteTypeOK
  BY DEF QuoteInv
<1>2. QED
  BY <1>1, QuoteInductive, PTL

\* What is saved is settled: the create dialog and the shared helper compute the same prices,
\* and opening a lead and saving it unedited changes none of them (normalizeHotelOption in
\* lead-pricing.ts, calcHotelOption in LeadCreateDialog.tsx), for any options whatever.
THEOREM SavedPricesSettle == QuoteSpec => []StoredIsSettled
<1>1. QuoteInv => StoredIsSettled
  <2> SUFFICES ASSUME QuoteInv, savedFor # None, NEW r \in HotelRows, stored[r] # None
               PROVE  Normalize(stored[r], savedFor) = stored[r]
    BY DEF StoredIsSettled
  <2>1. savedFor \in Nat \ {0}
    BY PricingAssumption DEF QuoteInv, QuoteTypeOK
  <2>2. QED
    BY <2>1, SettledStays DEF QuoteInv
<1>2. QED
  BY <1>1, QuoteInductive, PTL

\* A save moves the price of no row by more than half a dirham per room-night, whichever of
\* its prices the row carries and in whichever currency (normalizeHotelOption).
THEOREM SavesKeepPrices == QuoteSpec => SaveKeepsPrices
<1>1. QuoteInv /\ [QuoteNext]_quoteVars =>
        [SaveLead =>
           \A r \in HotelRows : form[r] # None /\ Cost(form[r], party) # None =>
             LET moved == stored'[r].total * Scale - Cost(form[r], party)
                 slack == Scale * stored'[r].nights * stored'[r].rooms
             IN 2 * moved <= slack /\ -(2 * moved) <= slack]_quoteVars
  <2> SUFFICES ASSUME QuoteInv, SaveLead, NEW r \in HotelRows,
                      form[r] # None, Cost(form[r], party) # None
               PROVE  LET moved == stored'[r].total * Scale - Cost(form[r], party)
                          slack == Scale * stored'[r].nights * stored'[r].rooms
                      IN 2 * moved <= slack /\ -(2 * moved) <= slack
    OBVIOUS
  <2>1. stored'[r] = Normalize(form[r], party)
    BY DEF SaveLead, Normalized
  <2>2. HotelOption(form[r]) /\ party \in Nat \ {0}
    BY PricingAssumption DEF QuoteInv, QuoteTypeOK
  <2>3. QED
    BY <2>1, <2>2, PriceKept
<1>2. QED
  BY <1>1, QuoteInductive, PTL DEF QuoteSpec, SaveKeepsPrices

-----------------------------------------------------------------------------
(***************************************************************************)
(* Lists.  A filtered or concatenated array is described by the positions  *)
(* it takes its elements from: each of a set of positions once (Picks),    *)
(* for a filter in their order (Rising).                                   *)
(***************************************************************************)

\* e[1], ..., e[m] are the positions in Q, each once.
Picks(e, m, Q) ==
  /\ e \in [1..m -> Q]
  /\ \A q \in Q : \E k \in 1..m : e[k] = q
  /\ \A j, k \in 1..m : e[j] = e[k] => j = k

Rising(e, m) == \A j, k \in 1..m : j < k => e[j] < e[k]

\* The list t takes from s the elements at the positions in Q, in the order of e.
Enumerates(t, s, Q, e) ==
  /\ Picks(e, Len(t), Q)
  /\ \A k \in 1..Len(t) : t[k] = s[e[k]]

\* The same, in the order of the positions if sorted is true.
Lists(t, s, Q, sorted) == \E e : Enumerates(t, s, Q, e) /\ (sorted => Rising(e, Len(t)))

LEMMA SmallestNumber ==
  ASSUME NEW N \in SUBSET Nat, N # {}
  PROVE  \E n \in N : \A m \in N : n <= m
<1> DEFINE R == {ss \in Nat \X Nat : ss[1] < ss[2]}
<1>1. IsWellFoundedOn(R, Nat)
  BY NatLessThanWellFounded DEF OpToRel
<1> HIDE DEF R
<1>2. PICK n \in N : \A m \in N : ~(<<m, n>> \in R)
  BY <1>1, WFMin
<1>3. \A m \in N : n <= m
  <2> TAKE m \in N
  <2>1. m < n => <<m, n>> \in R
    BY DEF R
  <2>2. QED
    BY <1>2, <2>1
<1>4. QED
  BY <1>3

LEMMA Induction ==
  ASSUME NEW T, 0 \in T, \A n \in Nat : n \in T => n + 1 \in T
  PROVE  Nat \subseteq T
<1>1. SUFFICES ASSUME Nat \ T # {} PROVE FALSE
  OBVIOUS
<1>2. PICK n \in Nat \ T : \A m \in Nat \ T : n <= m
  BY <1>1, SmallestNumber
<1>3. n - 1 \in Nat /\ n - 1 \notin T
  BY <1>2
<1>4. QED
  BY <1>2, <1>3

\* The function that Kept defines, up to position N.
IsKept(g, s, P, N) ==
  g = [n \in 0..N |-> IF n = 0 THEN <<>>
                      ELSE IF n \in P THEN Append(g[n - 1], s[n])
                      ELSE g[n - 1]]

LEMMA KeptExists ==
  ASSUME NEW s, NEW P, NEW N \in Nat
  PROVE  \E g : IsKept(g, s, P, N)
<1> DEFINE T == {n \in Nat : \E g : IsKept(g, s, P, n)}
<1>1. 0 \in T
  <2>1. IsKept([n \in 0..0 |-> <<>>], s, P, 0)
    BY DEF IsKept
  <2>2. QED
    BY <2>1
<1>2. ASSUME NEW n \in Nat, n \in T PROVE n + 1 \in T
  <2>1. PICK g : IsKept(g, s, P, n)
    BY <1>2
  <2> DEFINE last == IF n + 1 \in P THEN Append(g[n], s[n + 1]) ELSE g[n]
             h == [i \in 0..(n + 1) |-> IF i = n + 1 THEN last ELSE g[i]]
  <2>2. \A i \in 0..n : h[i] = g[i]
    OBVIOUS
  <2>3. \A i \in 0..n : g[i] = IF i = 0 THEN <<>>
                               ELSE IF i \in P THEN Append(g[i - 1], s[i])
                               ELSE g[i - 1]
    BY <2>1 DEF IsKept
  <2>4. \A i \in 0..(n + 1) : h[i] = IF i = 0 THEN <<>>
                                     ELSE IF i \in P THEN Append(h[i - 1], s[i])
                                     ELSE h[i - 1]
    <3> TAKE i \in 0..(n + 1)
    <3>1. CASE i = n + 1
      <4>1. h[i] = last /\ h[i - 1] = g[n] /\ i # 0
        BY <3>1
      <4>2. QED
        BY <3>1, <4>1
    <3>2. CASE i # n + 1
      <4>1. i \in 0..n /\ (i # 0 => i - 1 \in 0..n)
        BY <3>2
      <4> HIDE DEF h
      <4>2. QED
        BY <2>2, <2>3, <4>1
    <3>3. QED
      BY <3>1, <3>2
  <2>5. h = [i \in 0..(n + 1) |-> h[i]]
    OBVIOUS
  <2> HIDE DEF h
  <2>6. IsKept(h, s, P, n + 1)
    BY <2>4, <2>5 DEF IsKept
  <2>7. QED
    BY <2>6
<1> HIDE DEF T
<1>3. N \in T
  BY <1>1, <1>2, Induction
<1>4. QED
  BY <1>3 DEF T

LEMMA KeptIs ==
  ASSUME NEW S, NEW s \in Seq(S), NEW P
  PROVE  \E g : IsKept(g, s, P, Len(s)) /\ Kept(s, P) = g[Len(s)]
<1>1. Len(s) \in Nat
  OBVIOUS
<1>2. \E g : IsKept(g, s, P, Len(s))
  BY <1>1, KeptExists
<1> DEFINE c == CHOOSE g : IsKept(g, s, P, Len(s))
<1>3. IsKept(c, s, P, Len(s))
  BY <1>2
<1>4. Kept(s, P) = c[Len(s)]
  BY DEF Kept, IsKept
<1>5. QED
  BY <1>3, <1>4

\* One element more.
LEMMA PickOneMore ==
  ASSUME NEW S, NEW s \in Seq(S), NEW t \in Seq(S), NEW Q \in SUBSET Nat, NEW e,
         Enumerates(t, s, Q, e), Rising(e, Len(t)),
         NEW n \in DOMAIN s, \A q \in Q : q < n
  PROVE  \E f : Enumerates(Append(t, s[n]), s, Q \cup {n}, f) /\ Rising(f, Len(t) + 1)
<1> DEFINE m == Len(t)
           u == Append(t, s[n])
           f == [k \in 1..(m + 1) |-> IF k = m + 1 THEN n ELSE e[k]]
<1>1. m \in Nat /\ Len(u) = m + 1 /\ s[n] \in S /\ n \in Nat
  OBVIOUS
<1>2. u[m + 1] = s[n] /\ \A k \in 1..m : u[k] = t[k]
  OBVIOUS
<1>3. e \in [1..m -> Q] /\ \A k \in 1..m : e[k] \in Q /\ e[k] \in Nat /\ e[k] < n
  <2>1. e \in [1..m -> Q]
    BY DEF Enumerates, Picks
  <2> HIDE DEF m
  <2>2. \A k \in 1..m : e[k] \in Q
    BY <2>1
  <2>3. QED
    BY <2>1, <2>2
<1> HIDE DEF u
<1>4. \A k \in 1..(m + 1) : k = m + 1 \/ k \in 1..m
  BY <1>1
<1>5. f[m + 1] = n /\ \A k \in 1..m : f[k] = e[k]
  BY <1>1
<1>6. f \in [1..(m + 1) -> Q \cup {n}]
  BY <1>1, <1>3
<1> HIDE DEF f, m
<1>7. \A q \in Q \cup {n} : \E k \in 1..(m + 1) : f[k] = q
  <2> TAKE q \in Q \cup {n}
  <2>1. CASE q = n
    BY <1>1, <1>5, <2>1
  <2>2. CASE q \in Q
    <3>1. PICK k \in 1..m : e[k] = q
      BY <2>2 DEF Enumerates, Picks, m
    <3>2. k \in 1..(m + 1) /\ f[k] = q
      BY <1>1, <1>5, <3>1
    <3>3. QED
      BY <3>2
  <2>3. QED
    BY <2>1, <2>2
<1>8. \A j, k \in 1..(m + 1) : f[j] = f[k] => j = k
  <2>1. \A j, k \in 1..m : e[j] = e[k] => j = k
    BY DEF Enumerates, Picks, m
  <2>2. QED
    BY <1>3, <1>4, <1>5, <2>1
<1>9. \A j, k \in 1..(m + 1) : j < k => f[j] < f[k]
  <2>1. \A j, k \in 1..m : j < k => e[j] < e[k]
    BY DEF Rising, m
  <2>2. \A j, k \in 1..(m + 1) : j < k => j \in 1..m
    BY <1>1
  <2>3. QED
    BY <1>3, <1>4, <1>5, <2>1, <2>2
<1>10. \A k \in 1..(m + 1) : u[k] = s[f[k]]
  <2>1. \A k \in 1..m : t[k] = s[e[k]]
    BY DEF Enumerates, m
  <2>2. QED
    BY <1>2, <1>4, <1>5, <2>1
<1>11. Enumerates(u, s, Q \cup {n}, f) /\ Rising(f, m + 1)
  BY <1>1, <1>6, <1>7, <1>8, <1>9, <1>10 DEF Enumerates, Picks, Rising
<1>12. QED
  BY <1>11 DEF u, m

\* What a filter has kept of the first n elements.
KeptSoFar(t, s, P, n) ==
  \E e : Enumerates(t, s, P \cap (1..n), e) /\ Rising(e, Len(t))

\* A filter keeps the elements at its positions, each once and in their order.
LEMMA KeptPicks ==
  ASSUME NEW S, NEW s \in Seq(S), NEW P
  PROVE  /\ Kept(s, P) \in Seq(S)
         /\ \E e : /\ Enumerates(Kept(s, P), s, P \cap DOMAIN s, e)
                  /\ Rising(e, Len(Kept(s, P)))
<1>1. PICK g : IsKept(g, s, P, Len(s)) /\ Kept(s, P) = g[Len(s)]
  BY KeptIs
<1> DEFINE T == {n \in Nat : n <= Len(s) => g[n] \in Seq(S) /\ KeptSoFar(g[n], s, P, n)}
<1>2. Len(s) \in Nat /\ DOMAIN s = 1..Len(s)
  OBVIOUS
<1>3. \A n \in 0..Len(s) : g[n] = IF n = 0 THEN <<>>
                                  ELSE IF n \in P THEN Append(g[n - 1], s[n])
                                  ELSE g[n - 1]
  BY <1>1 DEF IsKept
<1>4. 0 \in T
  <2>1. g[0] = <<>> /\ P \cap (1..0) = {}
    BY <1>2, <1>3
  <2>2. Enumerates(<<>>, s, {}, <<>>) /\ Rising(<<>>, Len(<<>>))
    BY DEF Enumerates, Picks, Rising
  <2>3. KeptSoFar(g[0], s, P, 0)
    BY <2>1, <2>2 DEF KeptSoFar
  <2>4. g[0] \in Seq(S)
    <3>1. <<>> \in Seq(S)
      OBVIOUS
    <3>2. QED
      BY <2>1, <3>1
  <2>5. QED
    BY <2>3, <2>4
<1>5. ASSUME NEW n \in Nat, n \in T PROVE n + 1 \in T
  <2> SUFFICES ASSUME n + 1 <= Len(s)
               PROVE  g[n + 1] \in Seq(S) /\ KeptSoFar(g[n + 1], s, P, n + 1)
    OBVIOUS
  <2>1. /\ g[n] \in Seq(S) /\ KeptSoFar(g[n], s, P, n)
        /\ n + 1 \in DOMAIN s /\ n + 1 \in 0..Len(s)
    BY <1>2, <1>5
  <2>2. PICK e : Enumerates(g[n], s, P \cap (1..n), e) /\ Rising(e, Len(g[n]))
    BY <2>1 DEF KeptSoFar
  <2>3. CASE n + 1 \in P
    <3>1. g[n + 1] = Append(g[n], s[n + 1])
      <4>1. (n + 1) - 1 = n /\ n + 1 # 0
        OBVIOUS
      <4>2. QED
        BY <1>3, <2>1, <2>3, <4>1
    <3>2. P \cap (1..(n + 1)) = (P \cap (1..n)) \cup {n + 1}
      BY <2>3
    <3>3. P \cap (1..n) \in SUBSET Nat /\ \A q \in P \cap (1..n) : q < n + 1
      OBVIOUS
    <3>4. /\ s[n + 1] \in S /\ Append(g[n], s[n + 1]) \in Seq(S)
          /\ Len(Append(g[n], s[n + 1])) = Len(g[n]) + 1
      BY <2>1
    <3>5. \E f : /\ Enumerates(Append(g[n], s[n + 1]), s, (P \cap (1..n)) \cup {n + 1}, f)
                 /\ Rising(f, Len(g[n]) + 1)
      BY <2>1, <2>2, <3>3, PickOneMore
    <3>6. QED
      BY <3>1, <3>2, <3>4, <3>5 DEF KeptSoFar
  <2>4. CASE n + 1 \notin P
    <3>1. g[n + 1] = g[n]
      BY <1>3, <2>1, <2>4
    <3>2. P \cap (1..(n + 1)) = P \cap (1..n)
      BY <2>4
    <3>3. QED
      BY <2>1, <3>1, <3>2 DEF KeptSoFar
  <2>5. QED
    BY <2>3, <2>4
<1>6. g[Len(s)] \in Seq(S) /\ KeptSoFar(g[Len(s)], s, P, Len(s))
  <2>1. Len(s) \in T
    <3> HIDE DEF T
    <3>1. QED
      BY <1>2, <1>4, <1>5, Induction
  <2>2. QED
    BY <1>2, <2>1
<1>7. QED
  BY <1>1, <1>2, <1>6 DEF KeptSoFar

LEMMA KeptLists ==
  ASSUME NEW S, NEW s \in Seq(S), NEW P \in SUBSET DOMAIN s, NEW sorted
  PROVE  Kept(s, P) \in Seq(S) /\ Lists(Kept(s, P), s, P, sorted)
<1>1. P \cap DOMAIN s = P
  OBVIOUS
<1>2. QED
  BY <1>1, KeptPicks DEF Lists

\* One list after another.
LEMMA ConcatLists ==
  ASSUME NEW S, NEW s, NEW t \in Seq(S), NEW u \in Seq(S), NEW P \in SUBSET Nat,
         NEW Q \in SUBSET Nat, P \cap Q = {}, NEW sorted, Lists(t, s, P, sorted),
         Lists(u, s, Q, sorted), sorted => \A p \in P, q \in Q : p < q
  PROVE  t \o u \in Seq(S) /\ Lists(t \o u, s, P \cup Q, sorted)
<1> DEFINE m == Len(t)
           n == Len(u)
           v == t \o u
<1>1. PICK e : Enumerates(t, s, P, e) /\ (sorted => Rising(e, m))
  BY DEF Lists
<1>2. PICK f : Enumerates(u, s, Q, f) /\ (sorted => Rising(f, n))
  BY DEF Lists
<1>3. /\ v \in Seq(S) /\ m \in Nat /\ n \in Nat /\ Len(v) = m + n
      /\ \A k \in 1..m : v[k] = t[k]
      /\ \A k \in 1..n : v[m + k] = u[k]
  OBVIOUS
<1>4. /\ e \in [1..m -> P] /\ \A p \in P : \E k \in 1..m : e[k] = p
      /\ \A j, k \in 1..m : e[j] = e[k] => j = k
      /\ \A k \in 1..m : t[k] = s[e[k]]
  BY <1>1 DEF Enumerates, Picks
<1>5. /\ f \in [1..n -> Q] /\ \A q \in Q : \E k \in 1..n : f[k] = q
      /\ \A j, k \in 1..n : f[j] = f[k] => j = k
      /\ \A k \in 1..n : u[k] = s[f[k]]
  BY <1>2 DEF Enumerates, Picks
<1> HIDE DEF m, n, v
<1> DEFINE g == [k \in 1..(m + n) |-> IF k <= m THEN e[k] ELSE f[k - m]]
<1>6. /\ \A k \in 1..m : k \in 1..(m + n) /\ g[k] = e[k] /\ g[k] \in P
      /\ \A k \in 1..n : m + k \in 1..(m + n)
  BY <1>3, <1>4
<1>7. \A k \in 1..n : g[m + k] = f[k] /\ g[m + k] \in Q
  <2> TAKE k \in 1..n
  <2>1. m + k \in 1..(m + n) /\ ~(m + k <= m) /\ (m + k) - m = k
    BY <1>3
  <2>2. g[m + k] = f[k]
    BY <2>1
  <2>3. f[k] \in Q
    BY <1>5
  <2>4. QED
    BY <2>2, <2>3
<1>8. \A k \in 1..(m + n) : k \in 1..m \/ \E i \in 1..n : k = m + i
  <2> TAKE k \in 1..(m + n)
  <2>1. CASE k <= m
    BY <1>3, <2>1
  <2>2. CASE ~(k <= m)
    <3>1. k - m \in 1..n /\ k = m + (k - m)
      BY <1>3, <2>2
    <3>2. QED
      BY <3>1
  <2>3. QED
    BY <2>1, <2>2
<1>9. g = [k \in 1..(m + n) |-> g[k]]
  OBVIOUS
<1> HIDE DEF g
<1>10. g \in [1..(m + n) -> P \cup Q]
  <2>1. \A k \in 1..(m + n) : g[k] \in P \cup Q
    BY <1>6, <1>7, <1>8
  <2>2. QED
    BY <1>9, <2>1
<1>11. \A q \in P \cup Q : \E k \in 1..(m + n) : g[k] = q
  <2> TAKE q \in P \cup Q
  <2>1. CASE q \in P
    BY <1>4, <1>6, <2>1
  <2>2. CASE q \in Q
    BY <1>5, <1>6, <1>7, <2>2
  <2>3. QED
    BY <2>1, <2>2
<1>12. \A j, k \in 1..(m + n) : g[j] = g[k] => j = k
  <2> SUFFICES ASSUME NEW j \in 1..(m + n), NEW k \in 1..(m + n), g[j] = g[k] PROVE j = k
    OBVIOUS
  <2>1. CASE j \in 1..m /\ k \in 1..m
    BY <1>4, <1>6, <2>1
  <2>2. CASE \E i \in 1..n, l \in 1..n : j = m + i /\ k = m + l
    BY <1>5, <1>7, <2>2
  <2>3. CASE \/ j \in 1..m /\ \E l \in 1..n : k = m + l
             \/ k \in 1..m /\ \E i \in 1..n : j = m + i
    BY <1>6, <1>7, <2>3
  <2>4. QED
    BY <1>8, <2>1, <2>2, <2>3
<1>13. \A k \in 1..(m + n) : v[k] = s[g[k]]
  <2> TAKE k \in 1..(m + n)
  <2>1. CASE k \in 1..m
    BY <1>3, <1>4, <1>6, <2>1 DEF v, m
  <2>2. CASE \E i \in 1..n : k = m + i
    BY <1>3, <1>5, <1>7, <2>2
  <2>3. QED
    BY <1>8, <2>1, <2>2
<1>14. ASSUME sorted PROVE Rising(g, m + n)
  <2> SUFFICES ASSUME NEW j \in 1..(m + n), NEW k \in 1..(m + n), j < k PROVE g[j] < g[k]
    BY DEF Rising
  <2>1. CASE j \in 1..m /\ k \in 1..m
    <3>1. e[j] < e[k]
      BY <1>1, <1>14, <2>1 DEF Rising
    <3>2. QED
      BY <1>6, <2>1, <3>1
  <2>2. CASE \E i \in 1..n, l \in 1..n : j = m + i /\ k = m + l
    <3>1. PICK i \in 1..n, l \in 1..n : j = m + i /\ k = m + l
      BY <2>2
    <3>2. i < l
      BY <1>3, <3>1
    <3>3. f[i] < f[l]
      BY <1>2, <1>14, <3>2 DEF Rising
    <3>4. QED
      BY <1>7, <3>1, <3>3
  <2>3. CASE j \in 1..m /\ \E l \in 1..n : k = m + l
    BY <1>6, <1>7, <1>14, <2>3
  <2>4. CASE k \in 1..m /\ \E i \in 1..n : j = m + i
    BY <1>3, <2>4
  <2>5. QED
    BY <1>8, <2>1, <2>2, <2>3, <2>4
<1>15. Enumerates(v, s, P \cup Q, g) /\ (sorted => Rising(g, Len(v)))
  BY <1>3, <1>10, <1>11, <1>12, <1>13, <1>14 DEF Enumerates, Picks
<1>16. QED
  BY <1>3, <1>15 DEF Lists, v

\* A concatenation has the elements of both lists.
LEMMA ConcatElements ==
  ASSUME NEW S, NEW s \in Seq(S), NEW t \in Seq(S)
  PROVE  ToSet(s \o t) = ToSet(s) \cup ToSet(t)
<1> DEFINE m == Len(s)
           n == Len(t)
           v == s \o t
<1>1. /\ m \in Nat /\ n \in Nat /\ DOMAIN s = 1..m /\ DOMAIN t = 1..n /\ DOMAIN v = 1..(m + n)
      /\ \A k \in 1..m : v[k] = s[k]
      /\ \A k \in 1..n : v[m + k] = t[k]
  OBVIOUS
<1> HIDE DEF m, n, v
<1>2. \A k \in DOMAIN v : k \in 1..m \/ (k - m \in 1..n /\ k = m + (k - m))
  BY <1>1
<1>3. /\ \A k \in 1..m : k \in DOMAIN v
      /\ \A k \in 1..n : m + k \in DOMAIN v
  BY <1>1
<1>4. \A k \in DOMAIN v : v[k] \in ToSet(s) \cup ToSet(t)
  <2> TAKE k \in DOMAIN v
  <2>1. CASE k \in 1..m
    BY <1>1, <2>1 DEF ToSet
  <2>2. CASE k - m \in 1..n /\ k = m + (k - m)
    <3>1. v[k] = t[k - m]
      BY <1>1, <2>2
    <3>2. QED
      BY <1>1, <2>2, <3>1 DEF ToSet
  <2>3. QED
    BY <1>2, <2>1, <2>2
<1>5. (\A k \in DOMAIN s : s[k] \in ToSet(v)) /\ (\A k \in DOMAIN t : t[k] \in ToSet(v))
  BY <1>1, <1>3 DEF ToSet
<1>6. ToSet(v) = ToSet(s) \cup ToSet(t)
  BY <1>4, <1>5 DEF ToSet
<1>7. QED
  BY <1>6 DEF v

\* The function that FlattenSeq defines, up to list N.
IsFlat(g, lists, N) ==
  g = [i \in 1..N |-> IF i = 1 THEN lists[i] ELSE g[i - 1] \o lists[i]]

LEMMA FlatExists ==
  ASSUME NEW lists, NEW N \in Nat
  PROVE  \E g : IsFlat(g, lists, N)
<1> DEFINE T == {n \in Nat : \E g : IsFlat(g, lists, n)}
<1>1. 0 \in T
  <2>1. IsFlat([i \in 1..0 |-> <<>>], lists, 0)
    BY DEF IsFlat
  <2>2. QED
    BY <2>1
<1>2. ASSUME NEW n \in Nat, n \in T PROVE n + 1 \in T
  <2>1. PICK g : IsFlat(g, lists, n)
    BY <1>2
  <2> DEFINE last == IF n = 0 THEN lists[1] ELSE g[n] \o lists[n + 1]
             h == [i \in 1..(n + 1) |-> IF i = n + 1 THEN last ELSE g[i]]
  <2>2. \A i \in 1..n : h[i] = g[i]
    OBVIOUS
  <2>3. \A i \in 1..n : g[i] = IF i = 1 THEN lists[i] ELSE g[i - 1] \o lists[i]
    BY <2>1 DEF IsFlat
  <2>4. \A i \in 1..(n + 1) : h[i] = IF i = 1 THEN lists[i] ELSE h[i - 1] \o lists[i]
    <3> TAKE i \in 1..(n + 1)
    <3>1. CASE i = n + 1
      <4>1. h[i] = last /\ (n # 0 => h[i - 1] = g[n]) /\ (i = 1 <=> n = 0)
        BY <3>1
      <4> HIDE DEF h
      <4>2. QED
        BY <3>1, <4>1
    <3>2. CASE i # n + 1
      <4>1. i \in 1..n /\ (i # 1 => i - 1 \in 1..n)
        BY <3>2
      <4> HIDE DEF h
      <4>2. QED
        BY <2>2, <2>3, <4>1
    <3>3. QED
      BY <3>1, <3>2
  <2>5. h = [i \in 1..(n + 1) |-> h[i]]
    OBVIOUS
  <2> HIDE DEF h
  <2>6. IsFlat(h, lists, n + 1)
    BY <2>4, <2>5 DEF IsFlat
  <2>7. QED
    BY <2>6
<1> HIDE DEF T
<1>3. N \in T
  BY <1>1, <1>2, Induction
<1>4. QED
  BY <1>3 DEF T

LEMMA FlatIs ==
  ASSUME NEW S, NEW lists \in Seq(S), lists # <<>>
  PROVE  \E g : IsFlat(g, lists, Len(lists)) /\ FlattenSeq(lists) = g[Len(lists)]
<1>1. Len(lists) \in Nat /\ Len(lists) # 0
  OBVIOUS
<1>2. \E g : IsFlat(g, lists, Len(lists))
  BY <1>1, FlatExists
<1> DEFINE c == CHOOSE g : IsFlat(g, lists, Len(lists))
<1>3. IsFlat(c, lists, Len(lists))
  BY <1>2
<1>4. FlattenSeq(lists) = c[Len(lists)]
  BY <1>1 DEF FlattenSeq, IsFlat
<1>5. QED
  BY <1>3, <1>4

\* Lists of disjoint sets of positions, one after another, list their union.
LEMMA FlattenLists ==
  ASSUME NEW S, NEW s, NEW lists \in Seq(Seq(S)), lists # <<>>, NEW Q,
         \A i \in 1..Len(lists) : Q[i] \in SUBSET Nat,
         \A i, j \in 1..Len(lists) : i # j => Q[i] \cap Q[j] = {},
         NEW sorted, \A i \in 1..Len(lists) : Lists(lists[i], s, Q[i], sorted),
         sorted => \A i, j \in 1..Len(lists) : i < j => \A p \in Q[i], q \in Q[j] : p < q,
         NEW All, All = UNION {Q[i] : i \in 1..Len(lists)}
  PROVE  FlattenSeq(lists) \in Seq(S) /\ Lists(FlattenSeq(lists), s, All, sorted)
<1> DEFINE N == Len(lists)
           Upto(n) == UNION {Q[i] : i \in 1..n}
<1>1. PICK g : IsFlat(g, lists, N) /\ FlattenSeq(lists) = g[N]
  BY FlatIs
<1>2. N \in Nat /\ N >= 1 /\ \A i \in 1..N : lists[i] \in Seq(S)
  OBVIOUS
<1> HIDE DEF N, Upto
<1>3. g[1] = lists[1] /\ \A n \in Nat : n >= 1 /\ n + 1 <= N => g[n + 1] = g[n] \o lists[n + 1]
  <2>1. \A i \in 1..N : g[i] = IF i = 1 THEN lists[i] ELSE g[i - 1] \o lists[i]
    BY <1>1 DEF IsFlat
  <2>2. ASSUME NEW n \in Nat, n >= 1, n + 1 <= N PROVE g[n + 1] = g[n] \o lists[n + 1]
    <3>1. n + 1 \in 1..N /\ n + 1 # 1 /\ (n + 1) - 1 = n
      BY <1>2, <2>2
    <3>2. QED
      BY <2>1, <3>1
  <2>3. g[1] = lists[1]
    BY <1>2, <2>1
  <2>4. QED
    BY <2>2, <2>3
<1> DEFINE Good(n) == g[n] \in Seq(S) /\ Lists(g[n], s, Upto(n), sorted)
           T == {n \in Nat : 1 <= n /\ n <= N => Good(n)}
<1>4. Good(1)
  <2>1. Upto(1) = Q[1]
    BY DEF Upto
  <2>2. 1 \in 1..N
    BY <1>2
  <2>3. QED
    BY <1>2, <1>3, <2>1, <2>2 DEF N
<1>5. ASSUME NEW n \in Nat, n >= 1, n + 1 <= N, Good(n) PROVE Good(n + 1)
  <2>1. Upto(n + 1) = Upto(n) \cup Q[n + 1]
    <3>1. 1..(n + 1) = (1..n) \cup {n + 1}
      OBVIOUS
    <3>2. QED
      BY <3>1 DEF Upto
  <2>2. n + 1 \in 1..N /\ \A i \in 1..n : i \in 1..N /\ i < n + 1 /\ i # n + 1
    BY <1>2, <1>5
  <2>3. Upto(n) \in SUBSET Nat /\ Upto(n) \cap Q[n + 1] = {}
    BY <2>2 DEF Upto, N
  <2>4. sorted => \A p \in Upto(n), q \in Q[n + 1] : p < q
    BY <2>2 DEF Upto, N
  <2>5. Lists(lists[n + 1], s, Q[n + 1], sorted) /\ Q[n + 1] \in SUBSET Nat
    BY <2>2 DEF N
  <2>6. g[n] \in Seq(S) /\ Lists(g[n], s, Upto(n), sorted) /\ lists[n + 1] \in Seq(S)
    BY <1>2, <1>5, <2>2
  <2>7. /\ g[n] \o lists[n + 1] \in Seq(S)
        /\ Lists(g[n] \o lists[n + 1], s, Upto(n) \cup Q[n + 1], sorted)
    BY <2>3, <2>4, <2>5, <2>6, ConcatLists
  <2>8. QED
    BY <1>3, <1>5, <2>1, <2>7
<1> HIDE DEF Good
<1>6. N \in T
  <2>1. 0 \in T
    OBVIOUS
  <2>2. \A n \in Nat : n \in T => n + 1 \in T
    <3> SUFFICES ASSUME NEW n \in Nat, n \in T, n + 1 <= N PROVE Good(n + 1)
      OBVIOUS
    <3>1. CASE n = 0
      BY <1>4, <3>1
    <3>2. CASE n >= 1
      BY <1>2, <1>5, <3>2
    <3>3. QED
      BY <3>1, <3>2
  <2> HIDE DEF T
  <2>3. QED
    BY <1>2, <2>1, <2>2, Induction
<1>7. Good(N)
  BY <1>2, <1>6
<1>8. QED
  BY <1>1, <1>7 DEF Good, Upto, N

\* A list of all positions has every element, and is the list itself if it is in its order.
LEMMA ListsAll ==
  ASSUME NEW S, NEW s \in Seq(S), NEW t \in Seq(S), NEW sorted, Lists(t, s, DOMAIN s, sorted)
  PROVE  ToSet(t) = ToSet(s) /\ Len(t) = Len(s) /\ (sorted => t = s)
<1> DEFINE m == Len(t)
           n == Len(s)
<1>1. m \in Nat /\ n \in Nat /\ DOMAIN t = 1..m /\ DOMAIN s = 1..n
  OBVIOUS
<1>2. PICK e : Enumerates(t, s, 1..n, e) /\ (sorted => Rising(e, m))
  BY <1>1 DEF Lists
<1>3. /\ e \in [1..m -> 1..n] /\ \A q \in 1..n : \E k \in 1..m : e[k] = q
      /\ \A j, k \in 1..m : e[j] = e[k] => j = k
      /\ \A k \in 1..m : t[k] = s[e[k]]
  BY <1>2 DEF Enumerates, Picks
<1> HIDE DEF m, n
<1>4. ToSet(t) = ToSet(s)
  <2>1. ToSet(t) = {t[k] : k \in 1..m} /\ ToSet(s) = {s[k] : k \in 1..n}
    BY <1>1 DEF ToSet
  <2>2. \A k \in 1..m : e[k] \in 1..n /\ t[k] = s[e[k]]
    BY <1>3
  <2>3. \A q \in 1..n : \E k \in 1..m : s[q] = t[k]
    BY <1>3
  <2>4. QED
    BY <2>1, <2>2, <2>3
<1>5. m = n
  <2>1. ExistsBijection(1..m, 1..n)
    <3>1. e \in Bijection(1..m, 1..n)
      BY <1>3 DEF Bijection, Injection, Surjection, IsInjective
    <3>2. QED
      BY <3>1 DEF ExistsBijection
  <2>2. IsFiniteSet(1..m) /\ Cardinality(1..m) = m /\ Cardinality(1..n) = n
    BY <1>1, FS_Interval
  <2>3. QED
    BY <2>1, <2>2, FS_Bijection
<1>6. ASSUME sorted PROVE t = s
  <2> DEFINE T == {k \in Nat : \A j \in 1..k : j <= m => e[j] = j}
  <2>1. 0 \in T
    OBVIOUS
  <2>2. ASSUME NEW k \in Nat, k \in T PROVE k + 1 \in T
    <3> SUFFICES ASSUME k + 1 <= m PROVE e[k + 1] = k + 1
      BY <2>2
    <3>1. \A j \in 1..k : e[j] = j
      BY <1>1, <2>2
    <3>2. k + 1 \in 1..n /\ k + 1 \in 1..m
      BY <1>1, <1>5
    <3>3. PICK j \in 1..m : e[j] = k + 1
      BY <1>3, <3>2
    <3>4. j >= k + 1
      BY <1>1, <3>1, <3>3
    <3>5. j > k + 1 => e[k + 1] < e[j]
      BY <1>2, <1>6, <3>2 DEF Rising
    <3>6. e[k + 1] \in 1..n /\ (e[k + 1] < k + 1 => e[e[k + 1]] = e[k + 1])
      BY <1>1, <1>3, <3>1, <3>2
    <3>7. e[k + 1] < k + 1 => FALSE
      BY <1>1, <1>3, <1>5, <3>2, <3>6
    <3>8. QED
      BY <1>1, <3>2, <3>3, <3>4, <3>5, <3>6, <3>7
  <2> HIDE DEF T
  <2>3. m \in T
    BY <1>1, <2>1, <2>2, Induction
  <2>4. \A k \in 1..m : e[k] = k
    BY <2>3 DEF T
  <2>5. \A k \in 1..m : t[k] = s[k]
    BY <1>3, <2>4
  <2>6. QED
    BY <1>1, <1>5, <2>5
<1>7. QED
  BY <1>4, <1>5, <1>6 DEF m, n

\* Every value of a list has a first occurrence.
LEMMA FirstOccurs ==
  ASSUME NEW S, NEW s \in Seq(S), NEW i \in DOMAIN s
  PROVE  \E p \in FirstPositions(s) : s[p] = s[i]
<1> DEFINE n == Len(s)
           N == {j \in 1..n : s[j] = s[i]}
<1>1. n \in Nat /\ DOMAIN s = 1..n
  OBVIOUS
<1> HIDE DEF n
<1>2. N \in SUBSET Nat /\ N # {}
  BY <1>1
<1> HIDE DEF N
<1>3. PICK p \in N : \A j \in N : p <= j
  BY <1>2, SmallestNumber
<1>4. p \in 1..n /\ s[p] = s[i] /\ \A j \in 1..(p - 1) : s[j] # s[p]
  BY <1>1, <1>3 DEF N
<1>5. QED
  BY <1>1, <1>4 DEF FirstPositions

\* The first occurrences of values: each value of the list once.
LEMMA FirstsDistinct ==
  ASSUME NEW S, NEW s \in Seq(S), NEW t, t = Kept(s, FirstPositions(s))
  PROVE  /\ t \in Seq(S) /\ ToSet(t) = ToSet(s)
         /\ \A j, k \in DOMAIN t : t[j] = t[k] => j = k
<1> DEFINE P == FirstPositions(s)
           n == Len(s)
           m == Len(t)
<1>1. P \in SUBSET DOMAIN s
  BY DEF FirstPositions
<1>2. t \in Seq(S) /\ Lists(t, s, P, TRUE)
  <2> HIDE DEF P
  <2>1. QED
    BY <1>1, KeptLists DEF P
<1>3. n \in Nat /\ DOMAIN s = 1..n /\ m \in Nat /\ DOMAIN t = 1..m
  BY <1>2
<1>4. PICK e : Enumerates(t, s, P, e)
  BY <1>2 DEF Lists
<1> HIDE DEF P, n, m
<1>5. /\ e \in [1..m -> P] /\ \A q \in P : \E k \in 1..m : e[k] = q
      /\ \A j, k \in 1..m : e[j] = e[k] => j = k
      /\ \A k \in 1..m : t[k] = s[e[k]]
  BY <1>4 DEF Enumerates, Picks, m
<1>6. \A p \in P : p \in 1..n /\ \A i \in 1..(p - 1) : s[i] # s[p]
  BY <1>3 DEF P, FirstPositions
<1>7. \A p, q \in P : s[p] = s[q] => p = q
  <2> SUFFICES ASSUME NEW p \in P, NEW q \in P, p < q PROVE s[p] # s[q]
    BY <1>3, <1>6
  <2>1. p \in 1..(q - 1)
    BY <1>3, <1>6
  <2>2. QED
    BY <1>6, <2>1
<1>8. \A i \in 1..n : \E p \in P : s[p] = s[i]
  BY <1>3, FirstOccurs DEF P
<1>9. ToSet(t) = ToSet(s)
  <2>1. ToSet(t) = {t[k] : k \in 1..m} /\ ToSet(s) = {s[i] : i \in 1..n}
    BY <1>3 DEF ToSet
  <2>2. \A k \in 1..m : e[k] \in P /\ e[k] \in 1..n /\ t[k] = s[e[k]]
    BY <1>5, <1>6
  <2>3. \A i \in 1..n : \E k \in 1..m : s[i] = t[k]
    BY <1>5, <1>8
  <2>4. QED
    BY <2>1, <2>2, <2>3
<1>10. \A j, k \in 1..m : t[j] = t[k] => j = k
  <2>1. \A k \in 1..m : e[k] \in P
    BY <1>5
  <2>2. QED
    BY <1>5, <1>7, <2>1
<1>11. QED
  BY <1>2, <1>3, <1>9, <1>10

-----------------------------------------------------------------------------
(* The quote of a lead *)

Places == TripCities \cup {None}
QuoteRow == [hotel : Hotels, city : Places]
Group == Hotels \X Places

LEMMA GroupsType ==
  ASSUME TextTypeOK PROVE Groups \in Seq(Group)
<1> DEFINE keys == [i \in DOMAIN rows |-> Key(rows[i])]
<1>1. keys \in Seq(Group)
  <2>1. /\ rows \in Seq(QuoteRow) /\ Len(rows) \in Nat /\ DOMAIN rows = 1..Len(rows)
        /\ \A i \in DOMAIN rows : rows[i] \in QuoteRow
    <3>1. rows \in Seq(QuoteRow)
      BY DEF TextTypeOK, QuoteRow, Places
    <3>2. QED
      BY <3>1
  <2>2. \A row \in QuoteRow : Key(row) \in Group
    BY DEF QuoteRow, Key, Group
  <2>3. keys \in [1..Len(rows) -> Group]
    BY <2>1, <2>2
  <2>4. QED
    BY <2>1, <2>3
<1>2. Groups = Kept(keys, FirstPositions(keys))
  BY DEF Groups
<1> HIDE DEF keys
<1>3. QED
  BY <1>1, <1>2, FirstsDistinct

\* The sections are distinct cities, among them every city of a group.
LEMMA SectionsCover ==
  ASSUME TextTypeOK
  PROVE  /\ SectionCities \in Seq(TripCities)
         /\ \A m, n \in DOMAIN SectionCities : SectionCities[m] = SectionCities[n] => m = n
         /\ \A i \in DOMAIN Groups : City(Groups[i]) # None =>
              \E n \in DOMAIN SectionCities : SectionCities[n] = City(Groups[i])
         /\ MultiCity => SectionCities # <<>>
<1> DEFINE named == [n \in DOMAIN Groups |-> City(Groups[n])]
           P == {n \in FirstPositions(named) : named[n] # None /\ ~Contains(route, named[n])}
           added == Kept(named, P)
<1>1. Groups \in Seq(Group)
  BY GroupsType
<1>2. named \in Seq(Places) /\ DOMAIN named = DOMAIN Groups
  BY <1>1 DEF Group, City
<1>3. \A i \in DOMAIN Groups : named[i] = City(Groups[i]) /\ named[i] \in Places
  BY <1>2
<1>4. LocationOrder = route \o added
  BY DEF LocationOrder
<1> HIDE DEF named
<1>5. P \in SUBSET DOMAIN named
  BY DEF FirstPositions
<1>6. added \in Seq(Places) /\ Lists(added, named, P, TRUE)
  <2> HIDE DEF P
  <2>1. QED
    BY <1>2, <1>5, KeptLists
<1>7. PICK e : Enumerates(added, named, P, e)
  BY <1>6 DEF Lists
<1>8. /\ e \in [1..Len(added) -> P] /\ \A q \in P : \E k \in 1..Len(added) : e[k] = q
      /\ \A k \in 1..Len(added) : added[k] = named[e[k]]
  <2> HIDE DEF added, P
  <2>1. QED
    BY <1>7 DEF Enumerates, Picks
<1>9. \A q \in P : named[q] \in TripCities
  BY <1>2, <1>3, <1>5 DEF Places
<1> HIDE DEF P
<1>10. added \in Seq(TripCities)
  <2> HIDE DEF added
  <2>1. \A k \in 1..Len(added) : added[k] \in TripCities
    BY <1>8, <1>9
  <2>2. QED
    BY <1>6, <2>1
<1>11. LocationOrder \in Seq(TripCities)
  <2> HIDE DEF added
  <2>1. QED
    BY <1>4, <1>10 DEF TextTypeOK
<1>12. /\ SectionCities \in Seq(TripCities) /\ ToSet(SectionCities) = ToSet(LocationOrder)
       /\ \A m, n \in DOMAIN SectionCities : SectionCities[m] = SectionCities[n] => m = n
  BY <1>11, FirstsDistinct DEF SectionCities
<1>13. ToSet(LocationOrder) = ToSet(route) \cup ToSet(added)
  <2> HIDE DEF added
  <2>1. QED
    BY <1>4, <1>10, ConcatElements DEF TextTypeOK
<1>14. \A i \in DOMAIN Groups : named[i] # None => named[i] \in ToSet(LocationOrder)
  <2> TAKE i \in DOMAIN Groups
  <2> HAVE named[i] # None
  <2>1. CASE Contains(route, named[i])
    <3>1. named[i] \in ToSet(route)
      BY <2>1 DEF Contains, ToSet, TextTypeOK
    <3>2. QED
      BY <1>13, <3>1
  <2>2. CASE ~Contains(route, named[i])
    <3> DEFINE firsts == Kept(named, FirstPositions(named))
    <3>1. PICK p \in FirstPositions(named) : named[p] = named[i]
      BY <1>2, FirstOccurs
    <3>2. p \in P
      BY <2>2, <3>1 DEF P
    <3>3. PICK k \in 1..Len(added) : e[k] = p /\ added[k] = named[p]
      BY <1>8, <3>2
    <3>4. named[i] \in ToSet(added)
      <4> HIDE DEF added
      <4>1. k \in DOMAIN added
        BY <1>6
      <4>2. QED
        BY <3>1, <3>3, <4>1 DEF ToSet
    <3>5. QED
      BY <1>13, <3>4
  <2>3. QED
    BY <2>1, <2>2
<1>15. \A i \in DOMAIN Groups : City(Groups[i]) # None =>
         \E n \in DOMAIN SectionCities : SectionCities[n] = City(Groups[i])
  BY <1>3, <1>12, <1>14 DEF ToSet
<1>16. ASSUME MultiCity, SectionCities = <<>> PROVE FALSE
  <2>1. DOMAIN SectionCities = {}
    BY <1>16
  <2>2. ToSet(route) = {}
    BY <1>12, <1>13, <2>1 DEF ToSet
  <2>3. ~(Len(route) > 1)
    <3>1. route \in Seq(TripCities) /\ (Len(route) > 1 => 1 \in DOMAIN route)
      BY DEF TextTypeOK
    <3>2. 1 \in DOMAIN route => route[1] \in ToSet(route)
      BY DEF ToSet
    <3>3. QED
      BY <2>2, <3>1, <3>2
  <2>4. \A i \in DOMAIN Groups : City(Groups[i]) = None
    BY <1>15, <2>1
  <2>5. QED
    BY <1>16, <2>3, <2>4 DEF MultiCity
<1>17. QED
  BY <1>12, <1>15, <1>16

\* The positions of the groups that a section shows.
Placed(n) == {i \in DOMAIN Groups : City(Groups[i]) = SectionCities[n]}
Unplaced == {i \in DOMAIN Groups : City(Groups[i]) = None}
Shown(n) == IF n = 1 THEN Placed(1) \cup Unplaced ELSE Placed(n)

\* A section shows the groups whose position in the trip it is.
LEMMA ShownPosition ==
  ASSUME TextTypeOK, NEW n \in DOMAIN SectionCities, NEW i \in Shown(n)
  PROVE  i \in DOMAIN Groups /\ Position(Groups[i]) = n
<1> DEFINE g == Groups[i]
<1>1. i \in DOMAIN Groups
  BY DEF Shown, Placed, Unplaced
<1>2. SectionCities[n] \in TripCities /\ SectionCities[n] # None
  BY SectionsCover, QuoteAssumption
<1>3. CASE City(g) = None
  <2>1. n = 1
    BY <1>2, <1>3 DEF Shown, Placed
  <2>2. QED
    BY <1>1, <1>3, <2>1 DEF Position
<1>4. CASE City(g) # None
  <2>1. SectionCities[n] = City(g)
    BY <1>4 DEF Shown, Placed, Unplaced
  <2>2. \A m \in DOMAIN SectionCities : SectionCities[m] = City(g) => m = n
    BY <2>1, SectionsCover
  <2>3. (CHOOSE m \in DOMAIN SectionCities : SectionCities[m] = City(g)) = n
    BY <2>1, <2>2
  <2>4. QED
    BY <1>1, <1>4, <2>3 DEF Position
<1>5. QED
  BY <1>3, <1>4

\* In groups entered in order, those of a section come before those of a later one.
LEMMA SectionsInOrder ==
  ASSUME TextTypeOK, EnteredInOrder, NEW m \in DOMAIN SectionCities,
         NEW n \in DOMAIN SectionCities, m < n, NEW p \in Shown(m), NEW q \in Shown(n)
  PROVE  p < q
<1>1. /\ p \in DOMAIN Groups /\ Position(Groups[p]) = m
      /\ q \in DOMAIN Groups /\ Position(Groups[q]) = n
  BY ShownPosition
<1>2. \A i, j \in DOMAIN Groups : i < j => Position(Groups[i]) <= Position(Groups[j])
  BY DEF EnteredInOrder
<1>3. p \in Nat /\ q \in Nat /\ m \in Nat /\ n \in Nat
  <2>1. DOMAIN Groups = 1..Len(Groups) /\ DOMAIN SectionCities = 1..Len(SectionCities)
    BY GroupsType, SectionsCover
  <2>2. QED
    BY <1>1, <2>1
<1>4. q < p => n <= m
  BY <1>1, <1>2
<1>5. q = p => n = m
  BY <1>1
<1>6. QED
  BY <1>3, <1>4, <1>5

\* In the first section the groups without a city come last.
LEMMA UnplacedLast ==
  ASSUME TextTypeOK, EnteredInOrder, 1 \in DOMAIN SectionCities,
         NEW p \in Placed(1), NEW q \in Unplaced
  PROVE  p < q
<1>1. p \in Shown(1) /\ q \in Shown(1)
  BY DEF Shown
<1>2. /\ p \in DOMAIN Groups /\ Position(Groups[p]) = 1
      /\ q \in DOMAIN Groups /\ Position(Groups[q]) = 1
  BY <1>1, ShownPosition
<1>3. City(Groups[q]) = None /\ City(Groups[p]) # None
  BY SectionsCover, QuoteAssumption DEF Placed, Unplaced
<1>4. \A i, j \in DOMAIN Groups :
        i < j /\ Position(Groups[i]) = Position(Groups[j]) /\ City(Groups[i]) = None
          => City(Groups[j]) = None
  BY DEF EnteredInOrder
<1>5. ~(q < p) /\ q # p
  BY <1>2, <1>3, <1>4
<1>6. p \in Nat /\ q \in Nat
  BY <1>2, GroupsType
<1>7. QED
  BY <1>5, <1>6

\* A section's groups.
LEMMA SectionLists ==
  ASSUME TextTypeOK, NEW n \in DOMAIN SectionCities
  PROVE  /\ SectionGroups(n) \in Seq(Group)
         /\ Lists(SectionGroups(n), Groups, Shown(n), EnteredInOrder)
<1>1. Groups \in Seq(Group) /\ DOMAIN Groups \subseteq Nat
  BY GroupsType
<1>2. /\ GroupsOf(SectionCities[n]) \in Seq(Group)
      /\ Lists(GroupsOf(SectionCities[n]), Groups, Placed(n), EnteredInOrder)
  <2>1. Placed(n) \in SUBSET DOMAIN Groups /\ GroupsOf(SectionCities[n]) = Kept(Groups, Placed(n))
    BY DEF Placed, GroupsOf
  <2>2. QED
    BY <1>1, <2>1, KeptLists
<1>3. CASE n # 1
  <2>1. SectionGroups(n) = GroupsOf(SectionCities[n]) \o <<>>
    BY <1>3 DEF SectionGroups
  <2>2. SectionGroups(n) = GroupsOf(SectionCities[n])
    BY <1>2, <2>1
  <2>3. QED
    BY <1>2, <1>3, <2>2 DEF Shown
<1>4. CASE n = 1
  <2>1. GroupsOf(None) \in Seq(Group) /\ Lists(GroupsOf(None), Groups, Unplaced, EnteredInOrder)
    <3>1. Unplaced \in SUBSET DOMAIN Groups /\ GroupsOf(None) = Kept(Groups, Unplaced)
      BY DEF Unplaced, GroupsOf
    <3>2. QED
      BY <1>1, <3>1, KeptLists
  <2>2. Placed(n) \in SUBSET Nat /\ Unplaced \in SUBSET Nat
    BY <1>1 DEF Placed, Unplaced
  <2>3. Placed(n) \cap Unplaced = {}
    BY SectionsCover, QuoteAssumption DEF Placed, Unplaced
  <2>4. EnteredInOrder => \A p \in Placed(n), q \in Unplaced : p < q
    BY <1>4, UnplacedLast
  <2>5. SectionGroups(n) = GroupsOf(SectionCities[n]) \o GroupsOf(None)
    BY <1>4 DEF SectionGroups
  <2>6. /\ GroupsOf(SectionCities[n]) \o GroupsOf(None) \in Seq(Group)
        /\ Lists(GroupsOf(SectionCities[n]) \o GroupsOf(None), Groups,
                 Placed(n) \cup Unplaced, EnteredInOrder)
    BY <1>2, <2>1, <2>2, <2>3, <2>4, ConcatLists, Zenon
  <2>7. Shown(n) = Placed(n) \cup Unplaced
    BY <1>4 DEF Shown
  <2>8. QED
    BY <2>5, <2>6, <2>7, Zenon
<1>5. QED
  BY <1>3, <1>4

\* The layout lists every group, in the groups' order if they were entered in the trip's.
LEMMA BlocksListGroups ==
  ASSUME TextTypeOK, MultiCity
  PROVE  Blocks \in Seq(Group) /\ Lists(Blocks, Groups, DOMAIN Groups, EnteredInOrder)
<1> DEFINE lists == [n \in DOMAIN SectionCities |-> SectionGroups(n)]
           Q == [n \in DOMAIN SectionCities |-> Shown(n)]
           N == Len(SectionCities)
<1>1. N \in Nat /\ N # 0 /\ DOMAIN SectionCities = 1..N
  BY SectionsCover
<1>2. Groups \in Seq(Group) /\ DOMAIN Groups \subseteq Nat
  BY GroupsType
<1> HIDE DEF N
<1>3. \A n \in 1..N : lists[n] = SectionGroups(n) /\ Q[n] = Shown(n)
  BY <1>1
<1>4. lists \in Seq(Seq(Group)) /\ Len(lists) = N /\ lists # <<>>
  <2>1. \A n \in 1..N : lists[n] \in Seq(Group)
    BY <1>1, <1>3, SectionLists
  <2>2. lists \in [1..N -> Seq(Group)]
    BY <1>1, <2>1
  <2> HIDE DEF lists
  <2>3. QED
    BY <1>1, <2>2
<1>5. \A n \in 1..N : Shown(n) \subseteq DOMAIN Groups
  BY DEF Shown, Placed, Unplaced
<1>6. \A m, n \in 1..N : m # n => Shown(m) \cap Shown(n) = {}
  BY <1>1, ShownPosition
<1>7. EnteredInOrder => \A m, n \in 1..N : m < n => \A p \in Shown(m), q \in Shown(n) : p < q
  BY <1>1, SectionsInOrder
<1>8. \A n \in 1..N : Lists(lists[n], Groups, Q[n], EnteredInOrder)
  BY <1>1, <1>3, SectionLists
<1>9. UNION {Q[n] : n \in 1..N} = DOMAIN Groups
  <2>1. ASSUME NEW i \in DOMAIN Groups PROVE \E n \in 1..N : i \in Shown(n)
    <3>1. CASE City(Groups[i]) = None
      BY <1>1, <3>1 DEF Shown, Unplaced
    <3>2. CASE City(Groups[i]) # None
      <4>1. PICK n \in 1..N : SectionCities[n] = City(Groups[i])
        BY <1>1, <3>2, SectionsCover
      <4>2. QED
        BY <4>1 DEF Shown, Placed
    <3>3. QED
      BY <3>1, <3>2
  <2>2. QED
    BY <1>3, <1>5, <2>1
<1> HIDE DEF lists, Q
<1>10. /\ FlattenSeq(lists) \in Seq(Group)
       /\ Lists(FlattenSeq(lists), Groups, DOMAIN Groups, EnteredInOrder)
  <2>1. \A n \in 1..N : Q[n] \in SUBSET Nat
    BY <1>2, <1>3, <1>5
  <2>2. \A m, n \in 1..N : m # n => Q[m] \cap Q[n] = {}
    BY <1>3, <1>6
  <2>3. EnteredInOrder => \A m, n \in 1..N : m < n => \A p \in Q[m], q \in Q[n] : p < q
    BY <1>3, <1>7
  <2>4. /\ \A n \in 1..Len(lists) : Q[n] \in SUBSET Nat
        /\ \A m, n \in 1..Len(lists) : m # n => Q[m] \cap Q[n] = {}
        /\ \A n \in 1..Len(lists) : Lists(lists[n], Groups, Q[n], EnteredInOrder)
        /\ EnteredInOrder =>
             \A m, n \in 1..Len(lists) : m < n => \A p \in Q[m], q \in Q[n] : p < q
    BY <1>4, <1>8, <2>1, <2>2, <2>3
  <2>5. lists \in Seq(Seq(Group)) /\ lists # <<>>
    BY <1>4
  <2>6. DOMAIN Groups = UNION {Q[n] : n \in 1..Len(lists)}
    BY <1>4, <1>9
  <2>7. QED
    BY <2>4, <2>5, <2>6, FlattenLists, Zenon
<1>11. Blocks = FlattenSeq(lists)
  BY DEF Blocks, lists
<1>12. QED
  BY <1>10, <1>11, Zenon

LEMMA LayoutShowsAll ==
  ASSUME TextTypeOK PROVE EveryOptionShown /\ OptionNumbersAgree
<1>1. CASE MultiCity
  <2>1. /\ ToSet(Blocks) = ToSet(Groups) /\ Len(Blocks) = Len(Groups)
        /\ EnteredInOrder => Blocks = Groups
    BY <1>1, GroupsType, BlocksListGroups, ListsAll
  <2>2. QED
    BY <2>1 DEF EveryOptionShown, OptionNumbersAgree, PriceTable
<1>2. CASE ~MultiCity
  BY <1>2 DEF Blocks, EveryOptionShown, OptionNumbersAgree, PriceTable
<1>3. QED
  BY <1>1, <1>2

\* Removing an element of a list.
LEMMA RemovedTyped ==
  ASSUME NEW S, NEW s \in Seq(S), NEW i \in DOMAIN s
  PROVE  RemoveAt(s, i) \in Seq(S)
<1>1. i \in 1..Len(s) /\ Len(s) \in Nat
  OBVIOUS
<1>2. SubSeq(s, 1, i - 1) \in Seq(S) /\ SubSeq(s, i + 1, Len(s)) \in Seq(S)
  BY <1>1
<1>3. QED
  BY <1>2 DEF RemoveAt

\* The cities and rows are those the editors offer: each has its type in every state.
THEOREM TextTypeCorrect == TextSpec => []TextTypeOK
<1>1. TextInit => TextTypeOK
  BY DEF TextInit, TextTypeOK
<1>2. TextTypeOK /\ [TextNext]_textVars => TextTypeOK'
  <2> SUFFICES ASSUME TextTypeOK, [TextNext]_textVars PROVE TextTypeOK'
    OBVIOUS
  <2> USE DEF QuoteRow, Places
  <2>1. route \in Seq(TripCities) /\ rows \in Seq(QuoteRow)
    BY DEF TextTypeOK
  <2>2. CASE AddCity
    BY <2>1, <2>2 DEF AddCity, TextTypeOK
  <2>3. CASE RemoveCity
    BY <2>1, <2>3, RemovedTyped DEF RemoveCity, TextTypeOK
  <2>4. CASE AddRow
    BY <2>1, <2>4 DEF AddRow, TextTypeOK
  <2>5. CASE RemoveRow
    BY <2>1, <2>5, RemovedTyped DEF RemoveRow, TextTypeOK
  <2>6. CASE UNCHANGED textVars
    BY <2>1, <2>6 DEF textVars, TextTypeOK
  <2>7. QED
    BY <2>2, <2>3, <2>4, <2>5, <2>6 DEF TextNext
<1>3. QED
  BY <1>1, <1>2, PTL DEF TextSpec

\* buildWhatsAppQuote shows every option exactly once, whatever the trip's cities and the
\* cities of the hotels are, and however often the trip comes back to one.
THEOREM OptionsShownOnce == TextSpec => []EveryOptionShown
<1>1. TextTypeOK => EveryOptionShown
  BY LayoutShowsAll
<1>2. QED
  BY <1>1, TextTypeCorrect, PTL

\* "Option n" of the layout is "Option n" of the price table for hotels entered city by city.
THEOREM NumbersAgree == TextSpec => []OptionNumbersAgree
<1>1. TextTypeOK => OptionNumbersAgree
  BY LayoutShowsAll
<1>2. QED
  BY <1>1, TextTypeCorrect, PTL

-----------------------------------------------------------------------------
(* The intake of a lead *)

\* The first element a filter keeps.
LEMMA KeptFirst ==
  ASSUME NEW S, NEW s \in Seq(S), NEW P \in SUBSET DOMAIN s
  PROVE  /\ Kept(s, P) \in Seq(S)
         /\ P = {} => Kept(s, P) = <<>>
         /\ P # {} => Kept(s, P) # <<>> /\ \E p \in P : Kept(s, P)[1] = s[p]
         /\ 1 \in P => Kept(s, P)[1] = s[1]
<1> DEFINE t == Kept(s, P)
           m == Len(t)
<1>1. t \in Seq(S) /\ Lists(t, s, P, TRUE)
  BY KeptLists
<1>2. PICK e : Enumerates(t, s, P, e) /\ Rising(e, m)
  BY <1>1 DEF Lists
<1>3. m \in Nat /\ DOMAIN s = 1..Len(s) /\ (m = 0 <=> t = <<>>)
  BY <1>1
<1> HIDE DEF t, m
<1>4. /\ e \in [1..m -> P] /\ \A q \in P : \E k \in 1..m : e[k] = q
      /\ \A k \in 1..m : t[k] = s[e[k]]
  BY <1>2 DEF Enumerates, Picks, m
<1>5. P = {} => m = 0
  <2> SUFFICES ASSUME P = {}, m # 0 PROVE FALSE
    OBVIOUS
  <2>1. 1 \in 1..m
    BY <1>3
  <2>2. e[1] \in P
    BY <1>4, <2>1
  <2>3. QED
    BY <2>2
<1>6. ASSUME P # {} PROVE m # 0 /\ \E p \in P : t[1] = s[p]
  <2>1. PICK k \in 1..m : TRUE
    BY <1>4, <1>6
  <2>2. 1 \in 1..m
    BY <1>3, <2>1
  <2>3. e[1] \in P /\ t[1] = s[e[1]]
    BY <1>4, <2>2
  <2>4. QED
    BY <1>3, <2>1, <2>3
<1>7. ASSUME 1 \in P PROVE t[1] = s[1]
  <2>1. PICK k \in 1..m : e[k] = 1
    BY <1>4, <1>7
  <2>2. 1 \in 1..m /\ e[1] \in P
    BY <1>3, <1>4, <2>1
  <2>3. e[1] \in Nat /\ e[1] >= 1
    BY <1>3, <2>2
  <2>4. k # 1 => e[1] < e[k]
    BY <1>2, <1>3, <2>1, <2>2 DEF Rising
  <2>5. e[1] = 1
    BY <2>1, <2>3, <2>4
  <2>6. QED
    BY <1>4, <2>2, <2>5
<1>8. QED
  BY <1>1, <1>3, <1>5, <1>6, <1>7 DEF t

\* The names the catalog lists for a row's city.
Listed(row) == ToSet(Catalog[row.city])

LEMMA CatalogTyped ==
  ASSUME NEW row \in HotelRow
  PROVE  /\ Catalog[row.city] \in Seq(DOMAIN Alike) /\ Alike[row.name] \in Seq(DOMAIN Alike)
         /\ \A name \in Listed(row) :
              /\ name \in DOMAIN Alike /\ name # Placeholder /\ name # None
              /\ Alike[name] \in Seq(DOMAIN Alike) /\ Alike[name] # <<>> /\ Alike[name][1] = name
<1>1. row.city \in DOMAIN Catalog /\ row.name \in DOMAIN Alike
  BY DEF HotelRow
<1> DEFINE listed == Catalog[row.city]
<1>2. /\ listed \in Seq(DOMAIN Alike \ {Placeholder})
      /\ \A i \in DOMAIN listed : Alike[listed[i]] # <<>> /\ Head(Alike[listed[i]]) = listed[i]
  BY <1>1, IntakeAssumption
<1> HIDE DEF listed
<1>3. listed \in Seq(DOMAIN Alike) /\ \A i \in DOMAIN listed : listed[i] \in DOMAIN Alike \ {Placeholder}
  BY <1>2
<1>4. None \notin DOMAIN Alike /\ \A name \in DOMAIN Alike : Alike[name] \in Seq(DOMAIN Alike)
  BY IntakeAssumption
<1>5. ASSUME NEW name \in ToSet(listed)
      PROVE  /\ name \in DOMAIN Alike /\ name # Placeholder /\ name # None
             /\ Alike[name] \in Seq(DOMAIN Alike) /\ Alike[name] # <<>> /\ Alike[name][1] = name
  <2>1. PICK i \in DOMAIN listed : listed[i] = name
    BY DEF ToSet
  <2>2. name \in DOMAIN Alike /\ name # Placeholder /\ name # None
    BY <1>3, <1>4, <2>1
  <2>3. Alike[name] \in Seq(DOMAIN Alike) /\ Alike[name] # <<>> /\ Head(Alike[name]) = name
    BY <1>2, <1>4, <2>1, <2>2
  <2>4. QED
    BY <2>2, <2>3
<1>6. QED
  BY <1>1, <1>3, <1>4, <1>5 DEF listed, Listed

Unused(names, used) == {n \in DOMAIN names : names[n] \notin used}
ListedAlike(row, used) ==
  {n \in Unused(Alike[row.name], used) : Contains(Catalog[row.city], Alike[row.name][n])}

\* A match is listed for the row's city, and new unless all of the city's names are used.
LEMMA MatchListed ==
  ASSUME NEW row \in HotelRow, NEW used, CatalogMatch(row, used) # None
  PROVE  /\ CatalogMatch(row, used) \in Listed(row)
         /\ CatalogMatch(row, used) \in used => Listed(row) \subseteq used
<1> DEFINE listed == Catalog[row.city]
           alike == Alike[row.name]
           match == CatalogMatch(row, used)
<1>1. listed \in Seq(DOMAIN Alike) /\ alike \in Seq(DOMAIN Alike)
  BY CatalogTyped
<1>2. CASE row.name = Placeholder
  <2> DEFINE P == Unused(listed, used)
  <2>1. P \in SUBSET DOMAIN listed
    BY DEF Unused
  <2>2. match = FirstOr(Kept(listed, P), FirstOr(listed, None))
    BY <1>2 DEF CatalogMatch, Unused
  <2>3. CASE P # {}
    <3>1. Kept(listed, P) # <<>> /\ \E p \in P : Kept(listed, P)[1] = listed[p]
      BY <1>1, <2>1, <2>3, KeptFirst
    <3>2. \E p \in P : match = listed[p]
      BY <2>2, <3>1 DEF FirstOr
    <3>3. QED
      BY <3>2 DEF Unused, Listed, ToSet
  <2>4. CASE P = {}
    <3>1. Kept(listed, P) = <<>>
      BY <1>1, <2>4, KeptFirst
    <3>2. match = FirstOr(listed, None)
      BY <2>2, <3>1 DEF FirstOr
    <3>3. listed # <<>> /\ match = listed[1]
      BY <3>2 DEF FirstOr
    <3>4. 1 \in DOMAIN listed
      BY <1>1, <3>3
    <3>5. Listed(row) \subseteq used
      BY <2>4 DEF Listed, Unused, ToSet
    <3>6. QED
      BY <3>3, <3>4, <3>5 DEF Listed, ToSet
  <2>5. QED
    BY <2>3, <2>4
<1>3. CASE row.name # Placeholder
  <2> DEFINE P == ListedAlike(row, used)
  <2>1. P \in SUBSET DOMAIN alike
    BY DEF ListedAlike, Unused
  <2>2. match = FirstOr(Kept(alike, P), None)
    BY <1>3 DEF CatalogMatch, ListedAlike, Unused
  <2>3. Kept(alike, P) # <<>> /\ match = Kept(alike, P)[1]
    BY <2>2 DEF FirstOr
  <2>4. P # {}
    BY <1>1, <2>3, KeptFirst
  <2>5. PICK p \in P : match = alike[p]
    BY <1>1, <2>1, <2>3, <2>4, KeptFirst
  <2>6. alike[p] \notin used /\ Contains(listed, alike[p])
    BY <2>5 DEF ListedAlike, Unused
  <2>7. alike[p] \in Listed(row)
    BY <1>1, <2>6 DEF Contains, Listed, ToSet
  <2>8. QED
    BY <2>5, <2>6, <2>7
<1>4. QED
  BY <1>2, <1>3

LEMMA EnrichTyped ==
  ASSUME NEW row \in HotelRow, NEW used
  PROVE  Enrich(row, used) \in HotelRow
<1>1. CatalogMatch(row, used) # None => CatalogMatch(row, used) \in DOMAIN Alike
  BY MatchListed, CatalogTyped
<1>2. QED
  BY <1>1 DEF Enrich, HotelRow

\* A row that has got a catalog name gets no other, whatever names were used before it.
LEMMA EnrichTwice ==
  ASSUME NEW row \in HotelRow, NEW used
  PROVE  Enrich(Enrich(row, used), used) = Enrich(row, used)
<1> DEFINE match == CatalogMatch(row, used)
           named == [row EXCEPT !.name = match]
           alike == Alike[match]
<1>1. CASE match = None
  BY <1>1 DEF Enrich
<1>2. CASE match # None
  <2>1. match \in Listed(row) /\ (match \in used => Listed(row) \subseteq used)
    BY <1>2, MatchListed
  <2>2. /\ match \in DOMAIN Alike /\ match # Placeholder
        /\ alike \in Seq(DOMAIN Alike) /\ alike # <<>> /\ alike[1] = match
    BY <2>1, CatalogTyped
  <2> HIDE DEF match
  <2>3. named \in HotelRow /\ named.name = match /\ named.city = row.city
    BY <2>2 DEF HotelRow
  <2>4. [named EXCEPT !.name = match] = named
    BY <2>3 DEF HotelRow
  <2> DEFINE P == ListedAlike(named, used)
  <2> HIDE DEF named
  <2>5. P \in SUBSET DOMAIN alike
    BY <2>3 DEF ListedAlike, Unused
  <2>6. CatalogMatch(named, used) = FirstOr(Kept(alike, P), None)
    BY <2>2, <2>3 DEF CatalogMatch, ListedAlike, Unused
  <2>7. CASE match \notin used
    <3>1. Contains(Catalog[row.city], match)
      <4>1. Catalog[row.city] \in Seq(DOMAIN Alike)
        BY CatalogTyped
      <4>2. QED
        BY <2>1, <4>1 DEF Contains, Listed, ToSet
    <3>2. 1 \in P
      BY <2>2, <2>3, <2>7, <3>1 DEF ListedAlike, Unused
    <3>3. Kept(alike, P) # <<>> /\ Kept(alike, P)[1] = match
      <4>1. P # {}
        BY <3>2
      <4> HIDE DEF P
      <4>2. QED
        BY <2>2, <2>5, <3>2, <4>1, KeptFirst
    <3>4. CatalogMatch(named, used) = match
      BY <2>6, <3>3 DEF FirstOr
    <3>5. QED
      BY <1>2, <2>4, <3>4 DEF Enrich, match, named
  <2>8. CASE match \in used
    <3>1. P = {}
      <4>1. Listed(row) \subseteq used
        BY <2>1, <2>8
      <4>2. Catalog[row.city] \in Seq(DOMAIN Alike)
        BY CatalogTyped
      <4>3. \A n \in P : alike[n] \notin used /\ Contains(Catalog[row.city], alike[n])
        BY <2>3 DEF ListedAlike, Unused
      <4>4. QED
        BY <4>1, <4>2, <4>3 DEF Contains, Listed, ToSet
    <3>2. CatalogMatch(named, used) = None
      <4>1. Kept(alike, P) = <<>>
        <5> HIDE DEF P
        <5>1. QED
          BY <2>2, <2>5, <3>1, KeptFirst
      <4>2. QED
        BY <2>6, <4>1 DEF FirstOr
    <3>3. QED
      BY <1>2, <3>2 DEF Enrich, match, named
  <2>9. QED
    BY <2>7, <2>8
<1>3. QED
  BY <1>1, <1>2

\* The function that Enriched defines, up to row N.
IsEnriched(g, rs, failing, N) ==
  g = [n \in 0..N |->
         IF n = 0 THEN <<>>
         ELSE LET before == g[n - 1]
              IN Append(before, IF n \in failing THEN rs[n] ELSE Enrich(rs[n], NamesOf(before)))]

LEMMA EnrichedExists ==
  ASSUME NEW rs, NEW failing, NEW N \in Nat
  PROVE  \E g : IsEnriched(g, rs, failing, N)
<1> DEFINE Next(before, n) ==
             Append(before, IF n \in failing THEN rs[n] ELSE Enrich(rs[n], NamesOf(before)))
           T == {n \in Nat : \E g : IsEnriched(g, rs, failing, n)}
<1>1. \A g : \A n \in Nat :
        IsEnriched(g, rs, failing, n) <=>
          g = [i \in 0..n |-> IF i = 0 THEN <<>> ELSE Next(g[i - 1], i)]
  BY DEF IsEnriched
<1> HIDE DEF Next
<1>2. 0 \in T
  <2>1. IsEnriched([i \in 0..0 |-> <<>>], rs, failing, 0)
    BY DEF IsEnriched
  <2>2. QED
    BY <2>1
<1>3. ASSUME NEW n \in Nat, n \in T PROVE n + 1 \in T
  <2>1. PICK g : IsEnriched(g, rs, failing, n)
    BY <1>3
  <2> DEFINE h == [i \in 0..(n + 1) |-> IF i = n + 1 THEN Next(g[n], n + 1) ELSE g[i]]
  <2>2. \A i \in 0..n : h[i] = g[i]
    OBVIOUS
  <2>3. \A i \in 0..n : g[i] = IF i = 0 THEN <<>> ELSE Next(g[i - 1], i)
    BY <1>1, <2>1
  <2>4. \A i \in 0..(n + 1) : h[i] = IF i = 0 THEN <<>> ELSE Next(h[i - 1], i)
    <3> TAKE i \in 0..(n + 1)
    <3>1. CASE i = n + 1
      <4>1. h[i] = Next(g[n], n + 1) /\ h[i - 1] = g[n] /\ i # 0
        BY <3>1
      <4>2. QED
        BY <3>1, <4>1
    <3>2. CASE i # n + 1
      <4>1. i \in 0..n /\ (i # 0 => i - 1 \in 0..n)
        BY <3>2
      <4> HIDE DEF h
      <4>2. QED
        BY <2>2, <2>3, <4>1
    <3>3. QED
      BY <3>1, <3>2
  <2>5. h = [i \in 0..(n + 1) |-> h[i]]
    OBVIOUS
  <2> HIDE DEF h
  <2>6. h = [i \in 0..(n + 1) |-> IF i = 0 THEN <<>> ELSE Next(h[i - 1], i)]
    BY <2>4, <2>5
  <2>7. IsEnriched(h, rs, failing, n + 1)
    BY <2>6 DEF IsEnriched, Next
  <2>8. QED
    BY <2>7
<1> HIDE DEF T
<1>4. N \in T
  BY <1>2, <1>3, Induction
<1>5. QED
  BY <1>4 DEF T

LEMMA EnrichedIs ==
  ASSUME NEW rs \in Seq(HotelRow), NEW failing
  PROVE  \E g : IsEnriched(g, rs, failing, Len(rs)) /\ Enriched(rs, failing) = g[Len(rs)]
<1>1. \E g : IsEnriched(g, rs, failing, Len(rs))
  <2>1. Len(rs) \in Nat
    OBVIOUS
  <2>2. QED
    BY <2>1, EnrichedExists
<1> DEFINE c == CHOOSE g : IsEnriched(g, rs, failing, Len(rs))
<1>2. IsEnriched(c, rs, failing, Len(rs))
  BY <1>1
<1>3. Enriched(rs, failing) = c[Len(rs)]
  BY DEF Enriched, IsEnriched
<1>4. QED
  BY <1>2, <1>3

NamesBefore(t, n) == {t[k].name : k \in 1..(n - 1)}

\* t is rs with each row enriched after the rows before it.
EnrichedBy(t, rs, failing, n) ==
  /\ t \in Seq(HotelRow) /\ Len(t) = n
  /\ \A m \in 1..n : t[m] = IF m \in failing THEN rs[m] ELSE Enrich(rs[m], NamesBefore(t, m))

LEMMA EnrichedRowByRow ==
  ASSUME NEW rs \in Seq(HotelRow), NEW failing
  PROVE  EnrichedBy(Enriched(rs, failing), rs, failing, Len(rs))
<1>1. PICK g : IsEnriched(g, rs, failing, Len(rs)) /\ Enriched(rs, failing) = g[Len(rs)]
  BY EnrichedIs
<1> DEFINE N == Len(rs)
           T == {n \in Nat : n <= N => EnrichedBy(g[n], rs, failing, n)}
<1>2. N \in Nat /\ \A n \in 1..N : rs[n] \in HotelRow
  OBVIOUS
<1>3. g[0] = <<>> /\ \A n \in Nat : n < N =>
        g[n + 1] = Append(g[n], IF n + 1 \in failing THEN rs[n + 1]
                                ELSE Enrich(rs[n + 1], NamesOf(g[n])))
  <2>1. \A n \in 0..N : g[n] = IF n = 0 THEN <<>>
                               ELSE LET before == g[n - 1]
                                    IN Append(before, IF n \in failing THEN rs[n]
                                                      ELSE Enrich(rs[n], NamesOf(before)))
    BY <1>1 DEF IsEnriched
  <2> HIDE DEF N
  <2>2. ASSUME NEW n \in Nat, n < N
        PROVE  g[n + 1] = Append(g[n], IF n + 1 \in failing THEN rs[n + 1]
                                       ELSE Enrich(rs[n + 1], NamesOf(g[n])))
    <3>1. n + 1 \in 0..N /\ n + 1 # 0 /\ (n + 1) - 1 = n
      BY <1>2, <2>2
    <3>2. QED
      BY <2>1, <3>1
  <2>3. g[0] = <<>>
    BY <1>2, <2>1
  <2>4. QED
    BY <2>2, <2>3
<1> HIDE DEF N
<1>4. 0 \in T
  <2>1. <<>> \in Seq(HotelRow) /\ Len(<<>>) = 0
    OBVIOUS
  <2>2. \A m \in 1..0 : FALSE
    OBVIOUS
  <2>3. EnrichedBy(<<>>, rs, failing, 0)
    BY <2>1, <2>2 DEF EnrichedBy
  <2>4. QED
    BY <1>3, <2>3
<1>5. ASSUME NEW n \in Nat, n \in T PROVE n + 1 \in T
  <2> SUFFICES ASSUME n + 1 <= N PROVE EnrichedBy(g[n + 1], rs, failing, n + 1)
    OBVIOUS
  <2> DEFINE t == g[n]
             row == IF n + 1 \in failing THEN rs[n + 1] ELSE Enrich(rs[n + 1], NamesOf(t))
             u == Append(t, row)
  <2>1. EnrichedBy(t, rs, failing, n) /\ g[n + 1] = u
    BY <1>2, <1>3, <1>5
  <2>2. t \in Seq(HotelRow) /\ Len(t) = n /\ DOMAIN t = 1..n
    BY <2>1 DEF EnrichedBy
  <2>3. row \in HotelRow
    BY <1>2, EnrichTyped
  <2> HIDE DEF t, row
  <2>4. /\ u \in Seq(HotelRow) /\ Len(u) = n + 1 /\ u[n + 1] = row
        /\ \A k \in 1..n : u[k] = t[k]
    BY <2>2, <2>3
  <2> HIDE DEF u
  <2>5. \A m \in 1..n : NamesBefore(u, m) = NamesBefore(t, m)
    <3> TAKE m \in 1..n
    <3>1. \A k \in 1..(m - 1) : u[k] = t[k]
      BY <2>4
    <3>2. QED
      BY <3>1 DEF NamesBefore
  <2>6. NamesBefore(u, n + 1) = NamesOf(t)
    <3>1. 1..((n + 1) - 1) = DOMAIN t
      BY <2>2
    <3>2. QED
      BY <2>2, <2>4, <3>1 DEF NamesBefore, NamesOf
  <2>7. \A m \in 1..(n + 1) :
          u[m] = IF m \in failing THEN rs[m] ELSE Enrich(rs[m], NamesBefore(u, m))
    <3> TAKE m \in 1..(n + 1)
    <3>1. CASE m = n + 1
      BY <2>4, <2>6, <3>1 DEF row
    <3>2. CASE m # n + 1
      <4>1. m \in 1..n
        BY <3>2
      <4>2. t[m] = IF m \in failing THEN rs[m] ELSE Enrich(rs[m], NamesBefore(t, m))
        BY <2>1, <4>1 DEF EnrichedBy
      <4>3. QED
        BY <2>4, <2>5, <4>1, <4>2
    <3>3. QED
      BY <3>1, <3>2
  <2>8. QED
    BY <2>1, <2>4, <2>7 DEF EnrichedBy
<1> HIDE DEF T
<1>6. N \in T
  BY <1>2, <1>4, <1>5, Induction
<1>7. EnrichedBy(g[N], rs, failing, N)
  BY <1>2, <1>6 DEF T
<1>8. QED
  BY <1>1, <1>7 DEF N

\* Hotels whose catalog names are looked up once more stay as they are.
LEMMA EnrichedSettles ==
  ASSUME NEW rs \in Seq(HotelRow)
  PROVE  Enriched(Enriched(rs, {}), {}) = Enriched(rs, {})
<1> DEFINE t == Enriched(rs, {})
           u == Enriched(t, {})
           N == Len(rs)
           T == {n \in Nat : \A k \in 1..n : k <= N => u[k] = t[k]}
<1>1. EnrichedBy(t, rs, {}, N)
  BY EnrichedRowByRow
<1>2. t \in Seq(HotelRow) /\ Len(t) = N
  BY <1>1 DEF EnrichedBy
<1>3. EnrichedBy(u, t, {}, N)
  <2> HIDE DEF t
  <2>1. QED
    BY <1>2, EnrichedRowByRow
<1>4. N \in Nat /\ \A n \in 1..N : rs[n] \in HotelRow
  OBVIOUS
<1> HIDE DEF t, u, N
<1>5. /\ u \in Seq(HotelRow) /\ Len(u) = N
      /\ \A m \in 1..N : u[m] = Enrich(t[m], NamesBefore(u, m))
      /\ \A m \in 1..N : t[m] = Enrich(rs[m], NamesBefore(t, m))
  BY <1>1, <1>3 DEF EnrichedBy
<1>6. 0 \in T
  OBVIOUS
<1>7. ASSUME NEW n \in Nat, n \in T PROVE n + 1 \in T
  <2> SUFFICES ASSUME n + 1 <= N PROVE u[n + 1] = t[n + 1]
    BY <1>7
  <2>1. NamesBefore(u, n + 1) = NamesBefore(t, n + 1)
    <3>1. \A k \in 1..((n + 1) - 1) : u[k] = t[k]
      BY <1>4, <1>7
    <3>2. QED
      BY <3>1 DEF NamesBefore
  <2>2. n + 1 \in 1..N
    BY <1>4
  <2>3. Enrich(Enrich(rs[n + 1], NamesBefore(t, n + 1)), NamesBefore(t, n + 1)) = t[n + 1]
    BY <1>4, <1>5, <2>2, EnrichTwice
  <2>4. QED
    BY <1>5, <2>1, <2>2, <2>3
<1> HIDE DEF T
<1>8. N \in T
  BY <1>4, <1>6, <1>7, Induction
<1>9. \A k \in 1..N : u[k] = t[k]
  BY <1>8 DEF T
<1>10. u = t
  BY <1>2, <1>4, <1>5, <1>9
<1>11. QED
  BY <1>10 DEF t, u

\* A record of the fields F, each with its type.
Typed(d, F) == DOMAIN d = F /\ \A f \in F : FieldValue(f, d[f])

\* A form: none of its fields is null.
FormTyped(d) == Typed(d, FormFields) /\ \A f \in Scalars : d[f] # None

LEMMA FieldsApart ==
  /\ {"hotels", "destinations"} \subseteq DataFields /\ Scalars \subseteq DataFields
  /\ {"hotels", "locations"} \subseteq FormFields /\ Scalars \subseteq FormFields
  /\ \A f \in DataFields :
       f \in Scalars \cup {"travelDate"} \/ f = "hotels" \/ f = "destinations"
  /\ \A f \in FormFields : f \in Scalars \/ f = "hotels" \/ f = "locations"
  /\ \A f \in Scalars : f \notin {"hotels", "destinations", "locations"} \cup DataLists
  /\ \A f \in Counts \cup {"markup"} : f \in Scalars
  /\ People \subseteq Counts /\ People = {"adults", "children", "infants"}
  /\ "travelDate" \notin Scalars \cup DataLists
BY DEF DataFields, FormFields, DataLists, Scalars, Counts, People

LEMMA EmptyTyped == Typed(EmptyData, DataFields) /\ FormTyped(EmptyForm)
<1>1. <<>> \in Seq(HotelRow) /\ <<>> \in Seq(DOMAIN Catalog)
  OBVIOUS
<1>2. \A f \in DataFields : EmptyData[f] = IF f \in DataLists THEN <<>> ELSE None
  BY DEF EmptyData
<1>3. \A f \in FormFields : EmptyForm[f] = IF f \in {"hotels", "locations"} THEN <<>> ELSE Blank
  BY DEF EmptyForm
<1>4. DOMAIN EmptyData = DataFields /\ DOMAIN EmptyForm = FormFields
  BY DEF EmptyData, EmptyForm
<1>5. \A f \in DataFields : FieldValue(f, EmptyData[f])
  BY <1>1, <1>2, FieldsApart DEF FieldValue, DataLists
<1>6. \A f \in FormFields : FieldValue(f, EmptyForm[f])
  BY <1>1, <1>3, FieldsApart DEF FieldValue
<1>7. \A f \in Scalars : EmptyForm[f] # None
  BY <1>3, FieldsApart, IntakeAssumption
<1>8. QED
  BY <1>4, <1>5, <1>6, <1>7 DEF Typed, FormTyped

LEMMA AnswersTyped ==
  ASSUME NEW answer \in Answers \cup {<<>>}
  PROVE  DOMAIN answer \subseteq DataFields /\ \A f \in DOMAIN answer : FieldValue(f, answer[f])
<1>1. CASE answer = <<>>
  BY <1>1
<1>2. CASE answer \in Answers
  BY <1>2, IntakeAssumption
<1>3. QED
  BY <1>1, <1>2

LEMMA MergedTyped ==
  ASSUME NEW current, Typed(current, DataFields), NEW answer \in Answers \cup {<<>>}
  PROVE  Typed(Merged(current, answer), DataFields)
<1>1. DOMAIN Merged(current, answer) = DataFields
  BY DEF Merged
<1>2. ASSUME NEW f \in DataFields PROVE FieldValue(f, Merged(current, answer)[f])
  <2>1. FieldValue(f, current[f]) /\ (f \in DOMAIN answer => FieldValue(f, answer[f]))
    BY AnswersTyped DEF Typed
  <2>2. \/ Merged(current, answer)[f] = current[f]
        \/ f \in DOMAIN answer /\ Merged(current, answer)[f] = answer[f]
    BY DEF Merged, KeepOrReplace
  <2>3. QED
    BY <2>1, <2>2
<1>3. QED
  BY <1>1, <1>2 DEF Typed

\* What comes back: the merged data, its hotels enriched.
LEMMA AnsweredFields ==
  ASSUME NEW current, Typed(current, DataFields), NEW answer \in Answers \cup {<<>>}, NEW failing
  PROVE  LET data == Merged(current, answer)
             back == Answered(current, answer, failing)
         IN /\ Typed(back, DataFields)
            /\ data.hotels \in Seq(HotelRow) /\ Len(back.hotels) = Len(data.hotels)
            /\ back.hotels = Enriched(data.hotels, failing)
<1> DEFINE data == Merged(current, answer)
           back == Answered(current, answer, failing)
<1>1. Typed(data, DataFields)
  BY MergedTyped
<1>2. back = [data EXCEPT !.hotels = Enriched(data.hotels, failing)]
  BY DEF Answered
<1> HIDE DEF data, back
<1>3. DOMAIN data = DataFields /\ "hotels" \in DataFields /\ data.hotels \in Seq(HotelRow)
  BY <1>1, FieldsApart DEF Typed, FieldValue
<1>4. /\ DOMAIN back = DataFields /\ back.hotels = Enriched(data.hotels, failing)
      /\ \A f \in DataFields : f # "hotels" => back[f] = data[f]
  BY <1>2, <1>3
<1>5. EnrichedBy(back.hotels, data.hotels, failing, Len(data.hotels))
  BY <1>3, <1>4, EnrichedRowByRow
<1>6. back.hotels \in Seq(HotelRow) /\ Len(back.hotels) = Len(data.hotels)
  BY <1>5 DEF EnrichedBy
<1>7. ASSUME NEW f \in DataFields PROVE FieldValue(f, back[f])
  <2>1. CASE f = "hotels"
    BY <1>6, <2>1, FieldsApart DEF FieldValue
  <2>2. CASE f # "hotels"
    BY <1>1, <1>4, <2>2 DEF Typed
  <2>3. QED
    BY <2>1, <2>2
<1>8. QED
  BY <1>3, <1>4, <1>6, <1>7 DEF Typed, data, back

\* The cities of a form stay in front.
LEMMA LocationsKept ==
  ASSUME NEW old \in Seq(DOMAIN Catalog), NEW destinations \in Seq(DOMAIN Catalog),
         NEW hotels \in Seq(HotelRow)
  PROVE  LET merged == MergedLocations(old, destinations, hotels)
         IN merged \in Seq(DOMAIN Catalog) /\ IsPrefix(old, merged)
<1> DEFINE found == IF destinations # <<>> THEN destinations ELSE CitiesOnce(hotels)
           P == {n \in DOMAIN found : ~Contains(old, found[n])}
           added == Kept(found, P)
<1>1. CitiesOnce(hotels) \in Seq(DOMAIN Catalog)
  <2> DEFINE cities == [i \in DOMAIN hotels |-> hotels[i].city]
  <2>1. DOMAIN hotels = 1..Len(hotels) /\ Len(hotels) \in Nat
    OBVIOUS
  <2>2. \A i \in DOMAIN hotels : hotels[i].city \in DOMAIN Catalog
    <3>1. \A i \in DOMAIN hotels : hotels[i] \in HotelRow
      OBVIOUS
    <3>2. QED
      BY <3>1 DEF HotelRow
  <2>3. cities \in Seq(DOMAIN Catalog)
    BY <2>1, <2>2
  <2>4. CitiesOnce(hotels) = Kept(cities, FirstPositions(cities))
    BY DEF CitiesOnce
  <2> HIDE DEF cities
  <2>5. QED
    BY <2>3, <2>4, FirstsDistinct
<1>2. found \in Seq(DOMAIN Catalog) /\ P \in SUBSET DOMAIN found
  BY <1>1
<1>3. MergedLocations(old, destinations, hotels) = old \o added
  BY DEF MergedLocations
<1> HIDE DEF found, P
<1>4. added \in Seq(DOMAIN Catalog)
  BY <1>2, KeptFirst
<1> HIDE DEF added
<1>5. /\ old \o added \in Seq(DOMAIN Catalog) /\ Len(old) <= Len(old \o added)
      /\ SubSeq(old \o added, 1, Len(old)) = old /\ SubSeq(old, 1, Len(old)) = old
  BY <1>4
<1>6. QED
  BY <1>3, <1>5 DEF IsPrefix

\* The travelers of a form, given the people that the data names.
LEMMA TotalCounts ==
  ASSUME NEW data, Typed(data, DataFields)
  PROVE  /\ Total(data) \in Nat \cup {Blank, Garbled}
         /\ Total(data) = Blank => \A f \in People : data[f] = Blank
<1>1. Blank \notin Nat \cup {Garbled}
  BY IntakeAssumption
<1>2. CASE \E f \in People : data[f] = Blank
  BY <1>1, <1>2 DEF Total
<1>3. CASE \A f \in People : data[f] # Blank
  <2>1. \A f \in People : FieldValue(f, data[f]) /\ f \in Counts
    BY FieldsApart DEF Typed
  <2>2. \A f \in People : data[f] \in Nat \cup {None}
    BY <1>3, <2>1 DEF FieldValue
  <2>3. \A f \in People : Zero(data[f]) \in Nat
    BY <2>2 DEF Zero
  <2>4. Total(data) = Zero(data.adults) + Zero(data.children) + Zero(data.infants)
    BY <1>3, FieldsApart DEF Total
  <2>5. /\ Zero(data.adults) \in Nat /\ Zero(data.children) \in Nat
        /\ Zero(data.infants) \in Nat
    BY <2>3, FieldsApart
  <2>6. Total(data) \in Nat
    BY <2>4, <2>5
  <2>7. QED
    BY <1>1, <2>6
<1>4. QED
  BY <1>2, <1>3

\* What a form becomes with an answer.
LEMMA MergeKeeps ==
  ASSUME NEW fields, FormTyped(fields), NEW data, Typed(data, DataFields)
  PROVE  LET merged == MergeExtracted(fields, data)
         IN /\ FormTyped(merged)
            /\ merged.hotels = KeepOrReplace(data.hotels, fields.hotels)
            /\ IsPrefix(fields.locations, merged.locations)
            /\ \A f \in Scalars :
                 /\ ~Empty(fields[f]) /\ Empty(merged[f]) => f # "name" /\ ToldBlank(data, f)
                 /\ ~Empty(data[f]) => merged[f] = data[f]
<1> DEFINE merged == MergeExtracted(fields, data)
           hotels == KeepOrReplace(data.hotels, fields.hotels)
           count == IF \A f \in People : data[f] = None THEN fields.travelers ELSE Total(data)
<1>1. /\ data.hotels \in Seq(HotelRow) /\ data.destinations \in Seq(DOMAIN Catalog)
      /\ fields.hotels \in Seq(HotelRow) /\ fields.locations \in Seq(DOMAIN Catalog)
  BY FieldsApart DEF FormTyped, Typed, FieldValue
<1>2. hotels \in Seq(HotelRow)
  BY <1>1 DEF KeepOrReplace
<1>3. /\ FieldValue("travelers", count) /\ count # None
      /\ count = Blank => fields.travelers = Blank \/ \A f \in People : data[f] = Blank
  <2>1. "travelers" \in Scalars /\ "travelers" \in FormFields
    BY DEF Scalars, FormFields, Counts
  <2>2. FieldValue("travelers", fields.travelers) /\ fields.travelers # None
    BY <2>1 DEF FormTyped, Typed
  <2>3. Total(data) \in Nat \cup {None, Blank, Garbled} /\ Total(data) # None
    BY TotalCounts, IntakeAssumption
  <2>4. FieldValue("travelers", Total(data))
    BY <2>3 DEF FieldValue, People
  <2>5. QED
    BY <2>2, <2>3, <2>4, TotalCounts
<1> HIDE DEF count, hotels
<1>4. DOMAIN merged = FormFields /\ merged.hotels = hotels
  BY FieldsApart DEF MergeExtracted, hotels
<1>5. merged.locations = MergedLocations(fields.locations, data.destinations, hotels)
  BY FieldsApart DEF MergeExtracted, hotels
<1>6. ASSUME NEW f \in Scalars
      PROVE  \/ f = "name" /\ merged[f] = OrTruthy(data[f], fields[f])
             \/ f = "startDate" /\ merged[f] = OrKept(data[f], OrKept(data.travelDate, fields[f]))
             \/ f = "travelers" /\ merged[f] = OrKept(data[f], count)
             \/ f # "name" /\ merged[f] = OrKept(data[f], fields[f])
  BY FieldsApart DEF MergeExtracted, count
<1> HIDE DEF merged
<1>7. /\ merged.locations \in Seq(DOMAIN Catalog)
      /\ IsPrefix(fields.locations, merged.locations)
  BY <1>1, <1>2, <1>5, LocationsKept
<1>8. ASSUME NEW f \in Scalars
      PROVE  /\ ~Empty(fields[f]) /\ Empty(merged[f]) => f # "name" /\ ToldBlank(data, f)
             /\ ~Empty(data[f]) => merged[f] = data[f]
             /\ FieldValue(f, merged[f]) /\ merged[f] # None
  <2>1. FieldValue(f, data[f]) /\ FieldValue(f, fields[f]) /\ fields[f] # None
    BY FieldsApart DEF FormTyped, Typed
  <2>2. CASE f = "name" /\ merged[f] = OrTruthy(data[f], fields[f])
    BY <2>1, <2>2 DEF OrTruthy, Empty
  <2>3. CASE f = "startDate" /\ merged[f] = OrKept(data[f], OrKept(data.travelDate, fields[f]))
    <3>1. FieldValue(f, merged[f])
      BY <2>3 DEF FieldValue, People
    <3>2. QED
      BY <2>1, <2>3, <3>1 DEF OrKept, Empty, ToldBlank
  <2>4. CASE f = "travelers" /\ merged[f] = OrKept(data[f], count)
    BY <1>3, <2>1, <2>4 DEF OrKept, Empty, ToldBlank
  <2>5. CASE f # "name" /\ merged[f] = OrKept(data[f], fields[f])
    BY <2>1, <2>5 DEF OrKept, Empty, ToldBlank
  <2>6. QED
    BY <1>6, <2>2, <2>3, <2>4, <2>5
<1>9. ASSUME NEW f \in FormFields PROVE FieldValue(f, merged[f])
  <2>1. CASE f \in Scalars
    BY <1>8, <2>1
  <2>2. CASE f = "hotels"
    BY <1>2, <1>4, <2>2, FieldsApart DEF FieldValue
  <2>3. CASE f = "locations"
    BY <1>7, <2>3, FieldsApart DEF FieldValue
  <2>4. QED
    BY <2>1, <2>2, <2>3, FieldsApart
<1>10. FormTyped(merged)
  BY <1>4, <1>8, <1>9 DEF Typed, FormTyped
<1>11. QED
  BY <1>4, <1>7, <1>8, <1>10 DEF merged, hotels

\* Until the form is edited by hand: a message takes along what the dialog knows, the form
\* shows the hotels it knows, and these have settled unless a query failed.
IntakeInv ==
  /\ IntakeTypeOK
  /\ ~touched =>
       /\ asked # None => asked = extracted
       /\ filled.hotels = extracted.hotels
       /\ ~skipped => Enriched(extracted.hotels, {}) = extracted.hotels

LEMMA TypedData ==
  IntakeTypeOK <=> /\ Typed(extracted, DataFields) /\ FormTyped(filled)
                   /\ asked # None => Typed(asked, DataFields)
                   /\ touched \in BOOLEAN /\ skipped \in BOOLEAN
BY DEF IntakeTypeOK, Typed, FormTyped

LEMMA EnrichedNone == Enriched(<<>>, {}) = <<>>
<1>1. <<>> \in Seq(HotelRow) /\ Len(<<>>) = 0
  OBVIOUS
<1>2. EnrichedBy(Enriched(<<>>, {}), <<>>, {}, 0)
  BY <1>1, EnrichedRowByRow
<1>3. QED
  BY <1>2 DEF EnrichedBy

\* What an answer does to the data and the form.
LEMMA ReceivedAnswer ==
  ASSUME IntakeInv, ReceiveAnswer
  PROVE  /\ Typed(extracted', DataFields)
         /\ filled' = MergeExtracted(filled, extracted')
         /\ FormTyped(filled')
         /\ ~touched =>
              /\ filled'.hotels = extracted'.hotels
              /\ ~skipped' => Enriched(extracted'.hotels, {}) = extracted'.hotels
              /\ ~skipped' => \/ filled'.hotels = filled.hotels
                              \/ \E answer \in Answers :
                                   /\ "hotels" \in DOMAIN answer /\ answer.hotels # <<>>
                                   /\ extracted'.hotels = Enriched(answer.hotels, {})
<1>1. PICK answer \in Answers \cup {<<>>} :
        \E failing \in SUBSET DOMAIN Merged(asked, answer).hotels :
          extracted' = Answered(asked, answer, failing) /\ skipped' = (skipped \/ failing # {})
  BY DEF ReceiveAnswer
<1>2. PICK failing :
        extracted' = Answered(asked, answer, failing) /\ skipped' = (skipped \/ failing # {})
  BY <1>1
<1>3. /\ asked # None /\ filled' = MergeExtracted(filled, extracted')
      /\ Typed(asked, DataFields) /\ FormTyped(filled) /\ Typed(extracted, DataFields)
  BY TypedData DEF IntakeInv, ReceiveAnswer
<1> DEFINE hotels == Merged(asked, answer).hotels
<1>4. /\ Typed(extracted', DataFields) /\ hotels \in Seq(HotelRow)
      /\ Len(extracted'.hotels) = Len(hotels) /\ extracted'.hotels = Enriched(hotels, failing)
  BY <1>2, <1>3, AnsweredFields
<1>5. /\ FormTyped(filled')
      /\ filled'.hotels = KeepOrReplace(extracted'.hotels, filled.hotels)
  BY <1>3, <1>4, MergeKeeps
<1>6. hotels = IF "hotels" \in DOMAIN answer THEN KeepOrReplace(answer.hotels, asked.hotels)
               ELSE asked.hotels
  BY FieldsApart DEF Merged, DataLists
<1> HIDE DEF hotels
<1>7. extracted'.hotels \in Seq(HotelRow)
  BY <1>4, FieldsApart DEF Typed, FieldValue
<1>8. ASSUME ~touched
      PROVE  /\ filled'.hotels = extracted'.hotels
             /\ ~skipped' => Enriched(extracted'.hotels, {}) = extracted'.hotels
             /\ ~skipped' => \/ filled'.hotels = filled.hotels
                             \/ \E a \in Answers : /\ "hotels" \in DOMAIN a /\ a.hotels # <<>>
                                                   /\ extracted'.hotels = Enriched(a.hotels, {})
  <2>1. /\ asked = extracted /\ filled.hotels = extracted.hotels
        /\ ~skipped => Enriched(extracted.hotels, {}) = extracted.hotels
    BY <1>3, <1>8 DEF IntakeInv
  <2>2. filled'.hotels = extracted'.hotels
    <3>1. CASE extracted'.hotels # <<>>
      BY <1>5, <3>1 DEF KeepOrReplace
    <3>2. CASE extracted'.hotels = <<>>
      <4>1. hotels = <<>>
        BY <1>4, <3>2
      <4>2. asked.hotels = <<>>
        BY <1>6, <4>1 DEF KeepOrReplace
      <4>3. QED
        BY <1>5, <2>1, <3>2, <4>2 DEF KeepOrReplace
    <3>3. QED
      BY <3>1, <3>2
  <2>3. ASSUME ~skipped'
        PROVE  /\ Enriched(extracted'.hotels, {}) = extracted'.hotels
               /\ \/ filled'.hotels = filled.hotels
                  \/ \E a \in Answers : /\ "hotels" \in DOMAIN a /\ a.hotels # <<>>
                                        /\ extracted'.hotels = Enriched(a.hotels, {})
    <3>1. failing = {} /\ ~skipped
      BY <1>2, <2>3
    <3>2. Enriched(extracted'.hotels, {}) = extracted'.hotels
      BY <1>4, <3>1, EnrichedSettles
    <3>3. CASE "hotels" \in DOMAIN answer /\ answer.hotels # <<>>
      <4>1. answer \in Answers /\ hotels = answer.hotels
        BY <1>6, <3>3 DEF KeepOrReplace
      <4>2. QED
        BY <1>4, <3>1, <3>2, <3>3, <4>1
    <3>4. CASE ~("hotels" \in DOMAIN answer /\ answer.hotels # <<>>)
      <4>1. hotels = extracted.hotels
        BY <1>6, <2>1, <3>4 DEF KeepOrReplace
      <4>2. extracted'.hotels = filled.hotels
        BY <1>4, <2>1, <3>1, <4>1
      <4>3. QED
        BY <2>2, <3>2, <4>2
    <3>5. QED
      BY <3>3, <3>4
  <2>4. QED
    BY <2>2, <2>3
<1>9. QED
  BY <1>3, <1>4, <1>5, <1>8

LEMMA IntakeInvariant == IntakeSpec => []IntakeInv
<1>1. IntakeInit => IntakeInv
  <2> SUFFICES ASSUME IntakeInit PROVE IntakeInv
    OBVIOUS
  <2>1. IntakeTypeOK
    BY EmptyTyped, TypedData DEF IntakeInit
  <2>2. filled.hotels = <<>> /\ extracted.hotels = <<>>
    BY FieldsApart DEF IntakeInit, EmptyData, EmptyForm, DataLists
  <2>3. QED
    BY <2>1, <2>2, EnrichedNone DEF IntakeInit, IntakeInv
<1>2. IntakeInv /\ [IntakeNext]_intakeVars => IntakeInv'
  <2> SUFFICES ASSUME IntakeInv, [IntakeNext]_intakeVars PROVE IntakeInv'
    OBVIOUS
  <2>1. /\ Typed(extracted, DataFields) /\ FormTyped(filled)
        /\ asked # None => Typed(asked, DataFields)
        /\ touched \in BOOLEAN /\ skipped \in BOOLEAN
    BY TypedData DEF IntakeInv
  <2>2. /\ Typed(extracted', DataFields) /\ FormTyped(filled')
        /\ asked' # None => Typed(asked', DataFields)
        /\ touched' \in BOOLEAN /\ skipped' \in BOOLEAN
        => IntakeTypeOK'
    BY DEF IntakeTypeOK, Typed, FormTyped
  <2>3. CASE SendChat
    BY <2>1, <2>2, <2>3 DEF SendChat, IntakeInv
  <2>4. CASE ReceiveAnswer
    <3>1. /\ Typed(extracted', DataFields) /\ FormTyped(filled')
          /\ ~touched =>
               /\ filled'.hotels = extracted'.hotels
               /\ ~skipped' => Enriched(extracted'.hotels, {}) = extracted'.hotels
      BY <2>4, ReceivedAnswer
    <3>2. asked' = None /\ touched' = touched /\ skipped' \in BOOLEAN
      BY <2>1, <2>4 DEF ReceiveAnswer
    <3>3. QED
      BY <2>1, <2>2, <3>1, <3>2 DEF IntakeInv
  <2>5. CASE LoseAnswer
    BY <2>1, <2>2, <2>5 DEF LoseAnswer, IntakeInv
  <2>6. CASE EditForm
    <3>1. PICK edit \in Edits :
            filled' = [f \in FormFields |-> IF f \in DOMAIN edit THEN edit[f] ELSE filled[f]]
      BY <2>6 DEF EditForm
    <3>2. FormTyped(filled')
      <4>1. edit \in Edits /\ DOMAIN edit \subseteq FormFields
        BY <3>1, IntakeAssumption
      <4>2. \A f \in DOMAIN edit : FieldValue(f, edit[f]) /\ edit[f] # None
        BY <4>1, IntakeAssumption
      <4>3. QED
        BY <2>1, <3>1, <4>1, <4>2, FieldsApart DEF Typed, FormTyped
    <3>3. QED
      BY <2>1, <2>2, <2>6, <3>2 DEF EditForm, IntakeInv
  <2>7. CASE CloseDialog
    <3>1. extracted' = EmptyData /\ filled' = EmptyForm /\ asked' = asked
      BY <2>7 DEF CloseDialog
    <3>2. touched' \in BOOLEAN /\ skipped' \in BOOLEAN /\ (~touched' => asked = None)
      BY <2>1, <2>7 DEF CloseDialog
    <3>3. IntakeTypeOK'
      BY <2>1, <2>2, <3>1, <3>2, EmptyTyped
    <3>4. filled'.hotels = <<>> /\ extracted'.hotels = <<>>
      BY <3>1, FieldsApart DEF EmptyData, EmptyForm, DataLists
    <3>5. QED
      BY <3>1, <3>2, <3>3, <3>4, EnrichedNone DEF IntakeInv
  <2>8. CASE UNCHANGED intakeVars
    BY <2>1, <2>2, <2>8 DEF intakeVars, IntakeInv
  <2>9. QED
    BY <2>3, <2>4, <2>5, <2>6, <2>7, <2>8 DEF IntakeNext
<1>3. QED
  BY <1>1, <1>2, PTL DEF IntakeSpec

\* In every reachable state the data extracted, the form and the data on its way have the
\* type of their fields: no merge of LeadCreateDialog.tsx or of the server mixes them up.
THEOREM IntakeTypeCorrect == IntakeSpec => []IntakeTypeOK
<1>1. IntakeInv => IntakeTypeOK
  BY DEF IntakeInv
<1>2. QED
  BY <1>1, IntakeInvariant, PTL

\* mergeExtracted (LeadCreateDialog.tsx:165-235) never overwrites with null: an answer empties
\* no list of the form and not its name, a date or a number only where the data says "" for it;
\* it keeps the form's cities in front, and leaves the form agreeing with what the next message
\* sends.
THEOREM AnswersKeepForm == IntakeSpec => IntakeKeepsForm
<1>1. ASSUME IntakeInv, ReceiveAnswer
      PROVE  /\ \A f \in Scalars : ~Empty(filled[f]) /\ Empty(filled'[f]) =>
                  f # "name" /\ ToldBlank(extracted', f)
             /\ filled.hotels # <<>> => filled'.hotels # <<>>
             /\ IsPrefix(filled.locations, filled'.locations)
             /\ \A f \in Scalars : ~Empty(extracted'[f]) => filled'[f] = extracted'[f]
  <2>1. Typed(extracted', DataFields) /\ filled' = MergeExtracted(filled, extracted')
    BY <1>1, ReceivedAnswer
  <2>2. FormTyped(filled)
    BY <1>1, TypedData DEF IntakeInv
  <2>3. QED
    BY <2>1, <2>2, MergeKeeps DEF KeepOrReplace
<1>2. QED
  BY <1>1, IntakeInvariant, PTL DEF IntakeKeepsForm, IntakeSpec

\* enrichExtractedData settles: catalog names looked up again with every answer stay, for any
\* catalog, likeness of names and answers, unless a query failed or the form was edited.
THEOREM HotelsStay == IntakeSpec => HotelsSettle
<1>1. ASSUME IntakeInv, ReceiveAnswer, ~touched, ~skipped'
      PROVE  filled'.hotels = filled.hotels
               \/ \E answer \in Answers : "hotels" \in DOMAIN answer /\ answer.hotels # <<>>
                    /\ extracted'.hotels = Enriched(answer.hotels, {})
  BY <1>1, ReceivedAnswer
<1>2. QED
  BY <1>1, IntakeInvariant, PTL DEF HotelsSettle, IntakeSpec

=============================================================================
