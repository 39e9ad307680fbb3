---------------------------- MODULE MCBackOffice ----------------------------
(***************************************************************************)
(* The components of the back office that share no state, explored one at  *)
(* a time: the initial state picks the component, which then runs alone.   *)
(***************************************************************************)
EXTENDS AiApproval, InquiryConversion, TripBookings, TripRisk, VendorRates,
        WorkspaceAccess, LeadPricing, QuoteText, LeadIntake, TLC

VARIABLE component  \* the component this behaviour is about

officeVars == <<component, aiVars, inquiryVars, tripVars, riskVars, rateVars, accessVars,
                quoteVars, textVars, intakeVars>>

Components == {"ai", "inquiry", "trip", "risk", "rate", "access", "quote", "text", "intake"}

\* Every component at rest, but for the one explored, starts from one state.
OfficeInit ==
  /\ component \in Components
  /\ AiInit /\ InquiryInit /\ TripInit /\ RiskInit /\ RateInit /\ AccessInit
  /\ QuoteInit /\ TextInit /\ IntakeInit
  /\ component # "quote" =>
       party = 3 /\ savedFor = None /\ \A row \in HotelRows : stored[row] = None

OfficeNext ==
  /\ UNCHANGED component
  /\ \/ component = "ai" /\ AiNext
     \/ component = "inquiry" /\ InquiryNext
     \/ component = "trip" /\ TripNext
     \/ component = "risk" /\ RiskNext
     \/ component = "rate" /\ RateNext
     \/ component = "access" /\ AccessNext
     \/ component = "quote" /\ QuoteNext
     \/ component = "text" /\ TextNext
     \/ component = "intake" /\ IntakeNext
  /\ component # "ai" => UNCHANGED aiVars
  /\ component # "inquiry" => UNCHANGED inquiryVars
  /\ component # "trip" => UNCHANGED tripVars
  /\ component # "risk" => UNCHANGED riskVars
  /\ component # "rate" => UNCHANGED rateVars
  /\ component # "access" => UNCHANGED accessVars
  /\ component # "quote" => UNCHANGED quoteVars
  /\ component # "text" => UNCHANGED textVars
  /\ component # "intake" => UNCHANGED intakeVars

OfficeSpec == OfficeInit /\ [][OfficeNext]_officeVars

-----------------------------------------------------------------------------
(* Instances *)

\* Bookings the assessment tells apart.
BookingForm(kind, status, date, referenced, approved) ==
  [kind |-> kind, status |-> status, date |-> date, referenced |-> referenced,
   approved |-> approved]

RiskDates == TravelDays \cup {None}

SomeBookings ==
  {BookingForm("HOTEL", "PENDING", d, FALSE, FALSE) : d \in RiskDates}
    \cup {BookingForm("TRANSFER", "CONFIRMED", 31, referenced, FALSE) : referenced \in BOOLEAN}
    \cup {BookingForm("VISA", "PENDING", 31, FALSE, approved) : approved \in BOOLEAN}
    \cup {BookingForm("VISA", "CANCELLED", 21, FALSE, FALSE)}

\* Rates of one line for a code or a hotel: two until day 2, and an open-ended draft from day
\* 3 on, which a change can bring into force.  Changes point a rate at the hotel, or clear its
\* code.
RateFor(target, window, status) ==
  target @@ window @@ [status |-> status, line |-> "vendor"]
    @@ [hotel |-> None, service |-> None, code |-> None]

SomeRates ==
  {RateFor([code |-> "c"], [from |-> 1, to |-> 2], "ACTIVE"),
   RateFor([hotel |-> "h"], [from |-> 1, to |-> 2], "ACTIVE"),
   RateFor([code |-> "c"], [from |-> 3, to |-> None], "DRAFT")}

SomeRateChanges ==
  {[status |-> "ACTIVE", to |-> 3], [hotel |-> "h"]}
    \cup {[code |-> c] : c \in {None, "", " "}}

SomeRoles == {{"OWNER"}, {"SUPER"}} \cup {{x} : x \in CustomRoles}

\* Options other clients stored, what the dialog extracts, and what the editor changes.
BareOption == [f \in OptionFields |-> IF f = "currency" THEN "AED" ELSE None]

SomeOptions ==
  {[BareOption EXCEPT !.currency = c, ![p] = 1001, !.nights = 3] :
     c \in {"AED", "USD"}, p \in {"perNight", "total", "perPerson"}}

SomeExtractions ==
  {[BareOption EXCEPT !.perNight = 100, !.occupancyType = t] :
     t \in {None, "TRIPLE"}}

SomePatches ==
  {[perNight |-> None], [nights |-> 2], [rooms |-> None],
   [occupancyType |-> "SINGLE", maxOccupancy |-> 1, rooms |-> None]}

\* Two cities; a typed name like another hotel's; "-" stands for a placeholder.
SomeCatalog == [k1 |-> <<"A", "B">>, k2 |-> <<"C">>]
SomeAlike == [A |-> <<"A", "B">>, B |-> <<"B", "A">>, C |-> <<"C">>, x |-> <<"B">>,
              generic |-> <<>>]

HotelAt(city, name) == [city |-> city, name |-> name]

SomeAnswers ==
  {[hotels |-> <<HotelAt("k1", "A"), HotelAt("k1", "A")>>],
   [hotels |-> <<HotelAt("k1", "generic"), HotelAt("k1", "A")>>],
   [hotels |-> <<HotelAt("k1", "x"), HotelAt("k2", "generic")>>],
   [destinations |-> <<"k2", "k1">>, hotels |-> <<>>],
   [name |-> "n1", adults |-> 2, children |-> 1, travelDate |-> "d1"],
   [name |-> Blank, adults |-> Blank, children |-> 2, travelers |-> None, startDate |-> Blank],
   [travelers |-> 4, markup |-> 15],
   [name |-> None, markup |-> None, adults |-> None, travelers |-> None, startDate |-> None]}

SomeEdits ==
  {[name |-> "n2", adults |-> 1, startDate |-> "d2"], [locations |-> <<"k1">>, hotels |-> <<>>]}

-----------------------------------------------------------------------------
(* Bounds *)

Busy(requests) == {r \in Requests : requests[r].pc # "idle"}

\* A company is involved in some inquiry, lead or agency.
CompanyInPlay ==
  \/ everNamed # {}
  \/ \E i \in Inquiries : inquiry[i].company # None
  \/ \E l \in InquiryLeads : salesLead[l].company # None
  \/ \E r \in Requests : inquiryReq[r].pc \in {"findAgency", "checkAgency", "insertAgency"}

Bounds ==
  \* One inquiry and one lead where a company is involved, the way to its conversion only;
  \* two inquiries side by side while none is removed or sent back for information.
  /\ CompanyInPlay =>
       /\ \E i \in Inquiries : inquiry[i].status = "ABSENT"
       /\ \E l \in InquiryLeads : ~salesLead[l].made
       /\ \A i \in Inquiries :
            inquiry[i].status \in {"ABSENT", "DRAFT", "READY_FOR_PRICING", "CONVERTED"}
  /\ (\A i \in Inquiries : inquiry[i].status # "ABSENT") =>
       \A i \in Inquiries :
         inquiry[i].status # "COLLECTING_INFORMATION" /\ ~inquiry[i].removed
  /\ Cardinality(Busy(riskReq)) <= 1
  \* Once two rates have raced, nothing is promised.
  /\ ~raced
  \* One super-admin; two requests together only on system roles and before a removal.
  /\ \A u \in Members : u > 1 => "SUPER" \notin member[u].roles
  /\ Busy(accessReq) = Requests =>
       /\ \A x \in CustomRoles : role[x].state = "absent"
       /\ \A u \in Members : member[u].state # "removed"
  /\ \A u \in Members, x \in CustomRoles : member[u].state = "removed" => role[x].state = "absent"
  \* One row is stored, a second one added next to it while it is unchanged, for one party.
  /\ (\A row \in HotelRows : form[row] # None) => party = 3
  /\ \E row \in HotelRows : stored[row] = None
  /\ \E row \in HotelRows : form[row] \in {None, stored[row]}

Symmetry ==
  Permutations(Requests) \cup Permutations(Inquiries) \cup Permutations(InquiryLeads)
    \cup Permutations(Rates)

-----------------------------------------------------------------------------
\* The values of the component explored have the types its schemas give them.
OfficeTypeOK ==
  CASE component = "ai" -> AiTypeOK
    [] component = "inquiry" -> InquiryTypeOK
    [] component = "trip" -> TripTypeOK
    [] component = "risk" -> RiskTypeOK
    [] component = "rate" -> RateTypeOK
    [] component = "access" -> AccessTypeOK
    [] component = "quote" -> QuoteTypeOK
    [] component = "text" -> TextTypeOK
    [] component = "intake" -> IntakeTypeOK

=============================================================================
