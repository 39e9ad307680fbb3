---------------------------- MODULE LeadPricing ----------------------------
(***************************************************************************)
(* The hotel prices of a lead in the browser: lead-pricing.ts, the create  *)
(* dialog that first computes them, and the overview tab that edits them.  *)
(* An option may carry a price per night, a total or a price per person,   *)
(* in dirhams or dollars, and room, night and pax counts of its own; each  *)
(* edit of a row and each save normalizes it to whole dirhams.             *)
(*                                                                         *)
(* A lead is saved as a whole and the answer re-seeds the form.  Amounts   *)
(* are integers; conversions are exact, in ten-thousandths of a dirham.    *)
(***************************************************************************)
EXTENDS Handlers, Integers

CONSTANTS
  HotelRows,     \* the option rows of a lead
  Parties,       \* sizes of the party: adults and children
  StoredOptions, \* options other clients have stored: [OptionFields -> value or None]
  RowPatches,    \* the partial changes the editor makes to a row
  Extractions    \* what the intake found out about a hotel: [currency, perNight, nights, ...]

Scale == 10000
AedRate == [AED |-> 10000, USD |-> 36725]  \* a unit of the currency, in scaled dirhams
Occupancy == [SINGLE |-> 1, DOUBLE |-> 2, TRIPLE |-> 3]
DefaultNights == 1

OptionFields == {"currency", "perNight", "total", "perPerson", "occupancyType",
                 "maxOccupancy", "paxCount", "nights", "rooms"}

\* LeadHotelOptionDto: amounts are not negative, counts are positive, any of them may be missing.
Amounts == {"perNight", "total", "perPerson"}
FieldValues(f) ==
  CASE f = "currency" -> DOMAIN AedRate
    [] f = "occupancyType" -> DOMAIN Occupancy \cup {None}
    [] f \in Amounts -> Nat \cup {None}
    [] OTHER -> (Nat \ {0}) \cup {None}

HotelOption(o) ==
  /\ o = [f \in OptionFields |-> o[f]]
  /\ \A f \in OptionFields : o[f] \in FieldValues(f)

ASSUME PricingAssumption ==
  /\ Parties \subseteq Nat \ {0}
  /\ None \notin Nat /\ None \notin DOMAIN Occupancy
  /\ \A o \in StoredOptions : HotelOption(o)
  /\ \A patch \in RowPatches : \A f \in DOMAIN patch : f \in OptionFields => patch[f] \in FieldValues(f)
  /\ \A h \in Extractions : HotelOption(h) /\ h.perNight # None

VARIABLES
  stored,   \* [HotelRows -> the option saved with the lead, or None]
  form,     \* [HotelRows -> the option in the overview tab's form, or None]
  party,    \* the party in the form
  savedFor  \* the party the stored options were last computed for, or None

quoteVars == <<stored, form, party, savedFor>>

-----------------------------------------------------------------------------
(* lead-pricing.ts *)

\* Math.round of a quotient of positive numbers: halves go up.
RoundQuotient(x, y) == (2 * x + y) \div (2 * y)

CeilQuotient(x, y) == (x + y - 1) \div y

\* toInternalAed, times Scale.
Converted(amount, currency) == IF amount = None THEN None ELSE amount * AedRate[currency]

\* occupancyToMax: double when nothing else is said.
OccupancyToMax(type) == IF type = None THEN 2 ELSE Occupancy[type]

\* requiredRoomCount: an explicit number of rooms is honoured.
RequiredRoomCount(pax, maxOccupancy, requested) ==
  IF requested # None THEN requested ELSE CeilQuotient(pax, maxOccupancy)

OrElse(value, default) == IF value = None THEN default ELSE value

\* Mutant: a total is taken for dirhams whatever its currency.
PricePerNightUnconverted(o, sharing, roomNights) ==
  LET perNight == Converted(o.perNight, o.currency)
      perPerson == Converted(o.perPerson, o.currency)
  IN IF perNight # None THEN RoundQuotient(perNight, Scale)
     ELSE IF o.total # None THEN RoundQuotient(o.total, roomNights)
     ELSE IF perPerson # None THEN RoundQuotient(perPerson * sharing, Scale * roomNights)
     ELSE None

\* The whole-dirham price per night: the one given, or what the total or the price per
\* person comes to over the room-nights.
PricePerNight(o, sharing, roomNights) ==
  LET perNight == Converted(o.perNight, o.currency)
      total == Converted(o.total, o.currency)
      perPerson == Converted(o.perPerson, o.currency)
  IN IF perNight # None THEN RoundQuotient(perNight, Scale)
     ELSE IF total # None THEN RoundQuotient(total, Scale * roomNights)
     ELSE IF perPerson # None THEN RoundQuotient(perPerson * sharing, Scale * roomNights)
     ELSE None

\* normalizeHotelOption
Normalize(o, pax) ==
  LET maxOccupancy == OrElse(o.maxOccupancy, OccupancyToMax(o.occupancyType))
      sharing == OrElse(o.paxCount, pax)
      nights == OrElse(o.nights, DefaultNights)
      rooms == RequiredRoomCount(sharing, maxOccupancy, o.rooms)
      perNight == PricePerNight(o, sharing, nights * rooms)
      total == IF perNight = None THEN None ELSE perNight * nights * rooms
  IN [o EXCEPT !.currency = "AED", !.maxOccupancy = maxOccupancy, !.nights = nights,
               !.rooms = rooms, !.perNight = perNight, !.total = total,
               !.perPerson = IF total = None THEN None ELSE RoundQuotient(total, sharing)]

-----------------------------------------------------------------------------
(* The create dialog *)

\* calcHotelOption: the dialog's own computation, with the dialog's own party.
Extracted(h, pax) ==
  LET maxOccupancy == OrElse(h.maxOccupancy, OccupancyToMax(h.occupancyType))
      sharing == OrElse(h.paxCount, pax)
      nights == OrElse(h.nights, DefaultNights)
      rooms == RequiredRoomCount(sharing, maxOccupancy, h.rooms)
      total == h.perNight * nights * rooms
  IN [h EXCEPT !.currency = "AED", !.maxOccupancy = maxOccupancy, !.nights = nights,
               !.rooms = rooms, !.total = total, !.perPerson = RoundQuotient(total, sharing)]

\* The overview tab opens on what is stored: what the dialog computed, for a party that may
\* count infants as well, or what any other client has stored.
QuoteInit ==
  /\ party \in Parties
  /\ \/ /\ savedFor \in Parties
        /\ stored \in [HotelRows -> {None} \cup {Extracted(h, savedFor) : h \in Extractions}]
     \/ /\ savedFor = None
        /\ stored \in [HotelRows -> {None} \cup StoredOptions]
  /\ form = stored

-----------------------------------------------------------------------------
(* The overview tab *)

\* Mutant: a save keeps the totals the form shows.
NormalizedKeepsTotals(rows, pax) ==
  [r \in HotelRows |-> IF rows[r] = None THEN None
                       ELSE [Normalize(rows[r], pax) EXCEPT !.total = rows[r].total]]

Normalized(rows, pax) ==
  [r \in HotelRows |-> IF rows[r] = None THEN None ELSE Normalize(rows[r], pax)]

Patched(o, patch) == [f \in OptionFields |-> IF f \in DOMAIN patch THEN patch[f] ELSE o[f]]

EmptyOption ==
  [f \in OptionFields |-> CASE f = "currency" -> "AED" [] f = "maxOccupancy" -> 2
                            [] f \in {"rooms", "nights"} -> 1 [] OTHER -> None]

\* updateRoom: only the edited row is normalized.
UpdateRoom(r) ==
  /\ form[r] # None
  /\ \E patch \in RowPatches : form' = [form EXCEPT ![r] = Normalize(Patched(@, patch), party)]
  /\ UNCHANGED <<stored, party, savedFor>>

AddOption(r) ==
  /\ form[r] = None
  /\ form' = [form EXCEPT ![r] = Normalize(EmptyOption, party)]
  /\ UNCHANGED <<stored, party, savedFor>>

\* addRoomType: a copy of the row, for all the party, its price per night left to be found.
AddRoomType(source, r) ==
  /\ form[source] # None /\ form[r] = None
  /\ form' = [form EXCEPT ![r] = Normalize([form[source] EXCEPT !.perNight = None, !.paxCount = None,
                                                                !.occupancyType = "DOUBLE"], party)]
  /\ UNCHANGED <<stored, party, savedFor>>

RemoveRoom(r) ==
  /\ form[r] # None
  /\ form' = [form EXCEPT ![r] = None]
  /\ UNCHANGED <<stored, party, savedFor>>

ChangeParty ==
  /\ party' \in Parties
  /\ UNCHANGED <<stored, form, savedFor>>

\* Every row is normalized and stored; the answer re-seeds the form.
SaveLead ==
  /\ stored' = Normalized(form, party)
  /\ form' = stored'
  /\ savedFor' = party
  /\ UNCHANGED party

\* Any other change of the record is fetched and re-seeds the form: what was not saved is lost.
Reseed ==
  /\ form' = stored
  /\ UNCHANGED <<stored, party, savedFor>>

QuoteNext ==
  \/ \E r \in HotelRows :
       UpdateRoom(r) \/ AddOption(r) \/ RemoveRoom(r) \/ \E s \in HotelRows : AddRoomType(s, r)
  \/ ChangeParty \/ SaveLead \/ Reseed

QuoteSpec == QuoteInit /\ [][QuoteNext]_quoteVars

-----------------------------------------------------------------------------
(* Properties *)

\* Every option is one the server accepts.
QuoteTypeOK ==
  /\ \A rows \in {stored, form} :
       /\ rows = [r \in HotelRows |-> rows[r]]
       /\ \A r \in HotelRows : rows[r] = None \/ HotelOption(rows[r])
  /\ party \in Parties /\ savedFor \in Parties \cup {None}

\* What is saved is settled: seen again for the party it was computed for, nothing of a stored
\* option moves.  The dialog and the shared helper compute the same, and opening and saving
\* a lead without an edit changes no price, whatever edits came before.
StoredIsSettled ==
  savedFor # None => \A r \in HotelRows : stored[r] # None => Normalize(stored[r], savedFor) = stored[r]

\* What an option costs in all, as it stands, in scaled dirhams; None when it has no price.
Cost(o, pax) ==
  LET n == Normalize(o, pax) IN
  IF o.perNight # None THEN o.perNight * AedRate[o.currency] * n.nights * n.rooms
  ELSE IF o.total # None THEN o.total * AedRate[o.currency]
  ELSE IF o.perPerson # None THEN o.perPerson * AedRate[o.currency] * OrElse(o.paxCount, pax)
  ELSE None

\* A save moves the price of no row by more than half a dirham per room-night, whichever of
\* its prices the row carries and in whichever currency.
SaveKeepsPrices ==
  [][SaveLead =>
       \A r \in HotelRows : form[r] # None /\ Cost(form[r], party) # None =>
         LET moved == stored'[r].total * Scale - Cost(form[r], party)
             slack == Scale * stored'[r].nights * stored'[r].rooms
         IN 2 * moved <= slack /\ -(2 * moved) <= slack]_quoteVars

=============================================================================
