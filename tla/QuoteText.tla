----------------------------- MODULE QuoteText -----------------------------
(***************************************************************************)
(* The quote a lead is answered with (buildWhatsAppQuote, whatsapp.ts):    *)
(* the hotel rows of the lead grouped into options, the options laid out   *)
(* city by city and numbered as they are laid out, and the price table,    *)
(* which numbers them as they were entered.  Wording, prices and the room  *)
(* rows of an option are left out: none of them moves an option.           *)
(***************************************************************************)
EXTENDS Handlers, Lists, SequencesExt

CONSTANTS
  TripCities,   \* the cities a trip may visit
  Hotels,       \* names of hotels
  MaxStops,     \* bound: cities on a route
  MaxQuoteRows  \* bound: hotel rows of a lead

ASSUME QuoteAssumption ==
  None \notin TripCities /\ MaxStops \in Nat /\ MaxQuoteRows \in Nat

VARIABLES
  route,  \* lead.locations: the cities in the order of the trip, some perhaps twice
  rows    \* lead.hotelOptions, in the order they were entered

textVars == <<route, rows>>

-----------------------------------------------------------------------------
\* hotelGroupKey
Key(row) == <<row.hotel, row.city>>

\* One group per key: a Map keeps insertion order.
Groups ==
  LET keys == [i \in DOMAIN rows |-> Key(rows[i])] IN Kept(keys, FirstPositions(keys))

City(group) == group[2]

-----------------------------------------------------------------------------
(* The layout *)

MultiCity ==
  \/ Len(route) > 1
  \/ \E i, j \in DOMAIN Groups : City(Groups[i]) # City(Groups[j])

\* The cities of the trip, then those only hotels name, in the order of the groups.
LocationOrder ==
  LET named == [n \in DOMAIN Groups |-> City(Groups[n])]
  IN route \o Kept(named, {n \in FirstPositions(named) :
                             named[n] # None /\ ~Contains(route, named[n])})

\* A section for each city: one that the trip comes back to has only one.
SectionCities == Kept(LocationOrder, FirstPositions(LocationOrder))

GroupsOf(city) == Kept(Groups, {i \in DOMAIN Groups : City(Groups[i]) = city})

\* Mutant: hotels without a city belong to no section.
SectionGroupsPlaced(n) == GroupsOf(SectionCities[n])

\* Mutant: hotels without a city come before those of the first section.
SectionGroupsUnplacedFirst(n) ==
  (IF n = 1 THEN GroupsOf(None) ELSE <<>>) \o GroupsOf(SectionCities[n])

\* Groups without a city join the first section.
SectionGroups(n) ==
  GroupsOf(SectionCities[n]) \o (IF n = 1 THEN GroupsOf(None) ELSE <<>>)

\* The blocks of the quote: the n-th is headed "Option n".
Blocks ==
  IF MultiCity
    THEN FlattenSeq([n \in DOMAIN SectionCities |-> SectionGroups(n)])
    ELSE Groups

\* The price table: its n-th line prices "Option n".
PriceTable == Groups

-----------------------------------------------------------------------------
(* The lead is edited: cities and hotel rows are added and removed. *)

TextInit == route = <<>> /\ rows = <<>>

AddCity ==
  /\ Len(route) < MaxStops
  /\ \E c \in TripCities : route' = Append(route, c)
  /\ UNCHANGED rows

RemoveCity ==
  /\ \E n \in DOMAIN route : route' = RemoveAt(route, n)
  /\ UNCHANGED rows

AddRow ==
  /\ Len(rows) < MaxQuoteRows
  /\ \E row \in [hotel : Hotels, city : TripCities \cup {None}] : rows' = Append(rows, row)
  /\ UNCHANGED route

RemoveRow ==
  /\ \E i \in DOMAIN rows : rows' = RemoveAt(rows, i)
  /\ UNCHANGED route

TextNext == AddCity \/ RemoveCity \/ AddRow \/ RemoveRow

TextSpec == TextInit /\ [][TextNext]_textVars

-----------------------------------------------------------------------------
(* Properties *)

\* The cities and rows are those of the run.
TextTypeOK ==
  /\ route \in Seq(TripCities)
  /\ rows \in Seq([hotel : Hotels, city : TripCities \cup {None}])

\* The layout shows every option exactly once, however the hotels' cities and the trip's
\* cities relate: none is dropped because its city is unknown, and none appears in two cities.
EveryOptionShown ==
  /\ ToSet(Blocks) = ToSet(Groups)
  /\ Len(Blocks) = Len(Groups)

Position(g) ==
  IF City(g) = None THEN 1
  ELSE CHOOSE n \in DOMAIN SectionCities : SectionCities[n] = City(g)

\* Entered city by city, in the order of the trip and each city's unplaced hotels last.
EnteredInOrder ==
  LET places == [i \in DOMAIN Groups |-> Position(Groups[i])]
  IN \A i, j \in DOMAIN places : i < j =>
       /\ places[i] <= places[j]
       /\ places[i] = places[j] /\ City(Groups[i]) = None => City(Groups[j]) = None

\* When the hotels were entered in the order of the trip, "Option n" is the same hotel in the
\* layout and in the price table.  (Entered otherwise, the two numbers differ: see README.)
OptionNumbersAgree ==
  EnteredInOrder => Blocks = PriceTable

=============================================================================
