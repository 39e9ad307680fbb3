----------------------------- MODULE LeadIntake -----------------------------
(***************************************************************************)
(* The chat that fills the lead dialog: LeadCreateDialog.tsx sends each    *)
(* message with the data extracted so far, AiService.leadIntakeChat merges *)
(* what the model answers into that data and replaces hotel names by those *)
(* of the catalog, and the dialog merges the result into its form.         *)
(*                                                                         *)
(* A field of the model's answer may be absent, null (None), the empty     *)
(* string (Blank) or a value: nothing checks the JSON it comes in.  In the *)
(* form, an empty field is Blank.  Hotels are rows [city, name], without   *)
(* their dates.  Left out are services, merged like the hotels, budget,    *)
(* like the markup, the contact's other fields, like the name, and a       *)
(* destination given as free text, which only a form without locations     *)
(* takes them from.                                                        *)
(***************************************************************************)
EXTENDS Handlers, Integers, Lists, SequencesExt

CONSTANTS
  Answers,      \* what the model may extract in this run: partial records of DataFields
  Edits,        \* what the operator types into the form: partial records of FormFields
  Catalog,      \* [cities -> the hotels of the city, as hotelsService lists them]
  Alike,        \* [hotel names -> the catalog names alike, the best match first]
  Placeholder,  \* a generic name: "5-Star Hotel A"
  Blank,        \* the empty string
  Garbled       \* the digits that + makes of numbers and an empty string

People == {"adults", "children", "infants"}
Counts == People \cup {"travelers"}
Scalars == Counts \cup {"name", "markup", "startDate", "endDate"}
DataLists == {"hotels", "destinations"}
DataFields == Scalars \cup {"travelDate"} \cup DataLists
FormFields == Scalars \cup {"hotels", "locations"}

HotelRow == [city : DOMAIN Catalog, name : DOMAIN Alike]

Empty(v) == v \in {None, Blank}

\* A field f may be v: counts and markup are numbers, lists name cities and hotels of the run.
FieldValue(f, v) ==
  /\ f \in People \cup {"markup"} => v \in Nat \cup {None, Blank}
  /\ f = "travelers" => v \in Nat \cup {None, Blank, Garbled}
  /\ f = "hotels" => v \in Seq(HotelRow)
  /\ f \in {"destinations", "locations"} => v \in Seq(DOMAIN Catalog)

\* A name of the catalog is no placeholder and is best matched by itself.
ASSUME IntakeAssumption ==
  /\ None \notin Nat \cup DOMAIN Alike
  /\ Blank \notin Nat \cup {None, Garbled} /\ Garbled \notin Nat \cup {None}
  /\ \A answer \in Answers :
       DOMAIN answer \subseteq DataFields /\ \A f \in DOMAIN answer : FieldValue(f, answer[f])
  /\ \A edit \in Edits :
       DOMAIN edit \subseteq FormFields
         /\ \A f \in DOMAIN edit : FieldValue(f, edit[f]) /\ edit[f] # None
  /\ \A name \in DOMAIN Alike : Alike[name] \in Seq(DOMAIN Alike)
  /\ \A city \in DOMAIN Catalog :
       /\ Catalog[city] \in Seq(DOMAIN Alike \ {Placeholder})
       /\ \A i \in DOMAIN Catalog[city] : LET name == Catalog[city][i] IN
            Alike[name] # <<>> /\ Head(Alike[name]) = name

VARIABLES
  extracted,  \* [DataFields -> ...]: the data the dialog has been told
  filled,     \* [FormFields -> ...]: the form; locations is a sequence of cities
  asked,      \* the data sent with the message in flight, or None
  touched,    \* history: the form was edited by hand, or emptied with a message in flight
  skipped     \* history: a catalog query has failed since the dialog was emptied

intakeVars == <<extracted, filled, asked, touched, skipped>>

EmptyData == [f \in DataFields |-> IF f \in DataLists THEN <<>> ELSE None]
EmptyForm == [f \in FormFields |-> IF f \in {"hotels", "locations"} THEN <<>> ELSE Blank]

IntakeInit ==
  /\ extracted = EmptyData /\ filled = EmptyForm
  /\ asked = None
  /\ touched = FALSE /\ skipped = FALSE

-----------------------------------------------------------------------------
(* The server *)

\* keepOrReplace: an empty list replaces nothing.
KeepOrReplace(list, existing) == IF list # <<>> THEN list ELSE existing

\* { ...current, ...answer }: null overwrites, except for the lists and the markup.
Merged(current, answer) ==
  [f \in DataFields |->
     IF f \notin DOMAIN answer THEN current[f]
     ELSE IF f \in DataLists THEN KeepOrReplace(answer[f], current[f])
     ELSE IF f = "markup" /\ answer[f] = None THEN current[f]
     ELSE answer[f]]

FirstOr(list, default) == IF list = <<>> THEN default ELSE list[1]

\* The catalog hotel that takes the row's name: a placeholder gets the first one not used yet,
\* a typed name the most alike one not used yet.  None: the row stays as it is.
CatalogMatch(row, used) ==
  LET listed == Catalog[row.city]
      alike == Alike[row.name]
      unused(names) == {n \in DOMAIN names : names[n] \notin used}
  IN IF row.name = Placeholder
       THEN FirstOr(Kept(listed, unused(listed)), FirstOr(listed, None))
       ELSE FirstOr(Kept(alike, {n \in unused(alike) : Contains(listed, alike[n])}), None)

Enrich(row, used) ==
  LET match == CatalogMatch(row, used)
  IN IF match = None THEN row ELSE [row EXCEPT !.name = match]

NamesOf(rows) == {rows[i].name : i \in DOMAIN rows}

\* Mutant: no row may take a name that any row has.
EnrichedApart(rows, failing) ==
  [n \in DOMAIN rows |-> IF n \in failing THEN rows[n] ELSE Enrich(rows[n], NamesOf(rows))]

\* enrichExtractedData, row by row; a query that fails leaves its row as it is.
Enriched(rows, failing) ==
  LET enriched[n \in 0..Len(rows)] ==
        IF n = 0 THEN <<>>
        ELSE LET before == enriched[n - 1]
             IN Append(before, IF n \in failing THEN rows[n]
                               ELSE Enrich(rows[n], NamesOf(before)))
  IN enriched[Len(rows)]

\* What comes back for the data sent.  An answer that is not JSON is one without any field.
Answered(current, answer, failing) ==
  LET data == Merged(current, answer) IN [data EXCEPT !.hotels = Enriched(@, failing)]

-----------------------------------------------------------------------------
(* The dialog *)

\* value ?? old, and value != null ? String(value) : old: an empty string is a value.
OrKept(value, old) == IF value # None THEN value ELSE old

\* value || old: an empty string is none.
OrTruthy(value, old) == IF Empty(value) THEN old ELSE value

Zero(count) == IF count = None THEN 0 ELSE count

\* The sum of the people the data names, which + makes a string where one of them is "".
Total(data) ==
  IF \A f \in People : data[f] = Blank THEN Blank
  ELSE IF \E f \in People : data[f] = Blank THEN Garbled
  ELSE Zero(data.adults) + Zero(data.children) + Zero(data.infants)

\* The cities of a list, each once, in the order of the list.
CitiesOnce(rows) ==
  LET cities == [i \in DOMAIN rows |-> rows[i].city] IN Kept(cities, FirstPositions(cities))

\* Destinations come before the hotels' cities; either way the cities the form has stay.
MergedLocations(old, destinations, hotels) ==
  LET found == IF destinations # <<>> THEN destinations ELSE CitiesOnce(hotels)
  IN old \o Kept(found, {n \in DOMAIN found : ~Contains(old, found[n])})

\* mergeExtracted: the travel date stands in for the start date, and the travelers follow the
\* counts that the data names.
MergeExtracted(form, data) ==
  LET hotels == KeepOrReplace(data.hotels, form.hotels)
      travelers == IF \A f \in People : data[f] = None THEN form.travelers ELSE Total(data)
  IN [f \in FormFields |->
        CASE f = "hotels" -> hotels
          [] f = "locations" -> MergedLocations(form.locations, data.destinations, hotels)
          [] f = "name" -> OrTruthy(data.name, form.name)
          [] f = "startDate" ->
               OrKept(data.startDate, OrKept(data.travelDate, form.startDate))
          [] f = "travelers" -> OrKept(data.travelers, travelers)
          [] OTHER -> OrKept(data[f], form[f])]

\* sendChat: one message at a time.
SendChat ==
  /\ asked = None
  /\ asked' = extracted
  /\ UNCHANGED <<extracted, filled, touched, skipped>>

ReceiveAnswer ==
  /\ asked # None
  /\ \E answer \in Answers \cup {<<>>} :
       \E failing \in SUBSET DOMAIN Merged(asked, answer).hotels :
         /\ extracted' = Answered(asked, answer, failing)
         /\ skipped' = (skipped \/ failing # {})
  /\ filled' = MergeExtracted(filled, extracted')
  /\ asked' = None
  /\ UNCHANGED touched

\* The provider fails, or the answer is lost: the message stays without a reply.
LoseAnswer ==
  /\ asked # None
  /\ asked' = None
  /\ UNCHANGED <<extracted, filled, touched, skipped>>

\* A hand edit of the form, which the extracted data never learns of.
EditForm ==
  /\ \E edit \in Edits :
       filled' = [f \in FormFields |-> IF f \in DOMAIN edit THEN edit[f] ELSE filled[f]]
  /\ touched' = TRUE
  /\ UNCHANGED <<extracted, asked, skipped>>

\* close, then reset: the dialog stays mounted, and a message in flight is still received.
CloseDialog ==
  /\ extracted' = EmptyData /\ filled' = EmptyForm
  /\ touched' = (asked # None)
  /\ skipped' = (asked # None /\ skipped)
  /\ UNCHANGED asked

IntakeNext == SendChat \/ ReceiveAnswer \/ LoseAnswer \/ EditForm \/ CloseDialog

IntakeSpec == IntakeInit /\ [][IntakeNext]_intakeVars

-----------------------------------------------------------------------------
(* Properties *)

\* Every field of the data, of the form and of the data on its way has its type.
IntakeTypeOK ==
  /\ DOMAIN extracted = DataFields /\ \A f \in DataFields : FieldValue(f, extracted[f])
  /\ DOMAIN filled = FormFields /\ \A f \in FormFields : FieldValue(f, filled[f])
  /\ \A f \in Scalars : filled[f] # None
  /\ asked # None => DOMAIN asked = DataFields /\ \A f \in DataFields : FieldValue(f, asked[f])
  /\ touched \in BOOLEAN /\ skipped \in BOOLEAN

\* The data says "" for field f of the form, or for all that it is made from.
ToldBlank(data, f) ==
  \/ data[f] = Blank
  \/ f = "startDate" /\ data.startDate = None /\ data.travelDate = Blank
  \/ f = "travelers" /\ data.travelers = None /\ \A g \in People : data[g] = Blank

\* "Never overwrite non-null with null" (ai.service.ts:575) holds for the form: whatever the
\* model answers, null and absent fields empty nothing, no answer empties the name or a list,
\* and the cities the form has keep their place.  A date or a number is emptied only when the
\* data says "" for it (which the data then does with every later answer, too).  What is shown
\* agrees with what the next message will send in every field that names, even where the form
\* had been edited by hand.
IntakeKeepsForm ==
  [][ReceiveAnswer =>
       /\ \A f \in Scalars : ~Empty(filled[f]) /\ Empty(filled'[f]) =>
            f # "name" /\ ToldBlank(extracted', f)
       /\ filled.hotels # <<>> => filled'.hotels # <<>>
       /\ IsPrefix(filled.locations, filled'.locations)
       /\ \A f \in Scalars : ~Empty(extracted'[f]) => filled'[f] = extracted'[f]]_intakeVars

\* Hotels settle: catalog names are looked up again with every answer, yet an answer that
\* names no hotel leaves the hotels of the form as they are, unless a query had failed.
HotelsSettle ==
  [][ReceiveAnswer /\ ~touched /\ ~skipped' =>
       filled'.hotels = filled.hotels
         \/ \E answer \in Answers : "hotels" \in DOMAIN answer /\ answer.hotels # <<>>
              /\ extracted'.hotels = Enriched(answer.hotels, {})]_intakeVars

=============================================================================
