----------------------------- MODULE VendorRates -----------------------------
(***************************************************************************)
(* VendorRatesService: the rates a vendor charges, each for a target (a    *)
(* hotel, a service, a service code, or anything) over a validity window   *)
(* in days.  An ACTIVE rate is refused when its window overlaps an ACTIVE  *)
(* rate of the same vendor, rate type and target: the check is a query     *)
(* that precedes the write.                                                *)
(*                                                                         *)
(* A service code is a value, or None: the field is absent or null.  ""    *)
(* and " " are values as well: the schema trims what is stored and what a  *)
(* query compares with, and "" names no code.  Letter case is left out.    *)
(***************************************************************************)
EXTENDS Handlers, Integers

CONSTANTS
  Rates,       \* ids of rates, created on demand
  RateForms,   \* the rates staff enter in this run
  RateChanges  \* the partial changes of PATCH in this run

VARIABLES
  rate,    \* [Rates -> [line, hotel, service, code, from, to, status, removed]]: line is the
           \* vendor and rate type; to is None in an open-ended window
  rateReq, \* [Requests -> the handler in flight]
  raced,   \* history: a rate was submitted while another was on its way
  strayed  \* history: the rates last written for another target than was checked

rateVars == <<rate, rateReq, raced, strayed>>

NoRate == [line |-> None, hotel |-> None, service |-> None, code |-> None,
           from |-> 0, to |-> None, status |-> "ABSENT", removed |-> FALSE]

RateStatus == {"DRAFT", "ACTIVE", "EXPIRED"}

\* What the DTOs let through: days for the window's ends, a status of the schema.
Entered(set) ==
  /\ DOMAIN set \subseteq DOMAIN NoRate \ {"removed"}
  /\ "from" \in DOMAIN set => set["from"] \in Int
  /\ "to" \in DOMAIN set => set["to"] \in Int \cup {None}
  /\ "status" \in DOMAIN set => set["status"] \in RateStatus

ASSUME RateAssumption ==
  /\ None \notin Rates
  /\ \A doc \in RateForms : Entered(doc) /\ DOMAIN NoRate = DOMAIN doc \cup {"removed"}
  \* A change that names a null is one without that field, but for the code's.
  /\ \A change \in RateChanges :
       Entered(change) /\ \A f \in DOMAIN change \ {"code"} : change[f] # None

RateInit ==
  /\ rate = [v \in Rates |-> NoRate]
  /\ rateReq = [r \in Requests |-> Idle]
  /\ raced = FALSE
  /\ strayed = {}

-----------------------------------------------------------------------------
\* assertValidWindow
ValidWindow(doc) == doc.to # None => doc.to >= doc.from

\* windowsOverlap: both ends belong to the window, None is the end of time.
NoLaterThan(day, end) == end = None \/ day <= end

\* Mutant: windows that share only a day at their ends do not overlap.
WindowsOverlapInside(a, b) ==
  (b.to = None \/ a.from < b.to) /\ (a.to = None \/ b.from < a.to)

WindowsOverlap(a, b) == NoLaterThan(a.from, b.to) /\ NoLaterThan(b.from, a.to)

Trimmed(code) == IF code = " " THEN "" ELSE code

NamesCode(code) == code \notin {None, ""}

\* The criteria of assertNoOverlap: the first of hotel, service and code that the rate names
\* selects its rivals, whatever else those name; a rate that names none of them competes with
\* the rates that have neither hotel nor service, those for a code included.
Rivals(doc) ==
  {v \in Rates :
     /\ rate[v].status = "ACTIVE" /\ ~rate[v].removed
     /\ rate[v].line = doc.line
     /\ IF doc.hotel # None THEN rate[v].hotel = doc.hotel
        ELSE IF doc.service # None THEN rate[v].service = doc.service
        ELSE IF NamesCode(doc.code) THEN rate[v].code = Trimmed(doc.code)
        ELSE rate[v].hotel = None /\ rate[v].service = None}

Clash(doc, self) == \E v \in Rivals(doc) \ {self} : WindowsOverlap(doc, rate[v])

OnItsWay(d) == rateReq[d].pc \in {"checkOverlap", "writeRate"}

\* Only ACTIVE rates are checked, as doc; the set is what the write will change.
Submit(d, v, doc, set) ==
  /\ At(rateReq, d, "idle")
  /\ ValidWindow(doc)
  /\ rateReq' = Continue(rateReq, d,
       [pc |-> IF doc.status = "ACTIVE" THEN "checkOverlap" ELSE "writeRate",
        rate |-> v, doc |-> doc, set |-> set])
  /\ raced' = (raced \/ \E e \in Requests : OnItsWay(e))
  /\ UNCHANGED <<rate, strayed>>

CreateRate(d) ==
  \E set \in RateForms : Submit(d, None, Overwritten(NoRate, set), set)

VisibleRate(v) == rate[v].status # "ABSENT" /\ ~rate[v].removed

\* dto.serviceCode ?? existing.serviceCode: a code that the change clears is checked as if it
\* stayed, while the write clears it.
Effective(change, existing) ==
  LET doc == Overwritten(existing, change) IN
  [doc EXCEPT !.code = IF @ = None THEN existing.code ELSE @]

UpdateRate(d, v) ==
  /\ VisibleRate(v)
  /\ \E change \in RateChanges : Submit(d, v, Effective(change, rate[v]), change)

\* EntityConflictException ends the request.
CheckOverlap(d) ==
  LET q == rateReq[d] IN
  /\ At(rateReq, d, "checkOverlap")
  /\ rateReq' = IF Clash(q.doc, q.rate) THEN Finish(rateReq, d)
                ELSE Continue(rateReq, d, [q EXCEPT !.pc = "writeRate"])
  /\ UNCHANGED <<rate, raced, strayed>>

\* What a rate is for, the first of hotel, service and code that it names.
Target(doc) ==
  IF doc.hotel # None THEN <<"hotel", doc.hotel>>
  ELSE IF doc.service # None THEN <<"service", doc.service>>
  ELSE IF NamesCode(doc.code) THEN <<"code", doc.code>>
  ELSE <<"any", None>>

\* An insert, or a $set of the changed fields by id; the schema trims the code.
WriteRate(d, v) ==
  LET q == rateReq[d]
      written == [Overwritten(rate[v], q.set) EXCEPT !.code = Trimmed(@)]
  IN
  /\ At(rateReq, d, "writeRate")
  /\ IF q.rate = None THEN rate[v].status = "ABSENT" ELSE v = q.rate
  /\ rate' = [rate EXCEPT ![v] = written]
  /\ strayed' = IF Target(written) = Target(q.doc) THEN strayed \ {v} ELSE strayed \cup {v}
  /\ rateReq' = Finish(rateReq, d)
  /\ UNCHANGED raced

RemoveRateRead(d, v) ==
  /\ At(rateReq, d, "idle")
  /\ VisibleRate(v)
  /\ rateReq' = Continue(rateReq, d, [pc |-> "removeRate", rate |-> v])
  /\ UNCHANGED <<rate, raced, strayed>>

RemoveRateWrite(d) ==
  /\ At(rateReq, d, "removeRate")
  /\ rate' = [rate EXCEPT ![rateReq[d].rate].removed = TRUE]
  /\ rateReq' = Finish(rateReq, d)
  /\ UNCHANGED <<raced, strayed>>

RateAbandon(d) ==
  /\ ~At(rateReq, d, "idle")
  /\ rateReq' = Finish(rateReq, d)
  /\ UNCHANGED <<rate, raced, strayed>>

RateNext ==
  \E d \in Requests :
    \/ CreateRate(d)
    \/ CheckOverlap(d)
    \/ \E v \in Rates : UpdateRate(d, v) \/ WriteRate(d, v) \/ RemoveRateRead(d, v)
    \/ RemoveRateWrite(d)
    \/ RateAbandon(d)

RateSpec == RateInit /\ [][RateNext]_rateVars

-----------------------------------------------------------------------------
(* Properties *)

\* Every rate is absent or as it was entered, and a request in flight carries a rate with a
\* valid window.  (What is stored has one too, unless changes of its two ends have raced.)
RateTypeOK ==
  /\ \A v \in Rates :
       /\ DOMAIN rate[v] = DOMAIN NoRate
       /\ rate[v] = NoRate \/ rate[v].status \in RateStatus
       /\ raced \/ ValidWindow(rate[v])
  /\ \A r \in Requests :
       \/ rateReq[r] = Idle
       \/ rateReq[r].pc = "removeRate" /\ rateReq[r].rate \in Rates
       \/ /\ rateReq[r].pc \in {"checkOverlap", "writeRate"}
          /\ rateReq[r].rate \in Rates \cup {None}
          /\ ValidWindow(rateReq[r].doc)
  /\ raced \in BOOLEAN /\ strayed \subseteq Rates

\* The days of a window; two windows that meet do so where one of them begins.
Covers(doc, day) == doc.from <= day /\ NoLaterThan(day, doc.to)

ApplyApart(v, w) ==
  /\ v # w
  /\ VisibleRate(v) /\ rate[v].status = "ACTIVE"
  /\ VisibleRate(w) /\ rate[w].status = "ACTIVE"
  /\ rate[v].line = rate[w].line /\ Target(rate[v]) = Target(rate[w])
  => \A day \in {rate[v].from, rate[w].from} : ~(Covers(rate[v], day) /\ Covers(rate[w], day))

\* "Rejects a new/updated ACTIVE rate whose validity window overlaps an existing ACTIVE rate
\* for the same (vendor, rateType, target)" (vendor-rates.service.ts:216-218): at most one
\* ACTIVE rate of a vendor and rate type applies to a target on a day, through any sequence of
\* creations, changes of window, target or status, removals and crashes, but for two things
\* that the code lets through.  Two rates submitted at once can both pass the check before
\* either is written (raced); and an update that clears the code of a rate checks it for that
\* code still (line 152) and leaves a rate for anything (line 161: strayed).
OneRateApplies ==
  ~raced => \A v, w \in Rates : v \notin strayed /\ w \notin strayed => ApplyApart(v, w)

=============================================================================
