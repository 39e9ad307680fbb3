------------------------------ MODULE TripRisk ------------------------------
(***************************************************************************)
(* OperationalRiskService.assess over the documents it reads: the trip's   *)
(* bookings, its travelers (TravelersService, with its handlers) and the   *)
(* start date of the commercial snapshot.  The assessment is a function of *)
(* these and of the time; the clock counts days and moves between the      *)
(* instants of Days.  How bookings change is TripBookings' matter: here a  *)
(* booking is replaced by any other the assessment can tell apart.         *)
(***************************************************************************)
EXTENDS Handlers, Integers, FiniteSets, FiniteSetsExt

CONSTANTS
  Travelers,    \* ids of travelers, added on demand
  RiskBookings, \* ids of bookings, made on demand
  Days,         \* the instants the clock moves through
  TravelDays,   \* the dates bookings and the snapshot can have
  BookingForms  \* the bookings of this run: [kind, status, date, referenced, approved]

ASSUME RiskAssumption ==
  /\ Days \subseteq Nat /\ TravelDays \subseteq Nat /\ 0 \in Days
  /\ None \notin Int

VARIABLES
  clock,        \* Date.now()
  start,        \* commercialSnapshot.travelStartDate, or None
  traveler,     \* [Travelers -> [status, passport, removed]]
  tripBooking,  \* [RiskBookings -> [kind, status, date, referenced, approved]]: date is the
                \* earliest of its travel date, check-in and pickup, or None; approved its
                \* visa's status
  riskReq       \* [Requests -> the traveler handler in flight]

riskVars == <<clock, start, traveler, tripBooking, riskReq>>

RiskInit ==
  /\ clock = 0
  /\ start = None
  /\ traveler = [t \in Travelers |-> [status |-> "ABSENT", passport |-> FALSE,
                                      removed |-> FALSE]]
  /\ tripBooking = [b \in RiskBookings |-> [kind |-> None, status |-> "ABSENT", date |-> None,
                                            referenced |-> FALSE, approved |-> FALSE]]
  /\ riskReq = [r \in Requests |-> Idle]

-----------------------------------------------------------------------------
(* The assessment *)

\* Levels by their RANK.
Low == 0
Medium == 1
High == 2

Stored == {b \in RiskBookings : tripBooking[b].status # "ABSENT"}

\* findByProposal leaves removed travelers out, assess those not ACTIVE.
NoPassport ==
  {t \in Travelers : /\ traveler[t].status = "ACTIVE" /\ ~traveler[t].removed
                     /\ ~traveler[t].passport}

Unconfirmed(kind) ==
  {b \in Stored : /\ tripBooking[b].kind = kind
                  /\ tripBooking[b].status \notin {"CONFIRMED", "CANCELLED"}}

PendingVisas ==
  {b \in Stored : /\ tripBooking[b].kind = "VISA" /\ tripBooking[b].status # "CANCELLED"
                  /\ ~tripBooking[b].approved}

MissingReferences ==
  {b \in Stored : tripBooking[b].status = "CONFIRMED" /\ ~tripBooking[b].referenced}

DepartureDates ==
  ({tripBooking[b].date : b \in {c \in Stored : tripBooking[c].status # "CANCELLED"}}
     \cup {start}) \ {None}

\* Mutant: dates gone by are passed over, so the next one counts.
DaysLeftUpcoming ==
  LET upcoming == {d \in DepartureDates : d >= clock}
  IN IF upcoming = {} THEN None ELSE Min(upcoming) - clock

\* Mutant: the latest date counts.
DaysLeftLatest == IF DepartureDates = {} THEN None ELSE Max(DepartureDates) - clock

\* earliestDeparture, as the time left until it; None when no date is known.
DaysLeft == IF DepartureDates = {} THEN None ELSE Min(DepartureDates) - clock

\* byLead: the nearer the departure the higher, until it has passed.
ByLead(left, highWithin, medWithin) ==
  IF left = None THEN Medium
  ELSE IF left < 0 THEN Low
  ELSE IF left <= highWithin THEN High
  ELSE IF left <= medWithin THEN Medium
  ELSE Low

Imminent(left) == left # None /\ left \in 0..3

Unresolved ==
  \/ NoPassport # {} \/ PendingVisas # {}
  \/ Unconfirmed("HOTEL") # {} \/ Unconfirmed("TRANSFER") # {}

Issues ==
  {ByLead(DaysLeft, 3, 14) : t \in NoPassport}
    \cup {ByLead(DaysLeft, 3, 14) : b \in Unconfirmed("HOTEL") \cup Unconfirmed("TRANSFER")}
    \cup {ByLead(DaysLeft, 14, 30) : b \in PendingVisas}
    \cup {Medium : b \in MissingReferences}
    \cup (IF Imminent(DaysLeft) /\ Unresolved THEN {High} ELSE {})

RiskLevel == Max(Issues \cup {Low})

-----------------------------------------------------------------------------
Tick ==
  /\ \E d \in Days : d > clock /\ clock' = d
  /\ UNCHANGED <<start, traveler, tripBooking, riskReq>>

SetStart ==
  /\ start' \in TravelDays \cup {None}
  /\ UNCHANGED <<clock, traveler, tripBooking, riskReq>>

BookingChanges(b) ==
  /\ \E form \in BookingForms : tripBooking' = [tripBooking EXCEPT ![b] = form]
  /\ UNCHANGED <<clock, start, traveler, riskReq>>

(* TravelersService *)

AddTraveler(t) ==
  /\ traveler[t].status = "ABSENT"
  /\ \E p \in BOOLEAN :
       traveler' = [traveler EXCEPT ![t].status = "ACTIVE", ![t].passport = p]
  /\ UNCHANGED <<clock, start, tripBooking, riskReq>>

\* update and remove first look the traveler up, then write by id.
TravelerRead(r, t) ==
  /\ At(riskReq, r, "idle")
  /\ traveler[t].status # "ABSENT" /\ ~traveler[t].removed
  /\ \/ riskReq' = Continue(riskReq, r, [pc |-> "removeTraveler", traveler |-> t])
     \/ \E s \in {"ACTIVE", "CANCELLED"}, p \in BOOLEAN :
          riskReq' = Continue(riskReq, r, [pc |-> "writeTraveler", traveler |-> t,
                                           status |-> s, passport |-> p])
  /\ UNCHANGED <<clock, start, traveler, tripBooking>>

TravelerWrite(r) ==
  LET q == riskReq[r] IN
  /\ \/ /\ At(riskReq, r, "removeTraveler")
        /\ traveler' = [traveler EXCEPT ![q.traveler].removed = TRUE]
     \/ /\ At(riskReq, r, "writeTraveler")
        /\ traveler' = [traveler EXCEPT ![q.traveler].status = q.status,
                                        ![q.traveler].passport = q.passport]
  /\ riskReq' = Finish(riskReq, r)
  /\ UNCHANGED <<clock, start, tripBooking>>

RiskNext ==
  \/ Tick
  \/ SetStart
  \/ \E b \in RiskBookings : BookingChanges(b)
  \/ \E t \in Travelers : AddTraveler(t)
  \/ \E r \in Requests :
       \/ \E t \in Travelers : TravelerRead(r, t)
       \/ TravelerWrite(r)

RiskSpec == RiskInit /\ [][RiskNext]_riskVars

-----------------------------------------------------------------------------
(* Properties *)

RiskBooking ==
  [kind : {"HOTEL", "TRANSFER", "VISA", None}, status : {"ABSENT", "PENDING", "CONFIRMED", "CANCELLED"},
   date : TravelDays \cup {None}, referenced : BOOLEAN, approved : BOOLEAN]

RiskRequest ==
  {Idle}
    \cup [pc : {"removeTraveler"}, traveler : Travelers]
    \cup [pc : {"writeTraveler"}, traveler : Travelers, status : {"ACTIVE", "CANCELLED"},
          passport : BOOLEAN]

\* The bookings of a run are bookings.
ASSUME FormsAssumption == BookingForms \subseteq RiskBooking

\* Every value has its type, and a level is one of LOW, MEDIUM and HIGH.
RiskTypeOK ==
  /\ clock \in Days /\ start \in TravelDays \cup {None}
  /\ traveler \in [Travelers -> [status : {"ABSENT", "ACTIVE", "CANCELLED"}, passport : BOOLEAN,
                                 removed : BOOLEAN]]
  /\ tripBooking \in [RiskBookings -> RiskBooking]
  /\ riskReq \in [Requests -> RiskRequest]
  /\ RiskLevel \in {Low, Medium, High}

\* Severity escalates as the departure approaches: with the documents as they are, the
\* level never falls as time passes, until the departure itself has passed.
RiskEscalates ==
  [][clock' # clock /\ DaysLeft' # None /\ DaysLeft' >= 0 => RiskLevel' >= RiskLevel]_riskVars

\* No alarm is missed: whatever else the trip has, an open item at most three days ahead of
\* the booking it belongs to is HIGH as long as the trip has not begun, and a trip with
\* nothing open and every confirmation referenced is LOW.
NoAlarmMissed ==
  /\ \A b \in Unconfirmed("HOTEL") \cup Unconfirmed("TRANSFER") \cup PendingVisas :
       /\ tripBooking[b].date # None /\ tripBooking[b].date - clock <= 3 /\ DaysLeft >= 0
       => RiskLevel = High
  /\ ~Unresolved /\ MissingReferences = {} => RiskLevel = Low

=============================================================================
