------------------------- MODULE Operations_proofs -------------------------
(***************************************************************************)
(* Theorems about the operations of a sold trip, the vendors' rates and    *)
(* the copilot's actions: TripBookings, TripRisk, VendorRates and          *)
(* AiApproval, for any number of bookings, travelers, rates, actions,      *)
(* sessions and concurrent requests.                                       *)
(***************************************************************************)
EXTENDS TripBookings, TripRisk, VendorRates, AiApproval, FiniteSetTheorems,
        WellFoundedInduction, TLAPS

-----------------------------------------------------------------------------
(***************************************************************************)
(* TripBookings.  A save writes a stale document's differences over        *)
(* whatever others have saved, so the argument is about the differences: a *)
(* set that brings a status brings its date with it, unless the loaded     *)
(* document had it already (SetSound), and dates once stored are never     *)
(* taken back (Keeps).                                                     *)
(***************************************************************************)

Dates == {"confirmationDate", "applicationSubmittedAt", "processingStartedAt", "approvedAt",
          "rejectedAt"}
Fields == {"kind", "status", "detail"} \cup Dates

\* Dates are compared with TRUE: whether a field is BOOLEAN does not matter here.
DocSound(d) ==
  /\ DOMAIN d = Fields
  /\ d.status = "CONFIRMED" => d.confirmationDate = TRUE
  /\ d.kind = "VISA" /\ d.detail \in DOMAIN Stamped => d[Stamped[d.detail]] = TRUE

\* Field f is set once s has been saved over d.
Dated(s, d, f) == f \in DOMAIN s \/ d[f] = TRUE

\* What a request of operation op may save over document d.
SetSound(s, d, op) ==
  /\ d.status # "ABSENT"
  /\ DOMAIN s \subseteq Fields \ {"kind"}
  /\ \A f \in Dates \cap DOMAIN s : s[f] = TRUE
  /\ "status" \in DOMAIN s => /\ s["status"] # "ABSENT"
                              /\ op \in {"confirm", "fail", "cancel"}
                              /\ s["status"] = "CONFIRMED" => Dated(s, d, "confirmationDate")
  /\ "detail" \in DOMAIN s /\ d.kind = "VISA" /\ s["detail"] \in DOMAIN Stamped =>
       Dated(s, d, Stamped[s["detail"]])

RequestSound(r) ==
  At(tripReq, r, "save") =>
    /\ tripReq[r].booking \in Bookings
    /\ SetSound(tripReq[r].set, booking[tripReq[r].booking], tripReq[r].op)

\* The inductive invariant.
TripInv ==
  /\ DOMAIN booking = Bookings /\ booking = [b \in Bookings |-> booking[b]]
  /\ DOMAIN tripReq = Requests /\ tripReq = [r \in Requests |-> tripReq[r]]
  /\ \A b \in Bookings : DocSound(booking[b])
  /\ \A r \in Requests : RequestSound(r)

\* What no step takes from a document.
Keeps(d, e) ==
  /\ e.kind = d.kind /\ e.status # "ABSENT"
  /\ \A f \in Dates : d[f] = TRUE => e[f] = TRUE

-----------------------------------------------------------------------------
LEMMA StampsAreDates ==
  /\ DOMAIN Stamped = {"SUBMITTED", "PROCESSING", "APPROVED", "REJECTED"}
  /\ \A s \in DOMAIN Stamped : Stamped[s] \in Dates
  BY DEF Stamped, Dates

LEMMA SetSoundLater ==
  ASSUME NEW s, NEW d, NEW e, NEW op, SetSound(s, d, op), Keeps(d, e)
  PROVE  SetSound(s, e, op)
  BY StampsAreDates DEF SetSound, Keeps, Dated, Dates

\* Saving the differences over a sound document keeps it sound and takes nothing from it.
LEMMA MergeSound ==
  ASSUME NEW s, NEW d, NEW op, DocSound(d), SetSound(s, d, op)
  PROVE  /\ DocSound(Overwritten(d, s)) /\ Keeps(d, Overwritten(d, s))
         /\ op \notin {"confirm", "fail", "cancel"} => Overwritten(d, s).status = d.status
<1> DEFINE e == Overwritten(d, s)
<1>1. /\ DOMAIN e = Fields
      /\ \A f \in Fields : e[f] = IF f \in DOMAIN s THEN s[f] ELSE d[f]
  BY DEF Overwritten, DocSound
<1>2. \A f \in Dates : f \in Fields /\ (Dated(s, d, f) => e[f] = TRUE)
  <2> TAKE f \in Dates
  <2>1. f \in Fields
    BY DEF Fields
  <2>2. f \in DOMAIN s => s[f] = TRUE
    BY DEF SetSound
  <2>3. QED
    BY <1>1, <2>1, <2>2 DEF Dated
<1>3. /\ {"kind", "status", "detail", "confirmationDate"} \subseteq Fields
      /\ "confirmationDate" \in Dates
  BY DEF Fields, Dates
<1>4. e["kind"] = d["kind"] /\ e["status"] # "ABSENT"
  BY <1>1, <1>3 DEF SetSound
<1>5. Keeps(d, e)
  BY <1>2, <1>4 DEF Keeps, Dated
<1>6. e["status"] = "CONFIRMED" => e["confirmationDate"] = TRUE
  BY <1>1, <1>2, <1>3 DEF SetSound, DocSound, Dated
<1>7. e["kind"] = "VISA" /\ e["detail"] \in DOMAIN Stamped => e[Stamped[e["detail"]]] = TRUE
  BY <1>1, <1>2, <1>3, <1>4, StampsAreDates DEF SetSound, DocSound, Dated
<1>8. op \notin {"confirm", "fail", "cancel"} => e["status"] = d["status"]
  BY <1>1, <1>3 DEF SetSound
<1>9. QED
  BY <1>1, <1>5, <1>6, <1>7, <1>8 DEF DocSound

\* What an operation makes of the document it loaded, for every operation of the service.
LEMMA OutcomeSound ==
  ASSUME NEW d, DocSound(d), d.status # "ABSENT", NEW op \in BookingOps,
         NEW new \in Outcomes(op, d)
  PROVE  SetSound([f \in Modified(d, new) |-> new[f]], d, op)
<1> DEFINE s == [f \in Modified(d, new) |-> new[f]]
<1> SUFFICES
      /\ new["kind"] = d["kind"]
      /\ \A f \in Dates : new[f] = d[f] \/ new[f] = TRUE
      /\ new["status"] # d["status"] =>
           /\ new["status"] # "ABSENT" /\ op \in {"confirm", "fail", "cancel"}
           /\ new["status"] = "CONFIRMED" => new["confirmationDate"] = TRUE
      /\ d["kind"] = "VISA" /\ new["detail"] # d["detail"] /\ new["detail"] \in DOMAIN Stamped
           => new[Stamped[new["detail"]]] = TRUE
  <2>1. /\ DOMAIN s = {f \in Fields : new[f] # d[f]}
        /\ \A f \in DOMAIN s : s[f] = new[f]
    BY DEF Modified, DocSound
  <2>2. {"kind", "status", "detail", "confirmationDate"} \subseteq Fields /\ Dates \subseteq Fields
        /\ "confirmationDate" \in Dates
    BY DEF Fields, Dates
  <2>3. \A f \in Dates : new[f] = TRUE => Dated(s, d, f)
    BY <2>1, <2>2 DEF Dated
  <2>4. DOMAIN s \subseteq Fields \ {"kind"}
    BY <2>1
  <2>5. \A f \in Dates \cap DOMAIN s : s[f] = TRUE
    BY <2>1
  <2>6. "status" \in DOMAIN s => /\ s["status"] # "ABSENT"
                                 /\ op \in {"confirm", "fail", "cancel"}
                                 /\ s["status"] = "CONFIRMED" => Dated(s, d, "confirmationDate")
    BY <2>1, <2>2, <2>3
  <2>7. "detail" \in DOMAIN s /\ d["kind"] = "VISA" /\ s["detail"] \in DOMAIN Stamped =>
          Dated(s, d, Stamped[s["detail"]])
    BY <2>1, <2>2, <2>3, StampsAreDates
  <2>8. QED
    BY <2>4, <2>5, <2>6, <2>7 DEF SetSound
<1>1. CASE op = "confirm"
  <2>1. /\ DOMAIN new = DOMAIN d /\ new["status"] = "CONFIRMED" /\ new["confirmationDate"] = TRUE
        /\ \A f \in Fields \ {"status", "confirmationDate", "detail"} : new[f] = d[f]
        /\ d["kind"] = "VISA" => new["detail"] = d["detail"]
    BY <1>1 DEF Outcomes, Confirmed, DocSound, Fields, Dates
  <2>2. QED
    BY <1>1, <2>1 DEF Fields, Dates
<1>2. CASE op \in {"fail", "cancel"}
  BY <1>2 DEF Outcomes, Failed, Cancelled, DocSound, Fields, Dates
<1>3. CASE op = "update"
  BY <1>3 DEF Outcomes, Edited
<1>4. CASE op = "details"
  BY <1>4 DEF Outcomes, DetailEdited, DocSound, Fields, Dates
<1>5. CASE op = "visa"
  <2>1. CASE \E x \in VisaStatus : new = VisaMoved(d, x)
    <3>1. PICK x \in VisaStatus : new = VisaMoved(d, x)
      BY <2>1
    <3>2. CASE x = d.detail
      BY <3>1, <3>2 DEF VisaMoved
    <3>3. CASE x # d.detail
      <4>1. \A f \in Fields : new[f] = IF f = "detail" THEN x
                                       ELSE IF x \in DOMAIN Stamped /\ f = Stamped[x] THEN TRUE
                                       ELSE d[f]
        BY <3>1, <3>3 DEF VisaMoved, DocSound
      <4>2. \A y \in DOMAIN Stamped : Stamped[y] \in Dates /\ Stamped[y] \in Fields
                                      /\ Stamped[y] # "detail"
        BY StampsAreDates DEF Fields, Dates
      <4>3. /\ {"kind", "status", "detail"} \subseteq Fields /\ Dates \subseteq Fields
            /\ Dates \cap {"kind", "status", "detail"} = {}
        BY DEF Fields, Dates
      <4>4. new["kind"] = d["kind"] /\ new["status"] = d["status"] /\ new["detail"] = x
        BY <4>1, <4>2, <4>3
      <4>5. \A f \in Dates : new[f] = d[f] \/ new[f] = TRUE
        BY <4>1, <4>3
      <4>6. x \in DOMAIN Stamped => new[Stamped[x]] = TRUE
        BY <4>1, <4>2
      <4>7. QED
        BY <4>4, <4>5, <4>6
    <3>4. QED
      BY <3>2, <3>3
  <2>2. CASE \E f \in {Stamped[x] : x \in DOMAIN Stamped} : new = [d EXCEPT ![f] = TRUE]
    <3>1. PICK f \in Dates : new = [d EXCEPT ![f] = TRUE]
      BY <2>2, StampsAreDates
    <3>2. QED
      BY <3>1 DEF DocSound, Fields, Dates
  <2>3. QED
    BY <1>5, <2>1, <2>2 DEF Outcomes, VisaEdited
<1>6. QED
  BY <1>1, <1>2, <1>3, <1>4, <1>5 DEF BookingOps

-----------------------------------------------------------------------------
LEMMA InitTripInv == TripInit => TripInv
  BY StampsAreDates DEF TripInit, TripInv, DocSound, RequestSound, BookingDoc, Fields,
                        Dates, At, Idle

\* A document that changes keeps what the requests in flight rest on.
LEMMA StepKeepsRequests ==
  ASSUME TripInv, NEW b \in Bookings, NEW e, DocSound(e),
         booking' = [booking EXCEPT ![b] = e],
         booking[b].status # "ABSENT" => Keeps(booking[b], e),
         \A r \in Requests : At(tripReq, r, "save")' => tripReq'[r] = tripReq[r],
         DOMAIN tripReq' = Requests, tripReq' = [r \in Requests |-> tripReq'[r]]
  PROVE  TripInv'
<1>1. /\ DOMAIN booking' = Bookings /\ booking' = [x \in Bookings |-> booking'[x]]
      /\ booking'[b] = e /\ \A x \in Bookings \ {b} : booking'[x] = booking[x]
  BY DEF TripInv
<1>2. \A x \in Bookings : DocSound(booking'[x])
  BY <1>1 DEF TripInv
<1>3. ASSUME NEW r \in Requests, At(tripReq, r, "save")'
      PROVE  /\ tripReq'[r].booking \in Bookings
             /\ SetSound(tripReq'[r].set, booking'[tripReq'[r].booking], tripReq'[r].op)
  <2>1. tripReq'[r] = tripReq[r] /\ At(tripReq, r, "save")
    BY <1>3 DEF At
  <2>2. PICK q : q = tripReq[r]
    OBVIOUS
  <2>3. q.booking \in Bookings /\ SetSound(q.set, booking[q.booking], q.op)
    BY <2>1, <2>2 DEF TripInv, RequestSound
  <2>4. SetSound(q.set, booking'[q.booking], q.op)
    <3>1. CASE q.booking = b
      <4>1. Keeps(booking[b], e)
        BY <2>3, <3>1 DEF SetSound
      <4>2. QED
        BY <1>1, <2>3, <3>1, <4>1, SetSoundLater
    <3>2. CASE q.booking # b
      BY <1>1, <2>3, <3>2
    <3>3. QED
      BY <3>1, <3>2
  <2>5. QED
    BY <2>1, <2>2, <2>3, <2>4
<1>4. \A r \in Requests : RequestSound(r)'
  BY <1>3 DEF RequestSound
<1>5. QED
  BY <1>1, <1>2, <1>4 DEF TripInv

LEMMA StepCreateBooking ==
  ASSUME TripInv, NEW b \in Bookings, CreateBooking(b)
  PROVE  TripInv'
<1>1. PICK kind \in KindsBooked :
        booking' = [booking EXCEPT ![b] = BookingDoc(kind, "PENDING", InitialDetail(kind))]
  BY DEF CreateBooking
<1>2. DocSound(BookingDoc(kind, "PENDING", InitialDetail(kind)))
  <2>1. kind = "VISA" => InitialDetail(kind) = "PENDING_DOCUMENTS"
    BY DEF InitialDetail
  <2>2. DOMAIN BookingDoc(kind, "PENDING", InitialDetail(kind)) = Fields
    BY DEF BookingDoc, Fields, Dates
  <2>3. QED
    BY <2>1, <2>2, StampsAreDates DEF DocSound, BookingDoc
<1>3. QED
  BY <1>1, <1>2, StepKeepsRequests DEF CreateBooking, TripInv

LEMMA StepLoadBooking ==
  ASSUME TripInv, NEW r \in Requests, NEW b \in Bookings, NEW op \in BookingOps,
         LoadBooking(r, b, op)
  PROVE  TripInv'
<1>1. PICK new \in Outcomes(op, booking[b]) :
        tripReq' = [tripReq EXCEPT ![r] =
                      [pc |-> "save", op |-> op, booking |-> b,
                       set |-> [f \in Modified(booking[b], new) |-> new[f]]]]
  BY DEF LoadBooking, Continue
<1>2. SetSound([f \in Modified(booking[b], new) |-> new[f]], booking[b], op)
  BY OutcomeSound DEF LoadBooking, TripInv
<1>3. \A x \in Requests : RequestSound(x)'
  <2> SUFFICES ASSUME NEW x \in Requests, tripReq'[x].pc = "save"
               PROVE  /\ tripReq'[x].booking \in Bookings
                      /\ SetSound(tripReq'[x].set, booking[tripReq'[x].booking], tripReq'[x].op)
    BY DEF RequestSound, At, LoadBooking
  <2>1. CASE x = r
    BY <1>1, <1>2, <2>1 DEF TripInv
  <2>2. CASE x # r
    BY <1>1, <2>2 DEF TripInv, RequestSound, At
  <2>3. QED
    BY <2>1, <2>2
<1>4. QED
  BY <1>1, <1>3 DEF TripInv, LoadBooking

LEMMA StepSaveBooking ==
  ASSUME TripInv, NEW r \in Requests, SaveBooking(r)
  PROVE  TripInv'
<1>1. PICK q : q = tripReq[r]
  OBVIOUS
<1>2. /\ q.booking \in Bookings /\ DocSound(booking[q.booking])
      /\ SetSound(q.set, booking[q.booking], q.op)
  BY <1>1 DEF SaveBooking, TripInv, RequestSound
<1>3. booking' = [booking EXCEPT ![q.booking] = Overwritten(booking[q.booking], q.set)]
  BY <1>1, <1>2 DEF SaveBooking, TripInv
<1>4. /\ DocSound(Overwritten(booking[q.booking], q.set))
      /\ Keeps(booking[q.booking], Overwritten(booking[q.booking], q.set))
  BY <1>2, MergeSound
<1>5. /\ DOMAIN tripReq' = Requests /\ tripReq' = [x \in Requests |-> tripReq'[x]]
      /\ \A x \in Requests : At(tripReq, x, "save")' => tripReq'[x] = tripReq[x]
  BY DEF SaveBooking, Finish, Continue, Idle, At, TripInv
<1>6. QED
  BY <1>2, <1>3, <1>4, <1>5, StepKeepsRequests

LEMMA StepTripInv == TripInv /\ [TripNext]_tripVars => TripInv'
<1> SUFFICES ASSUME TripInv, [TripNext]_tripVars PROVE TripInv'
  OBVIOUS
<1>1. ASSUME NEW b \in Bookings, CreateBooking(b) PROVE TripInv'
  BY <1>1, StepCreateBooking
<1>2. ASSUME NEW r \in Requests, NEW b \in Bookings, NEW op \in BookingOps, LoadBooking(r, b, op)
      PROVE  TripInv'
  BY <1>2, StepLoadBooking
<1>3. ASSUME NEW r \in Requests, SaveBooking(r) PROVE TripInv'
  BY <1>3, StepSaveBooking
<1>4. ASSUME NEW r \in Requests, TripAbandon(r) PROVE TripInv'
  BY <1>4 DEF TripAbandon, Finish, Continue, Idle, TripInv, RequestSound, At
<1>5. CASE UNCHANGED tripVars
  BY <1>5 DEF tripVars, TripInv, RequestSound, At
<1>6. QED
  BY <1>1, <1>2, <1>3, <1>4, <1>5 DEF TripNext

-----------------------------------------------------------------------------
\* A confirmed booking has its date and a visa the stamp of the status it has reached, for any
\* number of operations that load before others save (BookingsService.confirm and
\* updateVisaProcessing).
THEOREM StampsKept == TripSpec => []BookingStamped
<1>1. TripInv => BookingStamped
  BY DEF TripInv, DocSound, BookingStamped
<1>2. QED
  BY <1>1, InitTripInv, StepTripInv, PTL DEF TripSpec

\* Only a save of confirm, fail or cancel changes the status of a booking.
LEMMA StepKeepsStatus ==
  ASSUME TripInv, [TripNext]_tripVars, NEW b \in Bookings,
         booking[b].status # "ABSENT", booking'[b].status # booking[b].status
  PROVE  \E r \in Requests : /\ tripReq[r].pc = "save" /\ tripReq'[r].pc = "idle"
                             /\ tripReq[r].op \in {"confirm", "fail", "cancel"}
<1>1. ASSUME NEW x \in Bookings, CreateBooking(x) PROVE FALSE
  <2>1. x # b
    BY <1>1 DEF CreateBooking
  <2>2. QED
    BY <1>1, <2>1 DEF CreateBooking, TripInv
<1>2. ASSUME NEW r \in Requests, SaveBooking(r)
      PROVE  /\ tripReq[r].pc = "save" /\ tripReq'[r].pc = "idle"
             /\ tripReq[r].op \in {"confirm", "fail", "cancel"}
  <2>1. PICK q : q = tripReq[r]
    OBVIOUS
  <2>2. /\ q.booking \in Bookings /\ DocSound(booking[q.booking])
        /\ SetSound(q.set, booking[q.booking], q.op)
    BY <1>2, <2>1 DEF SaveBooking, TripInv, RequestSound
  <2>3. booking' = [booking EXCEPT ![q.booking] = Overwritten(booking[q.booking], q.set)]
    BY <1>2, <2>1, <2>2 DEF SaveBooking, TripInv
  <2>4. q.booking = b /\ booking'[b] = Overwritten(booking[b], q.set)
    BY <2>2, <2>3 DEF TripInv
  <2>5. q.op \in {"confirm", "fail", "cancel"}
    BY <2>2, <2>4, MergeSound
  <2>6. tripReq[r].pc = "save" /\ tripReq'[r].pc = "idle"
    BY <1>2 DEF SaveBooking, At, Finish, Continue, Idle, TripInv
  <2>7. QED
    BY <2>1, <2>5, <2>6
<1>3. QED
  BY <1>1, <1>2 DEF TripNext, LoadBooking, TripAbandon, tripVars

\* An edit that loaded the booking before a confirmation or a cancellation does not undo it when
\* it is saved (update, updateHotelDetails, updateTransferDetails, updateVisaProcessing).
THEOREM StatusesKept == TripSpec => EditsKeepStatus
<1>1. TripInv /\ [TripNext]_tripVars =>
        [\A b \in Bookings :
           booking[b].status # "ABSENT" /\ booking'[b].status # booking[b].status =>
             \E r \in Requests : /\ tripReq[r].pc = "save" /\ tripReq'[r].pc = "idle"
                                 /\ tripReq[r].op \in {"confirm", "fail", "cancel"}]_tripVars
  BY StepKeepsStatus
<1>2. QED
  BY <1>1, InitTripInv, StepTripInv, PTL DEF TripSpec, EditsKeepStatus

\* Request r will confirm booking b with its save.
Confirming(r, b) ==
  /\ At(tripReq, r, "save") /\ tripReq[r].booking = b
  /\ "status" \in DOMAIN tripReq[r].set /\ tripReq[r].set["status"] = "CONFIRMED"

\* A cancelled booking that no confirmation has loaded before its cancellation.
CalledOff(b) == booking[b].status = "CANCELLED" /\ \A r \in Requests : ~Confirming(r, b)

\* No operation that loads a cancelled booking confirms it.
LEMMA CancelledUnconfirmed ==
  ASSUME NEW d, DocSound(d), d.status = "CANCELLED", NEW op \in BookingOps,
         NEW new \in Outcomes(op, d)
  PROVE  new["status"] # "CONFIRMED"
<1>1. "status" \in DOMAIN d /\ DOMAIN d = Fields
  BY DEF DocSound, Fields
<1>2. CASE op = "confirm"
  BY <1>2 DEF Outcomes, Confirmed
<1>3. CASE op \in {"fail", "cancel"}
  <2>1. PICK to \in {"FAILED", "CANCELLED"} : new = [d EXCEPT !.status = to]
    BY <1>3 DEF Outcomes, Failed, Cancelled
  <2>2. QED
    BY <1>1, <2>1
<1>4. CASE op = "update"
  BY <1>4 DEF Outcomes, Edited
<1>5. CASE op = "details"
  <2>1. PICK to \in DetailStatus(d.kind) : new = [d EXCEPT !.detail = to]
    BY <1>5 DEF Outcomes, DetailEdited
  <2>2. QED
    BY <1>1, <2>1
<1>6. CASE op = "visa"
  <2>1. CASE \E x \in VisaStatus : new = VisaMoved(d, x)
    <3>1. PICK x \in VisaStatus : new = VisaMoved(d, x)
      BY <2>1
    <3>2. "status" # "detail" /\ \A y \in DOMAIN Stamped : Stamped[y] # "status"
      BY StampsAreDates DEF Dates
    <3>3. new["status"] = d["status"]
      BY <1>1, <3>1, <3>2 DEF VisaMoved
    <3>4. QED
      BY <3>3
  <2>2. CASE \E f \in {Stamped[x] : x \in DOMAIN Stamped} : new = [d EXCEPT ![f] = TRUE]
    <3>1. PICK f \in Dates : new = [d EXCEPT ![f] = TRUE]
      BY <2>2, StampsAreDates
    <3>2. f # "status"
      BY DEF Dates
    <3>3. QED
      BY <1>1, <3>1, <3>2
  <2>3. QED
    BY <1>6, <2>1, <2>2 DEF Outcomes, VisaEdited
<1>7. QED
  BY <1>2, <1>3, <1>4, <1>5, <1>6 DEF BookingOps

\* What booking b's status becomes, and who may confirm it then.
LEMMA CalledOffStep ==
  ASSUME TripInv, [TripNext]_tripVars, NEW b \in Bookings, CalledOff(b)
  PROVE  /\ booking'[b].status # "CONFIRMED"
         /\ \A r \in Requests : ~Confirming(r, b)'
<1>1. ASSUME NEW x \in Bookings, CreateBooking(x)
      PROVE  booking'[b] = booking[b] /\ \A r \in Requests : ~Confirming(r, b)'
  <2>1. x # b
    BY <1>1 DEF CreateBooking, CalledOff
  <2>2. QED
    BY <1>1, <2>1 DEF CreateBooking, TripInv, CalledOff, Confirming, At
<1>2. ASSUME NEW r \in Requests, NEW x \in Bookings, NEW op \in BookingOps, LoadBooking(r, x, op)
      PROVE  booking'[b] = booking[b] /\ \A s \in Requests : ~Confirming(s, b)'
  <2>1. PICK new \in Outcomes(op, booking[x]) :
          tripReq' = [tripReq EXCEPT ![r] =
                        [pc |-> "save", op |-> op, booking |-> x,
                         set |-> [f \in Modified(booking[x], new) |-> new[f]]]]
    BY <1>2 DEF LoadBooking, Continue
  <2>2. booking' = booking /\ \A s \in Requests \ {r} : tripReq'[s] = tripReq[s]
    BY <1>2, <2>1 DEF LoadBooking, TripInv
  <2>3. /\ tripReq'[r].booking = x
        /\ tripReq'[r].set = [f \in Modified(booking[x], new) |-> new[f]]
    BY <2>1 DEF TripInv
  <2>4. x = b => new["status"] # "CONFIRMED"
    BY CancelledUnconfirmed DEF CalledOff, TripInv
  <2>5. ~Confirming(r, b)'
    BY <2>3, <2>4 DEF Confirming
  <2>6. QED
    BY <2>2, <2>5 DEF CalledOff, Confirming, At
<1>3. ASSUME NEW r \in Requests, SaveBooking(r)
      PROVE  booking'[b].status # "CONFIRMED" /\ \A s \in Requests : ~Confirming(s, b)'
  <2>1. PICK q : q = tripReq[r]
    OBVIOUS
  <2>2. q.booking \in Bookings /\ DOMAIN q.set \subseteq Fields /\ DOMAIN booking[b] = Fields
    BY <1>3, <2>1 DEF SaveBooking, TripInv, RequestSound, SetSound, DocSound
  <2>3. booking' = [booking EXCEPT ![q.booking] = Overwritten(booking[q.booking], q.set)]
    BY <1>3, <2>1, <2>2 DEF SaveBooking, TripInv
  <2>4. CASE q.booking = b
    <3>1. booking'[b] = Overwritten(booking[b], q.set)
      BY <2>3, <2>4 DEF TripInv
    <3>2. booking'[b]["status"] = IF "status" \in DOMAIN q.set THEN q.set["status"]
                                                              ELSE booking[b]["status"]
      BY <2>2, <3>1 DEF Overwritten, Fields
    <3>3. "status" \in DOMAIN q.set => q.set["status"] # "CONFIRMED"
      BY <1>3, <2>1, <2>4 DEF CalledOff, Confirming, SaveBooking
    <3>4. booking'[b]["status"] # "CONFIRMED"
      BY <3>2, <3>3 DEF CalledOff
    <3>5. QED
      BY <1>3, <3>4 DEF SaveBooking, Finish, Continue, Idle, TripInv, CalledOff, Confirming, At
  <2>5. CASE q.booking # b
    <3>1. booking'[b] = booking[b]
      BY <2>3, <2>5 DEF TripInv
    <3>2. QED
      BY <1>3, <3>1 DEF SaveBooking, Finish, Continue, Idle, TripInv, CalledOff, Confirming, At
  <2>6. QED
    BY <2>4, <2>5
<1>4. ASSUME NEW r \in Requests, TripAbandon(r)
      PROVE  booking'[b] = booking[b] /\ \A s \in Requests : ~Confirming(s, b)'
  BY <1>4 DEF TripAbandon, Finish, Continue, Idle, TripInv, CalledOff, Confirming, At
<1>5. CASE UNCHANGED tripVars
  BY <1>5 DEF tripVars, CalledOff, Confirming, At
<1>6. QED
  BY <1>1, <1>2, <1>3, <1>4, <1>5 DEF TripNext, CalledOff

\* "A cancelled booking cannot be modified" (bookings.service.ts assertActive, which confirm
\* calls): a cancelled booking is confirmed only by a request that had loaded it before its
\* cancellation, and none joins those.
THEOREM OnlyOlderConfirmsRevive ==
  TripSpec => [][\A b \in Bookings : CalledOff(b) =>
                   /\ booking'[b].status # "CONFIRMED"
                   /\ booking'[b].status = "CANCELLED" => CalledOff(b)']_tripVars
<1>1. TripInv /\ [TripNext]_tripVars =>
        [\A b \in Bookings : CalledOff(b) =>
           /\ booking'[b].status # "CONFIRMED"
           /\ booking'[b].status = "CANCELLED" => CalledOff(b)']_tripVars
  BY CalledOffStep DEF CalledOff
<1>2. QED
  BY <1>1, InitTripInv, StepTripInv, PTL DEF TripSpec

-----------------------------------------------------------------------------
(***************************************************************************)
(* The types of bookings.  The values a field may have depend on the kind  *)
(* of its booking, and a set loaded from one document is saved over a      *)
(* later one: both have the same kind.                                     *)
(***************************************************************************)

ValuesOf(kind, f) ==
  CASE f = "kind" -> {kind}
    [] f = "status" -> BookingStatus
    [] f = "detail" -> DetailStatus(kind)
    [] OTHER -> BOOLEAN

DocTyped(d) ==
  /\ d.kind \in BookingKind
  /\ d = [f \in Fields |-> d[f]]
  /\ \A f \in Fields : d[f] \in ValuesOf(d.kind, f)

SetTyped(s, kind) ==
  /\ DOMAIN s \subseteq Fields \ {"kind"}
  /\ \A f \in DOMAIN s : s[f] \in ValuesOf(kind, f)

SaveTyped(r) ==
  \/ tripReq[r] = Idle
  \/ /\ DOMAIN tripReq[r] = {"pc", "op", "booking", "set"}
     /\ tripReq[r].pc = "save" /\ tripReq[r].op \in BookingOps
     /\ tripReq[r].booking \in Bookings /\ DocTyped(booking[tripReq[r].booking])
     /\ SetTyped(tripReq[r].set, booking[tripReq[r].booking].kind)

\* Inductive next to TripInv.
TypedInv ==
  /\ \A b \in Bookings : booking[b] = BookingDoc(None, "ABSENT", None) \/ DocTyped(booking[b])
  /\ \A r \in Requests : SaveTyped(r)

LEMMA ValuesByField ==
  ASSUME NEW kind \in BookingKind
  PROVE  /\ ValuesOf(kind, "kind") = {kind}
         /\ ValuesOf(kind, "status") = BookingStatus
         /\ ValuesOf(kind, "detail") = DetailStatus(kind)
         /\ \A f \in Dates : ValuesOf(kind, f) = BOOLEAN
  BY DEF ValuesOf, Dates

LEMMA NewDocTyped ==
  ASSUME NEW kind \in BookingKind
  PROVE  DocTyped(BookingDoc(kind, "PENDING", InitialDetail(kind)))
<1> DEFINE d == BookingDoc(kind, "PENDING", InitialDetail(kind))
<1>1. d = [f \in Fields |-> d[f]] /\ d["kind"] = kind
  BY DEF BookingDoc, Fields, Dates
<1>2. d["status"] \in BookingStatus /\ \A f \in Dates : d[f] \in BOOLEAN
  BY DEF BookingDoc, Dates, BookingStatus
<1>3. d["detail"] \in DetailStatus(kind)
  BY DEF BookingDoc, InitialDetail, DetailStatus, HotelDetailStatus, TransferDetailStatus,
         VisaStatus, BookingKind
<1>4. QED
  BY <1>1, <1>2, <1>3, ValuesByField DEF DocTyped, Fields

LEMMA MergeTyped ==
  ASSUME NEW d, NEW s, DocTyped(d), SetTyped(s, d.kind)
  PROVE  DocTyped(Overwritten(d, s)) /\ Overwritten(d, s).kind = d.kind
<1> DEFINE e == Overwritten(d, s)
<1>1. /\ e = [f \in Fields |-> e[f]]
      /\ \A f \in Fields : e[f] = IF f \in DOMAIN s THEN s[f] ELSE d[f]
  BY DEF Overwritten, DocTyped
<1>2. e["kind"] = d["kind"]
  BY <1>1 DEF SetTyped, Fields
<1>3. \A f \in Fields : e[f] \in ValuesOf(d["kind"], f)
  BY <1>1 DEF SetTyped, DocTyped
<1>4. QED
  BY <1>1, <1>2, <1>3 DEF DocTyped

LEMMA OutcomeTyped ==
  ASSUME NEW d, DocTyped(d), NEW op \in BookingOps, NEW new \in Outcomes(op, d)
  PROVE  SetTyped([f \in Modified(d, new) |-> new[f]], d.kind)
<1>1. /\ DOMAIN d = Fields /\ d["kind"] \in BookingKind
      /\ \A f \in Fields : d[f] \in ValuesOf(d["kind"], f)
      /\ {"kind", "status", "detail", "confirmationDate"} \subseteq Fields /\ Dates \subseteq Fields
      /\ Dates \cap {"kind", "status", "detail"} = {} /\ "confirmationDate" \in Dates
  BY DEF DocTyped, Fields, Dates
<1>2. \A f \in Dates : ValuesOf(d["kind"], f) = BOOLEAN /\ d[f] \in BOOLEAN
  <2>1. \A f \in Dates : ValuesOf(d["kind"], f) = BOOLEAN
    BY <1>1, ValuesByField
  <2>2. QED
    BY <1>1, <2>1
<1> SUFFICES new["kind"] = d["kind"] /\ \A f \in Fields : new[f] \in ValuesOf(d["kind"], f)
  BY <1>1 DEF SetTyped, Modified
<1>3. CASE op = "confirm"
  <2>1. new = [d EXCEPT !.status = "CONFIRMED", !.confirmationDate = TRUE,
                 !.detail = IF d.kind \in {"HOTEL", "TRANSFER"} THEN "CONFIRMED" ELSE @]
    BY <1>3 DEF Outcomes, Confirmed
  <2>2. new["status"] \in BookingStatus /\ new["confirmationDate"] \in BOOLEAN
    BY <1>1, <2>1 DEF BookingStatus
  <2>3. d["kind"] \in {"HOTEL", "TRANSFER"} => "CONFIRMED" \in DetailStatus(d["kind"])
    BY DEF DetailStatus, HotelDetailStatus, TransferDetailStatus
  <2>4. new["detail"] \in ValuesOf(d["kind"], "detail")
    BY <1>1, <2>1, <2>3, ValuesByField
  <2>5. \A f \in Fields \ {"status", "confirmationDate", "detail"} : new[f] = d[f]
    BY <1>1, <2>1
  <2>6. QED
    BY <1>1, <2>2, <2>4, <2>5, ValuesByField
<1>4. CASE op \in {"fail", "cancel"}
  <2>1. PICK to \in BookingStatus : new = [d EXCEPT !.status = to]
    BY <1>4 DEF Outcomes, Failed, Cancelled, BookingStatus
  <2>2. QED
    BY <1>1, <2>1, ValuesByField
<1>5. CASE op = "update"
  BY <1>1, <1>5 DEF Outcomes, Edited
<1>6. CASE op = "details"
  <2>1. PICK to \in DetailStatus(d.kind) : new = [d EXCEPT !.detail = to]
    BY <1>6 DEF Outcomes, DetailEdited
  <2>2. QED
    BY <1>1, <2>1, ValuesByField
<1>7. CASE op = "visa"
  <2>1. d.kind = "VISA"
    BY <1>7 DEF Outcomes, VisaEdited
  <2>2. CASE \E x \in VisaStatus : new = VisaMoved(d, x)
    <3>1. PICK x \in VisaStatus : new = VisaMoved(d, x)
      BY <2>2
    <3>2. CASE x = d.detail
      BY <1>1, <3>1, <3>2 DEF VisaMoved
    <3>3. CASE x # d.detail
      <4>1. \A f \in Fields : new[f] = IF f = "detail" THEN x
                                       ELSE IF x \in DOMAIN Stamped /\ f = Stamped[x] THEN TRUE
                                       ELSE d[f]
        BY <1>1, <3>1, <3>3 DEF VisaMoved
      <4>2. x \in DetailStatus(d["kind"])
        BY <2>1 DEF DetailStatus
      <4>3. x \in DOMAIN Stamped => Stamped[x] \in Dates
        BY StampsAreDates
      <4>4. \A f \in Dates : new[f] = d[f] \/ new[f] = TRUE
        BY <1>1, <4>1
      <4>5. new["kind"] = d["kind"] /\ new["status"] = d["status"] /\ new["detail"] = x
        BY <1>1, <4>1, <4>3
      <4>6. \A f \in Dates : new[f] \in BOOLEAN
        BY <1>2, <4>4
      <4>7. QED
        BY <1>1, <4>2, <4>5, <4>6, ValuesByField DEF Fields
    <3>4. QED
      BY <3>2, <3>3
  <2>3. CASE \E f \in {Stamped[x] : x \in DOMAIN Stamped} : new = [d EXCEPT ![f] = TRUE]
    <3>1. PICK f \in Dates : new = [d EXCEPT ![f] = TRUE]
      BY <2>3, StampsAreDates
    <3>2. new["kind"] = d["kind"] /\ new[f] = TRUE /\ \A g \in Fields \ {f} : new[g] = d[g]
      BY <1>1, <3>1
    <3>3. TRUE \in ValuesOf(d["kind"], f)
      BY <1>2
    <3>4. QED
      BY <1>1, <3>2, <3>3
  <2>4. QED
    BY <1>7, <2>2, <2>3 DEF Outcomes, VisaEdited
<1>8. QED
  BY <1>3, <1>4, <1>5, <1>6, <1>7 DEF BookingOps

\* A document that changes keeps its kind, so the sets in flight stay typed.
LEMMA TypedLater ==
  ASSUME TripInv, TypedInv, NEW b \in Bookings, NEW e, DocTyped(e),
         booking' = [booking EXCEPT ![b] = e],
         DocTyped(booking[b]) => e.kind = booking[b].kind,
         NEW r \in Requests, tripReq'[r] = tripReq[r]
  PROVE  SaveTyped(r)'
<1>1. booking'[b] = e /\ \A x \in Bookings \ {b} : booking'[x] = booking[x]
  BY DEF TripInv
<1>2. PICK q : q = tripReq[r]
  OBVIOUS
<1>3. CASE q = Idle
  BY <1>2, <1>3 DEF SaveTyped
<1>4. CASE q # Idle
  <2>1. /\ DOMAIN q = {"pc", "op", "booking", "set"} /\ q.pc = "save" /\ q.op \in BookingOps
        /\ q.booking \in Bookings /\ DocTyped(booking[q.booking])
        /\ SetTyped(q.set, booking[q.booking].kind)
    BY <1>2, <1>4 DEF TypedInv, SaveTyped
  <2>2. DocTyped(booking'[q.booking]) /\ booking'[q.booking].kind = booking[q.booking].kind
    BY <1>1, <2>1
  <2>3. QED
    BY <1>2, <2>1, <2>2 DEF SaveTyped
<1>5. QED
  BY <1>3, <1>4

LEMMA StepTypedInv == TripInv /\ TypedInv /\ [TripNext]_tripVars => TypedInv'
<1> SUFFICES ASSUME TripInv, TypedInv, [TripNext]_tripVars PROVE TypedInv'
  OBVIOUS
<1>1. ASSUME NEW b \in Bookings, CreateBooking(b) PROVE TypedInv'
  <2>1. PICK kind \in BookingKind :
          booking' = [booking EXCEPT ![b] = BookingDoc(kind, "PENDING", InitialDetail(kind))]
    BY <1>1, TripAssumption DEF CreateBooking
  <2>2. ~DocTyped(booking[b])
    <3>1. DocTyped(booking[b]) => booking[b]["status"] \in BookingStatus
      BY ValuesByField DEF DocTyped, Fields
    <3>2. QED
      BY <1>1, <3>1 DEF CreateBooking, BookingStatus
  <2>3. \A x \in Bookings : booking'[x] = BookingDoc(None, "ABSENT", None) \/ DocTyped(booking'[x])
    BY <2>1, NewDocTyped DEF TripInv, TypedInv
  <2>4. \A r \in Requests : SaveTyped(r)'
    BY <1>1, <2>1, <2>2, NewDocTyped, TypedLater DEF CreateBooking
  <2>5. QED
    BY <2>3, <2>4 DEF TypedInv
<1>2. ASSUME NEW r \in Requests, NEW b \in Bookings, NEW op \in BookingOps, LoadBooking(r, b, op)
      PROVE  TypedInv'
  <2>1. PICK new \in Outcomes(op, booking[b]) :
          tripReq' = [tripReq EXCEPT ![r] =
                        [pc |-> "save", op |-> op, booking |-> b,
                         set |-> [f \in Modified(booking[b], new) |-> new[f]]]]
    BY <1>2 DEF LoadBooking, Continue
  <2>2. DocTyped(booking[b])
    BY <1>2 DEF LoadBooking, TypedInv, BookingDoc
  <2>3. SetTyped([f \in Modified(booking[b], new) |-> new[f]], booking[b].kind)
    BY <2>2, OutcomeTyped
  <2>4. booking' = booking
    BY <1>2 DEF LoadBooking
  <2>5. \A x \in Requests : SaveTyped(x)'
    <3>1. SaveTyped(r)'
      BY <2>1, <2>2, <2>3, <2>4 DEF SaveTyped, TripInv
    <3>2. \A x \in Requests \ {r} : tripReq'[x] = tripReq[x]
      BY <2>1 DEF TripInv
    <3>3. \A x \in Requests \ {r} : SaveTyped(x)'
      BY <2>4, <3>2 DEF TypedInv, SaveTyped
    <3>4. QED
      BY <3>1, <3>3
  <2>6. QED
    BY <2>4, <2>5 DEF TypedInv
<1>3. ASSUME NEW r \in Requests, SaveBooking(r) PROVE TypedInv'
  <2>1. PICK q : q = tripReq[r]
    OBVIOUS
  <2>2. /\ q.booking \in Bookings /\ DocTyped(booking[q.booking])
        /\ SetTyped(q.set, booking[q.booking].kind)
    BY <1>3, <2>1 DEF SaveBooking, At, Idle, TypedInv, SaveTyped
  <2>3. PICK e : e = Overwritten(booking[q.booking], q.set)
    OBVIOUS
  <2>4. DocTyped(e) /\ e.kind = booking[q.booking].kind
    BY <2>2, <2>3, MergeTyped
  <2>5. booking' = [booking EXCEPT ![q.booking] = e]
    BY <1>3, <2>1, <2>3 DEF SaveBooking
  <2>6. tripReq'[r] = Idle /\ \A x \in Requests \ {r} : tripReq'[x] = tripReq[x]
    BY <1>3 DEF SaveBooking, Finish, Continue, TripInv
  <2>7. \A x \in Requests : SaveTyped(x)'
    BY <2>2, <2>4, <2>5, <2>6, TypedLater DEF SaveTyped
  <2>8. \A x \in Bookings : booking'[x] = BookingDoc(None, "ABSENT", None) \/ DocTyped(booking'[x])
    BY <2>2, <2>4, <2>5 DEF TripInv, TypedInv
  <2>9. QED
    BY <2>7, <2>8 DEF TypedInv
<1>4. ASSUME NEW r \in Requests, TripAbandon(r) PROVE TypedInv'
  <2>1. booking' = booking /\ tripReq'[r] = Idle
        /\ \A x \in Requests \ {r} : tripReq'[x] = tripReq[x]
    BY <1>4 DEF TripAbandon, Finish, Continue, TripInv
  <2>2. \A x \in Requests : SaveTyped(x)'
    BY <2>1 DEF TypedInv, SaveTyped
  <2>3. QED
    BY <2>1, <2>2 DEF TypedInv
<1>5. CASE UNCHANGED tripVars
  BY <1>5 DEF tripVars, TypedInv, SaveTyped
<1>6. QED
  BY <1>1, <1>2, <1>3, <1>4, <1>5 DEF TripNext

\* In every reachable state a booking holds values of its schema, its detail a status of its own
\* kind, and a save in flight only paths the document has (BookingsService).
THEOREM TripTypeCorrect == TripSpec => []TripTypeOK
<1>1. TripInit => TypedInv
  BY DEF TripInit, TypedInv, SaveTyped
<1>2. TypedInv => TripTypeOK
  <2> SUFFICES ASSUME TypedInv PROVE TripTypeOK
    OBVIOUS
  <2>1. ASSUME NEW b \in Bookings, NEW d, d = booking[b], DocTyped(d)
        PROVE  /\ d \in [kind : BookingKind, status : BookingStatus, detail : DetailStatuses,
                           confirmationDate : BOOLEAN, applicationSubmittedAt : BOOLEAN,
                           processingStartedAt : BOOLEAN, approvedAt : BOOLEAN,
                           rejectedAt : BOOLEAN]
               /\ d.detail \in DetailStatus(d.kind)
    <3>1. /\ d["kind"] \in BookingKind /\ d["status"] \in BookingStatus
          /\ d["detail"] \in DetailStatus(d["kind"])
          /\ \A f \in Dates : d[f] \in BOOLEAN
      BY <2>1, ValuesByField DEF DocTyped, Fields
    <3>2. DetailStatus(d["kind"]) \subseteq DetailStatuses
      BY DEF DetailStatus, DetailStatuses
    <3>3. d = [f \in Fields |-> d[f]]
      BY <2>1 DEF DocTyped
    <3>4. QED
      BY <3>1, <3>2, <3>3 DEF Fields, Dates
  <2>2. ASSUME NEW r \in Requests, tripReq[r] # Idle
        PROVE  DOMAIN tripReq[r].set \subseteq DOMAIN booking[tripReq[r].booking]
    <3>1. PICK q : q = tripReq[r]
      OBVIOUS
    <3>2. SetTyped(q.set, booking[q.booking].kind) /\ DocTyped(booking[q.booking])
      BY <2>2, <3>1 DEF TypedInv, SaveTyped
    <3>3. DOMAIN booking[q.booking] = Fields
      BY <3>2 DEF DocTyped
    <3>4. QED
      BY <3>1, <3>2, <3>3 DEF SetTyped
  <2>3. QED
    BY <2>1, <2>2 DEF TypedInv, SaveTyped, TripTypeOK
<1>3. QED
  BY <1>1, <1>2, InitTripInv, StepTripInv, StepTypedInv, PTL DEF TripSpec

-----------------------------------------------------------------------------
(***************************************************************************)
(* TripRisk.  The level is the highest of a set of levels, whatever the    *)
(* size of the trip, and every rule that gives one is monotone in the time *)
(* left (RulesEscalate).  The dates are days, so there is an earliest one. *)
(***************************************************************************)

\* The inductive invariant: RiskTypeOK but for the level, which is no state.
RiskInv ==
  /\ clock \in Days /\ start \in TravelDays \cup {None}
  /\ traveler \in [Travelers -> [status : {"ABSENT", "ACTIVE", "CANCELLED"}, passport : BOOLEAN,
                                 removed : BOOLEAN]]
  /\ tripBooking \in [RiskBookings -> RiskBooking]
  /\ riskReq \in [Requests -> RiskRequest]

Levels == {Low, Medium, High}

TravelerDoc ==
  [status : {"ABSENT", "ACTIVE", "CANCELLED"}, passport : BOOLEAN, removed : BOOLEAN]

\* A traveler with another status and passport is a traveler.
LEMMA TravelerChanged ==
  ASSUME NEW d \in TravelerDoc, NEW status \in {"ACTIVE", "CANCELLED"}, NEW passport \in BOOLEAN
  PROVE  [[d EXCEPT !.status = status] EXCEPT !.passport = passport] \in TravelerDoc
<1>1. [d EXCEPT !.status = status] \in TravelerDoc
  BY DEF TravelerDoc
<1>2. ASSUME NEW e \in TravelerDoc
      PROVE  [e EXCEPT !.passport = passport] \in TravelerDoc
  BY DEF TravelerDoc
<1>3. QED
  BY <1>1, <1>2

\* The earliest of a set of days.
LEMMA MinIsLeast ==
  ASSUME NEW S, S \subseteq Nat, S # {}
  PROVE  Min(S) \in S /\ \A day \in S : Min(S) <= day
<1> DEFINE R == {ss \in Nat \X Nat : ss[1] < ss[2]}
<1>1. IsWellFoundedOn(R, Nat)
  BY NatLessThanWellFounded DEF OpToRel
<1> HIDE DEF R
<1>2. PICK first \in S : \A day \in S : ~(<<day, first>> \in R)
  BY <1>1, WFMin
<1>3. \A day \in S : first <= day
  <2> TAKE day \in S
  <2>1. day < first => <<day, first>> \in R
    BY DEF R
  <2>2. QED
    BY <1>2, <2>1
<1>4. QED
  BY <1>3 DEF Min

\* The highest of a set of levels.
LEMMA MaxIsHighest ==
  ASSUME NEW S \in SUBSET Levels, S # {}
  PROVE  Max(S) \in S /\ \A level \in S : Max(S) >= level
<1>1. \E highest \in S : \A level \in S : highest >= level
  <2>1. CASE High \in S
    BY <2>1 DEF Levels, Low, Medium, High
  <2>2. CASE High \notin S /\ Medium \in S
    BY <2>2 DEF Levels, Low, Medium, High
  <2>3. CASE High \notin S /\ Medium \notin S
    <3>1. S = {Low}
      BY <2>3 DEF Levels
    <3>2. QED
      BY <3>1 DEF Low
  <2>4. QED
    BY <2>1, <2>2, <2>3
<1>2. QED
  BY <1>1 DEF Max

LEMMA RulesGiveLevels == \A left, high, medium : ByLead(left, high, medium) \in Levels
  BY DEF ByLead, Levels

LEMMA IssuesAreLevels == Issues \cup {Low} \in SUBSET Levels
  BY RulesGiveLevels DEF Issues, Levels

LEMMA LevelIsHighest ==
  /\ RiskLevel \in Issues \cup {Low} /\ RiskLevel \in Levels
  /\ \A level \in Issues \cup {Low} : RiskLevel >= level
  BY IssuesAreLevels, MaxIsHighest DEF RiskLevel

\* The time left counts from the earliest date there is.
LEMMA DepartureIsEarliest ==
  ASSUME RiskInv
  PROVE  /\ DepartureDates \subseteq Nat /\ clock \in Nat
         /\ DaysLeft # None <=> DepartureDates # {}
         /\ DaysLeft # None => /\ DaysLeft \in Int
                               /\ \A day \in DepartureDates : DaysLeft <= day - clock
<1>1. DepartureDates \subseteq Nat /\ clock \in Nat
  <2>1. \A b \in RiskBookings : tripBooking[b].date \in TravelDays \cup {None}
    BY DEF RiskInv, RiskBooking
  <2>2. start \in TravelDays \cup {None} /\ clock \in Days
    BY DEF RiskInv
  <2>3. DepartureDates \subseteq TravelDays
    BY <2>1, <2>2 DEF DepartureDates, Stored
  <2>4. QED
    BY <2>2, <2>3, RiskAssumption
<1>2. CASE DepartureDates = {}
  BY <1>1, <1>2 DEF DaysLeft
<1>3. CASE DepartureDates # {}
  <2>1. Min(DepartureDates) \in Nat /\ \A day \in DepartureDates : Min(DepartureDates) <= day
    BY <1>1, <1>3, MinIsLeast
  <2>2. DaysLeft = Min(DepartureDates) - clock
    BY <1>3 DEF DaysLeft
  <2>3. DaysLeft \in Int /\ \A day \in DepartureDates : DaysLeft <= day - clock
    BY <1>1, <2>1, <2>2
  <2>4. QED
    BY <1>1, <1>3, <2>3, RiskAssumption
<1>4. QED
  BY <1>2, <1>3

-----------------------------------------------------------------------------
LEMMA InitRiskInv == RiskInit => RiskInv
  BY RiskAssumption DEF RiskInit, RiskInv, RiskBooking, RiskRequest

LEMMA TravelerRequests ==
  ASSUME NEW t \in Travelers
  PROVE  /\ [pc |-> "removeTraveler", traveler |-> t] \in RiskRequest
         /\ \A s \in {"ACTIVE", "CANCELLED"}, p \in BOOLEAN :
              [pc |-> "writeTraveler", traveler |-> t, status |-> s, passport |-> p] \in RiskRequest
  BY DEF RiskRequest

LEMMA StepRiskInv == RiskInv /\ [RiskNext]_riskVars => RiskInv'
<1> SUFFICES ASSUME RiskInv, [RiskNext]_riskVars PROVE RiskInv'
  OBVIOUS
<1>1. CASE Tick \/ SetStart
  BY <1>1 DEF Tick, SetStart, RiskInv
<1>2. ASSUME NEW b \in RiskBookings, BookingChanges(b) PROVE RiskInv'
  BY <1>2, FormsAssumption DEF BookingChanges, RiskInv
<1>3. ASSUME NEW t \in Travelers, AddTraveler(t) PROVE RiskInv'
  <2>1. traveler[t] \in TravelerDoc /\ traveler \in [Travelers -> TravelerDoc]
    BY DEF RiskInv, TravelerDoc
  <2>2. PICK p \in BOOLEAN : traveler' = [traveler EXCEPT ![t].status = "ACTIVE", ![t].passport = p]
    BY <1>3 DEF AddTraveler
  <2>3. /\ DOMAIN traveler' = Travelers /\ \A x \in Travelers \ {t} : traveler'[x] = traveler[x]
        /\ traveler'[t] = [[traveler[t] EXCEPT !.status = "ACTIVE"] EXCEPT !.passport = p]
    BY <2>1, <2>2
  <2>4. traveler'[t] \in TravelerDoc
    BY <2>1, <2>3 DEF TravelerDoc
  <2>5. traveler' \in [Travelers -> TravelerDoc]
    BY <2>1, <2>2, <2>3, <2>4
  <2>6. QED
    BY <1>3, <2>5 DEF AddTraveler, RiskInv, TravelerDoc
<1>4. ASSUME NEW r \in Requests, NEW t \in Travelers, TravelerRead(r, t) PROVE RiskInv'
  BY <1>4, TravelerRequests DEF TravelerRead, Continue, RiskInv
<1>5. ASSUME NEW r \in Requests, TravelerWrite(r) PROVE RiskInv'
  <2> DEFINE q == riskReq[r]
  <2>1. /\ q \in RiskRequest
        /\ q.pc = "removeTraveler" => q.traveler \in Travelers
        /\ q.pc = "writeTraveler" => /\ q.traveler \in Travelers /\ q.passport \in BOOLEAN
                                     /\ q.status \in {"ACTIVE", "CANCELLED"}
    BY DEF RiskInv, RiskRequest, Idle
  <2>2. riskReq' \in [Requests -> RiskRequest]
    BY <1>5 DEF TravelerWrite, Finish, Continue, RiskInv, RiskRequest
  <2>3. traveler \in [Travelers -> TravelerDoc]
    BY DEF RiskInv, TravelerDoc
  <2>4. CASE q.pc = "removeTraveler"
    <3>1. traveler' = [traveler EXCEPT ![q.traveler].removed = TRUE]
      BY <1>5, <2>4 DEF TravelerWrite, At
    <3>2. traveler' \in [Travelers -> TravelerDoc]
      BY <2>1, <2>3, <2>4, <3>1 DEF TravelerDoc
    <3>3. QED
      BY <1>5, <2>2, <3>2 DEF TravelerWrite, RiskInv, TravelerDoc
  <2>5. CASE q.pc # "removeTraveler"
    <3>1. /\ traveler' = [traveler EXCEPT ![q.traveler].status = q.status,
                                          ![q.traveler].passport = q.passport]
          /\ q.traveler \in Travelers /\ q.passport \in BOOLEAN
          /\ q.status \in {"ACTIVE", "CANCELLED"}
      BY <1>5, <2>1, <2>5 DEF TravelerWrite, At
    <3>2. /\ DOMAIN traveler' = Travelers
          /\ \A x \in Travelers \ {q.traveler} : traveler'[x] = traveler[x]
          /\ traveler'[q.traveler] = [[traveler[q.traveler] EXCEPT !.status = q.status]
                                        EXCEPT !.passport = q.passport]
      BY <2>3, <3>1
    <3>3. traveler'[q.traveler] \in TravelerDoc
      BY <2>3, <3>1, <3>2, TravelerChanged
    <3>4. traveler' \in [Travelers -> TravelerDoc]
      BY <2>3, <3>1, <3>2, <3>3
    <3>5. QED
      BY <1>5, <2>2, <3>4 DEF TravelerWrite, RiskInv, TravelerDoc
  <2>6. QED
    BY <2>4, <2>5
<1>6. CASE UNCHANGED riskVars
  BY <1>6 DEF riskVars, RiskInv
<1>7. QED
  BY <1>1, <1>2, <1>3, <1>4, <1>5, <1>6 DEF RiskNext

\* Documents have their types and the assessment returns a level, for any trip.
THEOREM RiskTypeCorrect == RiskSpec => []RiskTypeOK
<1>1. RiskInv => RiskTypeOK
  BY LevelIsHighest DEF RiskInv, RiskTypeOK, Levels
<1>2. QED
  BY <1>1, InitRiskInv, StepRiskInv, PTL DEF RiskSpec

\* An open item at most three days ahead of its booking is HIGH while the trip has not begun,
\* whatever else the trip has, and a trip with nothing open is LOW
\* (OperationalRiskService.assess).
THEOREM NoAlarmIsMissed == RiskSpec => []NoAlarmMissed
<1>1. ASSUME RiskInv PROVE NoAlarmMissed
  <2>1. ASSUME NEW b \in Unconfirmed("HOTEL") \cup Unconfirmed("TRANSFER") \cup PendingVisas,
               tripBooking[b].date # None, tripBooking[b].date - clock <= 3, DaysLeft >= 0
        PROVE  RiskLevel = High
    <3>1. tripBooking[b].date \in DepartureDates
      BY <2>1 DEF Unconfirmed, PendingVisas, DepartureDates
    <3>2. DaysLeft # None /\ DaysLeft \in Int /\ DaysLeft <= tripBooking[b].date - clock
      BY <1>1, <3>1, DepartureIsEarliest
    <3>3. tripBooking[b].date - clock \in Int
      BY <1>1, <3>1, DepartureIsEarliest
    <3>4. Imminent(DaysLeft)
      BY <2>1, <3>2, <3>3 DEF Imminent
    <3>5. Unresolved
      BY <2>1 DEF Unresolved
    <3>6. High \in Issues
      BY <3>4, <3>5 DEF Issues
    <3>7. QED
      BY <3>6, LevelIsHighest DEF Levels, Low, Medium, High
  <2>2. ASSUME ~Unresolved, MissingReferences = {} PROVE RiskLevel = Low
    <3>1. Issues = {}
      BY <2>2 DEF Issues, Unresolved
    <3>2. QED
      BY <3>1, LevelIsHighest
  <2>3. QED
    BY <2>1, <2>2 DEF NoAlarmMissed
<1>2. QED
  BY <1>1, InitRiskInv, StepRiskInv, PTL DEF RiskSpec

-----------------------------------------------------------------------------
\* Less time left, no lower a level, until the time is up.
LEMMA RulesEscalate ==
  ASSUME NEW left \in Int, NEW later \in Nat, later <= left,
         NEW high \in Nat, NEW medium \in Nat, high <= medium
  PROVE  ByLead(later, high, medium) >= ByLead(left, high, medium)
  BY RiskAssumption DEF ByLead, Low, Medium, High

LEMMA ClockEscalates ==
  ASSUME RiskInv, [RiskNext]_riskVars, clock' # clock, DaysLeft' # None, DaysLeft' >= 0
  PROVE  RiskLevel' >= RiskLevel
<1>1. Tick
  BY DEF RiskNext, riskVars, SetStart, BookingChanges, AddTraveler, TravelerRead, TravelerWrite
<1>2. /\ clock \in Nat /\ clock' \in Nat /\ clock' > clock
      /\ UNCHANGED <<start, traveler, tripBooking>>
  BY <1>1, RiskAssumption DEF Tick, RiskInv
<1>3. /\ NoPassport' = NoPassport /\ PendingVisas' = PendingVisas
      /\ \A kind : Unconfirmed(kind)' = Unconfirmed(kind)
      /\ MissingReferences' = MissingReferences /\ DepartureDates' = DepartureDates
  BY <1>2 DEF NoPassport, PendingVisas, Unconfirmed, MissingReferences, DepartureDates, Stored
<1> DEFINE left == DaysLeft
           later == DaysLeft'
<1>4. left \in Int /\ later \in Nat /\ later <= left /\ left # None
  <2>1. DepartureDates # {} /\ DepartureDates \subseteq Nat
    BY <1>3, DepartureIsEarliest DEF DaysLeft
  <2>2. PICK first \in Nat : first = Min(DepartureDates)
    BY <2>1, MinIsLeast
  <2>3. left = first - clock /\ later = first - clock'
    BY <1>3, <2>1, <2>2 DEF DaysLeft
  <2>4. QED
    <3>1. \A now, next \in Nat :
            next > now => /\ first - now \in Int /\ first - next \in Int
                          /\ first - next <= first - now
      OBVIOUS
    <3>2. left \in Int /\ later \in Int /\ later <= left
      BY <1>2, <2>3, <3>1
    <3>3. QED
      BY <3>2, RiskAssumption
<1> HIDE DEF left, later
<1>5. /\ ByLead(later, 3, 14) >= ByLead(left, 3, 14)
      /\ ByLead(later, 14, 30) >= ByLead(left, 14, 30)
  BY <1>4, RulesEscalate
<1>6. \A level \in Issues \cup {Low} : \E now \in Issues' \cup {Low} : now >= level
  <2> TAKE level \in Issues \cup {Low}
  <2>1. CASE level = Low
    BY <2>1 DEF Low
  <2>2. ASSUME NEW t \in NoPassport, level = ByLead(left, 3, 14)
        PROVE  \E now \in Issues' \cup {Low} : now >= level
    BY <1>3, <1>5, <2>2 DEF Issues, later
  <2>3. ASSUME NEW b \in Unconfirmed("HOTEL") \cup Unconfirmed("TRANSFER"),
               level = ByLead(left, 3, 14)
        PROVE  \E now \in Issues' \cup {Low} : now >= level
    BY <1>3, <1>5, <2>3 DEF Issues, later
  <2>4. ASSUME NEW b \in PendingVisas, level = ByLead(left, 14, 30)
        PROVE  \E now \in Issues' \cup {Low} : now >= level
    BY <1>3, <1>5, <2>4 DEF Issues, later
  <2>5. ASSUME NEW b \in MissingReferences, level = Medium
        PROVE  \E now \in Issues' \cup {Low} : now >= level
    BY <1>3, <2>5 DEF Issues, Medium
  <2>6. ASSUME Imminent(left), Unresolved, level = High
        PROVE  \E now \in Issues' \cup {Low} : now >= level
    <3>1. Imminent(later) /\ Unresolved'
      BY <1>3, <1>4, <2>6, RiskAssumption DEF Imminent, Unresolved
    <3>2. High \in Issues'
      BY <3>1 DEF Issues, later
    <3>3. QED
      BY <2>6, <3>2 DEF High
  <2>7. QED
    BY <2>1, <2>2, <2>3, <2>4, <2>5, <2>6 DEF Issues, left
<1>7. PICK now \in Issues' \cup {Low} : now >= RiskLevel
  BY <1>6, LevelIsHighest
<1>8. RiskLevel' >= now /\ now \in Levels /\ RiskLevel' \in Levels
  <2>1. (/\ Issues \cup {Low} \in SUBSET Levels /\ RiskLevel \in Levels
         /\ \A level \in Issues \cup {Low} : RiskLevel >= level)'
    BY IssuesAreLevels, LevelIsHighest, PTL
  <2>2. QED
    BY <2>1 DEF Levels, Low, Medium, High
<1>9. QED
  BY <1>7, <1>8, LevelIsHighest DEF Levels, Low, Medium, High

\* With the documents as they are, the level of a trip never falls as its departure comes
\* closer (byLead, and the escalation of the last three days).
THEOREM LevelsEscalate == RiskSpec => RiskEscalates
<1>1. RiskInv /\ [RiskNext]_riskVars =>
        [clock' # clock /\ DaysLeft' # None /\ DaysLeft' >= 0 => RiskLevel' >= RiskLevel]_riskVars
  BY ClockEscalates
<1>2. QED
  BY <1>1, InitRiskInv, StepRiskInv, PTL DEF RiskSpec, RiskEscalates

-----------------------------------------------------------------------------
(***************************************************************************)
(* VendorRates.  The check precedes the write, so what it found must still *)
(* hold when the write comes.  As long as no two rates are on their way    *)
(* together, all that moves between the two is a removal, which takes      *)
(* rivals away (Checked) and leaves the rate the check was about as it was *)
(* read, but for its flag (Foreseen).  A rate's code is another matter: it *)
(* may be checked for one that the write does not leave, and a rate whose  *)
(* target this has changed is strayed.                                     *)
(***************************************************************************)

RateDoc(doc) ==
  /\ DOMAIN doc = DOMAIN NoRate
  /\ doc["from"] \in Int /\ doc["to"] \in Int \cup {None}
  /\ doc["status"] \in RateStatus \cup {"ABSENT"}

Plain == DOMAIN NoRate \ {"removed"}

\* The fields that are written as they are checked.
AsChecked == Plain \ {"code"}

\* What every request carries, raced or not.
RequestTyped(d) ==
  LET q == rateReq[d] IN
  /\ rateReq[d] = Idle \/ q.pc \in {"removeRate", "checkOverlap", "writeRate"}
  /\ q.pc = "removeRate" => q.rate \in Rates /\ rate[q.rate].status \in RateStatus
  /\ OnItsWay(d) =>
       /\ q = [pc |-> q.pc, rate |-> q.rate, doc |-> q.doc, set |-> q.set]
       /\ q.rate \in Rates \cup {None}
       /\ q.rate # None => rate[q.rate].status \in RateStatus
       /\ RateDoc(q.doc) /\ ValidWindow(q.doc) /\ Entered(q.set)
       /\ q.rate = None => /\ q.doc = Overwritten(NoRate, q.set)
                           /\ DOMAIN NoRate = DOMAIN q.set \cup {"removed"}

\* The document a request submitted is what its write will leave, but for the code.
Foreseen(d) ==
  OnItsWay(d) => \A v \in Rates : rateReq[d].rate = v =>
    \A f \in AsChecked : Overwritten(rate[v], rateReq[d].set)[f] = rateReq[d].doc[f]

\* What a request is about to write has been checked, if it has to be.
Checked(d) ==
  At(rateReq, d, "writeRate") /\ rateReq[d].doc["status"] = "ACTIVE" =>
    ~Clash(rateReq[d].doc, rateReq[d].rate)

\* Two rates of one target do not meet.
Applies(v) == VisibleRate(v) /\ rate[v].status = "ACTIVE"

Apart(v, w) ==
  /\ Applies(v) /\ Applies(w) /\ rate[v].line = rate[w].line /\ Target(rate[v]) = Target(rate[w])
  => ~WindowsOverlap(rate[v], rate[w])

\* What holds whatever has raced, and what holds as long as nothing has.
RateTyped ==
  /\ DOMAIN rate = Rates /\ rate = [v \in Rates |-> rate[v]]
  /\ DOMAIN rateReq = Requests /\ rateReq = [d \in Requests |-> rateReq[d]]
  /\ raced \in BOOLEAN /\ strayed \subseteq Rates
  /\ \A v \in Rates : RateDoc(rate[v]) /\ (rate[v] = NoRate \/ rate[v].status \in RateStatus)
  /\ \A d \in Requests : RequestTyped(d)

Unraced ==
  /\ \A v \in Rates : ValidWindow(rate[v])
  /\ \A d, e \in Requests : OnItsWay(d) /\ OnItsWay(e) => d = e
  /\ \A d \in Requests : Foreseen(d) /\ Checked(d)
  /\ \A v, w \in Rates \ strayed : v # w => Apart(v, w)

\* The inductive invariant.
RateInv == RateTyped /\ (~raced => Unraced)

\* The rates of one target are rivals.
LEMMA SameTargetIsRival ==
  ASSUME NEW doc, NEW w \in Rates, Applies(w), rate[w].line = doc.line,
         Target(doc) = Target(rate[w]),
         doc.hotel = None /\ doc.service = None /\ NamesCode(doc.code)
           => Trimmed(doc.code) = doc.code
  PROVE  w \in Rivals(doc)
  BY DEF Rivals, Target, Applies, VisibleRate

LEMMA OverlapSymmetric ==
  ASSUME NEW a, NEW b, WindowsOverlap(a, b)
  PROVE  WindowsOverlap(b, a)
  BY DEF WindowsOverlap

\* Windows that share a day overlap.
LEMMA CommonDayOverlaps ==
  ASSUME NEW a, NEW b, RateDoc(a), RateDoc(b), NEW day \in Int, Covers(a, day), Covers(b, day)
  PROVE  WindowsOverlap(a, b)
  BY DEF RateDoc, Covers, WindowsOverlap, NoLaterThan

LEMMA NoRateIsDoc == RateDoc(NoRate) /\ ValidWindow(NoRate)
  BY DEF RateDoc, NoRate, ValidWindow

\* What is entered over a document is a document.
LEMMA OverwrittenIsDoc ==
  ASSUME NEW doc, RateDoc(doc), NEW set, Entered(set)
  PROVE  /\ RateDoc(Overwritten(doc, set))
         /\ \A f \in DOMAIN NoRate :
              Overwritten(doc, set)[f] = IF f \in DOMAIN set THEN set[f] ELSE doc[f]
         /\ doc["status"] \in RateStatus => Overwritten(doc, set)["status"] \in RateStatus
  BY DEF Overwritten, RateDoc, Entered, NoRate

\* What is checked is a document, too.
LEMMA EffectiveIsDoc ==
  ASSUME NEW doc, RateDoc(doc), NEW set, Entered(set)
  PROVE  /\ RateDoc(Effective(set, doc))
         /\ \A f \in AsChecked : Effective(set, doc)[f] = Overwritten(doc, set)[f]
<1> DEFINE over == Overwritten(doc, set)
<1>1. RateDoc(over)
  BY OverwrittenIsDoc
<1>2. Effective(set, doc) = [over EXCEPT !["code"] = IF @ = None THEN doc.code ELSE @]
  BY DEF Effective
<1> HIDE DEF over
<1>3. QED
  BY <1>1, <1>2 DEF RateDoc, AsChecked, Plain, NoRate, over

LEMMA TrimmedOnce == \A code : Trimmed(Trimmed(code)) = Trimmed(code)
  BY DEF Trimmed

\* What a write leaves is a document; it differs from the one written in the code at most.
WrittenOver(doc, set) == [Overwritten(doc, set) EXCEPT !.code = Trimmed(@)]

LEMMA WrittenIsDoc ==
  ASSUME NEW doc, RateDoc(doc), NEW set, Entered(set)
  PROVE  /\ RateDoc(WrittenOver(doc, set))
         /\ \A f \in DOMAIN NoRate \ {"code"} :
              WrittenOver(doc, set)[f] = Overwritten(doc, set)[f]
         /\ Trimmed(WrittenOver(doc, set)["code"]) = WrittenOver(doc, set)["code"]
         /\ \/ doc["status"] \in RateStatus \/ "status" \in DOMAIN set
            => WrittenOver(doc, set)["status"] \in RateStatus
<1> DEFINE over == Overwritten(doc, set)
<1>1. /\ RateDoc(over)
      /\ doc["status"] \in RateStatus \/ "status" \in DOMAIN set => over["status"] \in RateStatus
  BY OverwrittenIsDoc DEF Entered, NoRate
<1>2. WrittenOver(doc, set) = [over EXCEPT !["code"] = Trimmed(@)]
  BY DEF WrittenOver
<1> HIDE DEF over
<1>3. /\ DOMAIN WrittenOver(doc, set) = DOMAIN NoRate
      /\ \A f \in DOMAIN NoRate \ {"code"} : WrittenOver(doc, set)[f] = over[f]
      /\ WrittenOver(doc, set)["code"] = Trimmed(over["code"])
  BY <1>1, <1>2 DEF RateDoc, NoRate
<1>4. {"from", "to", "status"} \subseteq DOMAIN NoRate \ {"code"}
  BY DEF NoRate
<1>5. QED
  BY <1>1, <1>3, <1>4, TrimmedOnce DEF RateDoc, over

LEMMA Points ==
  /\ \A d : OnItsWay(d) <=> rateReq[d].pc \in {"checkOverlap", "writeRate"}
  /\ Idle.pc = "idle"
  BY DEF OnItsWay, Idle

-----------------------------------------------------------------------------
LEMMA InitRateInv == RateInit => RateInv
<1> SUFFICES ASSUME RateInit PROVE RateInv
  OBVIOUS
<1>1. /\ \A v \in Rates : rate[v] = NoRate
      /\ \A d \in Requests : rateReq[d] = Idle /\ rateReq[d].pc = "idle"
  BY DEF RateInit, Idle
<1>2. \A v, w \in Rates : Apart(v, w)
  BY <1>1 DEF Apart, Applies, VisibleRate, NoRate
<1>3. \A d \in Requests : RequestTyped(d) /\ Foreseen(d) /\ Checked(d) /\ ~OnItsWay(d)
  BY <1>1 DEF RequestTyped, Foreseen, Checked, OnItsWay, At
<1>4. RateTyped
  BY <1>1, <1>3, NoRateIsDoc DEF RateInit, RateTyped
<1>5. Unraced
  BY <1>1, <1>2, <1>3, NoRateIsDoc DEF Unraced
<1>6. QED
  BY <1>4, <1>5 DEF RateInv

\* The rates stay as they are, but for some that are removed.
OnlyRemoved ==
  \A v \in Rates :
    \/ rate'[v] = rate[v]
    \/ rate[v].status \in RateStatus /\ rate'[v] = [rate[v] EXCEPT !.removed = TRUE]

LEMMA OnlyRemovedKeeps ==
  ASSUME RateTyped, OnlyRemoved
  PROVE  /\ \A v \in Rates : \A f \in Plain : rate'[v][f] = rate[v][f]
         /\ \A v \in Rates : DOMAIN rate'[v] = DOMAIN NoRate
         /\ \A v \in Rates : ~rate'[v].removed => rate'[v] = rate[v]
         /\ {"line", "hotel", "service", "code", "from", "to", "status"} \subseteq Plain
<1>1. \A v \in Rates : DOMAIN rate[v] = DOMAIN NoRate /\ "removed" \in DOMAIN NoRate
  BY DEF RateTyped, RateDoc, NoRate
<1>2. QED
  BY <1>1 DEF OnlyRemoved, Plain, NoRate

\* A removal takes rivals away and brings none.
LEMMA OnlyRemovedClash ==
  ASSUME RateTyped, OnlyRemoved, NEW doc, NEW self, ~Clash(doc, self)
  PROVE  ~Clash(doc, self)'
<1> SUFFICES ASSUME NEW w \in (Rivals(doc) \ {self})'
             PROVE  w \in Rivals(doc) \ {self} /\ rate'[w] = rate[w]
  BY DEF Clash
<1>1. w \in Rates /\ w # self /\ ~rate'[w].removed
  BY DEF Rivals
<1>2. rate'[w] = rate[w]
  BY <1>1, OnlyRemovedKeeps
<1>3. QED
  BY <1>1, <1>2 DEF Rivals

\* What a request knows is not disturbed by the steps of the others, but by a write.
LEMMA OthersKnow ==
  ASSUME RateTyped, OnlyRemoved, NEW e \in Requests, rateReq'[e] = rateReq[e]
  PROVE  /\ RequestTyped(e)'
         /\ OnItsWay(e)' <=> OnItsWay(e)
         /\ Foreseen(e) => Foreseen(e)'
         /\ Checked(e) => Checked(e)'
<1>1. PICK q : q = rateReq[e]
  OBVIOUS
<1>2. RequestTyped(e)'
  <2>1. RequestTyped(e)
    BY DEF RateTyped
  <2>2. \A v \in Rates : rate'[v].status = rate[v].status
    BY OnlyRemovedKeeps
  <2>3. QED
    BY <2>1, <2>2 DEF RequestTyped, OnItsWay
<1>3. OnItsWay(e)' <=> OnItsWay(e)
  BY DEF OnItsWay
<1>4. ASSUME Foreseen(e) PROVE Foreseen(e)'
  <2> SUFFICES ASSUME OnItsWay(e), NEW v \in Rates, q.rate = v, NEW f \in AsChecked
               PROVE  Overwritten(rate'[v], q.set)[f] = q.doc[f]
    BY <1>1 DEF Foreseen, OnItsWay
  <2>1. Overwritten(rate[v], q.set)[f] = q.doc[f]
    BY <1>1, <1>4 DEF Foreseen
  <2>2. /\ DOMAIN rate[v] = DOMAIN NoRate /\ DOMAIN rate'[v] = DOMAIN NoRate /\ f \in DOMAIN NoRate
        /\ rate'[v][f] = rate[v][f]
    BY OnlyRemovedKeeps DEF RateTyped, RateDoc, Plain, AsChecked
  <2>3. QED
    BY <2>1, <2>2 DEF Overwritten
<1>5. ASSUME Checked(e) PROVE Checked(e)'
  BY <1>5, OnlyRemovedClash DEF Checked, At
<1>6. QED
  BY <1>2, <1>3, <1>4, <1>5

\* A step of request d that writes no rate and submits none.
LEMMA StepOneRequest ==
  ASSUME RateInv, NEW d \in Requests, NEW next, rateReq' = Continue(rateReq, d, next),
         DOMAIN rate' = Rates, rate' = [v \in Rates |-> rate'[v]],
         OnlyRemoved, raced' = raced, strayed' = strayed,
         RequestTyped(d)', OnItsWay(d)' => OnItsWay(d), ~raced => Foreseen(d)' /\ Checked(d)'
  PROVE  RateInv'
<1>1. /\ DOMAIN rateReq' = Requests /\ rateReq' = [e \in Requests |-> rateReq'[e]]
      /\ \A e \in Requests \ {d} : rateReq'[e] = rateReq[e]
  BY DEF RateInv, RateTyped, Continue
<1>2. \A e \in Requests \ {d} : /\ RequestTyped(e)' /\ (OnItsWay(e)' <=> OnItsWay(e))
                                /\ ~raced => Foreseen(e)' /\ Checked(e)'
  BY <1>1, OthersKnow DEF RateInv, Unraced
<1>3. \A v \in Rates : /\ RateDoc(rate'[v]) /\ (rate'[v] = NoRate \/ rate'[v].status \in RateStatus)
                       /\ ValidWindow(rate[v]) => ValidWindow(rate'[v])
  <2> TAKE v \in Rates
  <2>1. CASE rate'[v] = rate[v]
    BY <2>1 DEF RateInv, RateTyped
  <2>2. CASE rate'[v] # rate[v]
    <3>1. RateDoc(rate[v]) /\ rate[v].status \in RateStatus
      BY <2>2 DEF RateInv, RateTyped, OnlyRemoved
    <3>2. /\ DOMAIN rate'[v] = DOMAIN NoRate /\ rate'[v].from = rate[v].from
          /\ rate'[v].to = rate[v].to /\ rate'[v].status = rate[v].status
      BY OnlyRemovedKeeps DEF RateInv
    <3>3. QED
      BY <3>1, <3>2 DEF RateDoc, ValidWindow
  <2>3. QED
    BY <2>1, <2>2
<1>4. \A v, w \in Rates : Apart(v, w) => Apart(v, w)'
  <2> SUFFICES ASSUME NEW v \in Rates, NEW w \in Rates, Apart(v, w), Applies(v)', Applies(w)'
               PROVE  rate'[v] = rate[v] /\ rate'[w] = rate[w]
    BY DEF Apart, Applies, VisibleRate
  <2>1. QED
    BY OnlyRemovedKeeps DEF Applies, VisibleRate, RateInv
<1>5. RateTyped'
  BY <1>1, <1>2, <1>3 DEF RateInv, RateTyped
<1>6. ~raced' => Unraced'
  BY <1>2, <1>3, <1>4 DEF RateInv, Unraced
<1>7. QED
  BY <1>5, <1>6 DEF RateInv

LEMMA NothingRemoved == rate' = rate => OnlyRemoved
  BY DEF OnlyRemoved

LEMMA StepSubmit ==
  ASSUME RateInv, NEW d \in Requests, NEW v, NEW doc, NEW set, Submit(d, v, doc, set),
         v \in Rates \cup {None}, v # None => rate[v].status \in RateStatus,
         RateDoc(doc), Entered(set),
         v = None => doc = Overwritten(NoRate, set) /\ DOMAIN NoRate = DOMAIN set \cup {"removed"},
         v \in Rates => \A f \in AsChecked : doc[f] = Overwritten(rate[v], set)[f]
  PROVE  RateInv'
<1> DEFINE q == [pc |-> IF doc.status = "ACTIVE" THEN "checkOverlap" ELSE "writeRate",
                 rate |-> v, doc |-> doc, set |-> set]
<1>1. /\ DOMAIN rateReq' = Requests /\ rateReq' = [e \in Requests |-> rateReq'[e]]
      /\ \A e \in Requests \ {d} : rateReq'[e] = rateReq[e]
      /\ rateReq'[d] = q /\ rate' = rate /\ strayed' = strayed /\ ValidWindow(doc)
  BY DEF RateInv, RateTyped, Submit, Continue
<1>2. /\ q.pc \in {"checkOverlap", "writeRate"} /\ q.rate = v /\ q.doc = doc /\ q.set = set
      /\ doc["status"] = "ACTIVE" => q.pc = "checkOverlap"
      /\ q = [pc |-> q.pc, rate |-> q.rate, doc |-> q.doc, set |-> q.set]
  OBVIOUS
<1> HIDE DEF q
<1>3. \A e \in Requests \ {d} : RequestTyped(e)' /\ (OnItsWay(e)' <=> OnItsWay(e))
  BY <1>1, OthersKnow, NothingRemoved DEF RateInv
<1>4. RequestTyped(d)'
  BY <1>1, <1>2 DEF RequestTyped
<1>5. Foreseen(d)' /\ Checked(d)'
  BY <1>1, <1>2 DEF Foreseen, Checked, At
<1>6. /\ raced' \in BOOLEAN
      /\ ~raced' => ~raced /\ \A e \in Requests : ~OnItsWay(e)
  BY DEF Submit, RateInv, RateTyped
<1>7. RateTyped'
  BY <1>1, <1>3, <1>4, <1>6 DEF RateInv, RateTyped
<1>8. ASSUME ~raced' PROVE Unraced'
  <2>1. Unraced /\ \A e \in Requests \ {d} : Foreseen(e)' /\ Checked(e)' /\ ~OnItsWay(e)'
    BY <1>1, <1>3, <1>6, <1>8, OthersKnow, NothingRemoved DEF RateInv, Unraced
  <2>2. \A x, w \in Rates : Apart(x, w)' <=> Apart(x, w)
    BY <1>1 DEF Apart, Applies, VisibleRate
  <2>3. QED
    BY <1>1, <1>5, <2>1, <2>2 DEF Unraced
<1>9. QED
  BY <1>7, <1>8 DEF RateInv

\* A request ends, without a write of its own.
LEMMA StepEnds ==
  ASSUME RateInv, NEW d \in Requests, rateReq' = Continue(rateReq, d, Idle),
         DOMAIN rate' = Rates, rate' = [v \in Rates |-> rate'[v]], OnlyRemoved,
         raced' = raced, strayed' = strayed
  PROVE  RateInv'
<1>1. rateReq'[d] = Idle
  BY DEF Continue, RateInv, RateTyped
<1>2. RequestTyped(d)' /\ ~OnItsWay(d)' /\ Foreseen(d)' /\ Checked(d)'
  BY <1>1 DEF RequestTyped, OnItsWay, Foreseen, Checked, At, Idle
<1>3. QED
  BY <1>2, StepOneRequest

LEMMA StepCheckOverlap ==
  ASSUME RateInv, NEW d \in Requests, CheckOverlap(d)
  PROVE  RateInv'
<1> DEFINE q == rateReq[d]
<1>1. /\ rate' = rate /\ raced' = raced /\ strayed' = strayed /\ q.pc = "checkOverlap"
      /\ DOMAIN rate' = Rates /\ rate' = [v \in Rates |-> rate'[v]]
  BY DEF CheckOverlap, At, RateInv, RateTyped
<1>2. CASE Clash(q.doc, q.rate)
  BY <1>1, <1>2, StepEnds, NothingRemoved DEF CheckOverlap, Finish
<1>3. CASE ~Clash(q.doc, q.rate)
  <2> DEFINE next == [q EXCEPT !.pc = "writeRate"]
  <2>1. rateReq' = Continue(rateReq, d, next)
    BY <1>3 DEF CheckOverlap
  <2>2. /\ q = [pc |-> q.pc, rate |-> q.rate, doc |-> q.doc, set |-> q.set]
        /\ RequestTyped(d) /\ OnItsWay(d)
    BY <1>1 DEF RateInv, RateTyped, RequestTyped, OnItsWay
  <2>3. next.rate = q.rate /\ next.doc = q.doc /\ next.set = q.set /\ next.pc = "writeRate"
    BY <2>2
  <2>4. rateReq'[d] = next /\ next = [pc |-> next.pc, rate |-> next.rate, doc |-> next.doc,
                                      set |-> next.set]
    BY <2>1, <2>2 DEF Continue, RateInv, RateTyped
  <2> HIDE DEF next
  <2>5. RequestTyped(d)'
    BY <1>1, <2>2, <2>3, <2>4 DEF RequestTyped, OnItsWay
  <2>6. ~raced => Foreseen(d)'
    <3>1. ~raced => Foreseen(d)
      BY DEF RateInv, Unraced
    <3>2. QED
      BY <1>1, <2>2, <2>3, <2>4, <3>1 DEF Foreseen
  <2>7. Checked(d)'
    BY <1>1, <1>3, <2>3, <2>4 DEF Checked, Clash, Rivals
  <2>8. QED
    BY <1>1, <2>1, <2>2, <2>5, <2>6, <2>7, StepOneRequest, NothingRemoved
<1>4. QED
  BY <1>2, <1>3

LEMMA StepRemoveRate ==
  ASSUME RateInv, NEW d \in Requests,
         (\E v \in Rates : RemoveRateRead(d, v)) \/ RemoveRateWrite(d)
  PROVE  RateInv'
<1>0. /\ DOMAIN rate = Rates /\ rate = [v \in Rates |-> rate[v]]
      /\ DOMAIN rateReq = Requests /\ RequestTyped(d)
  BY DEF RateInv, RateTyped
<1>1. ASSUME NEW v \in Rates, RemoveRateRead(d, v) PROVE RateInv'
  <2>1. /\ rateReq' = Continue(rateReq, d, [pc |-> "removeRate", rate |-> v])
        /\ rate' = rate /\ raced' = raced /\ strayed' = strayed
    BY <1>1 DEF RemoveRateRead
  <2>2. rateReq'[d] = [pc |-> "removeRate", rate |-> v] /\ rate[v].status \in RateStatus
    BY <1>0, <1>1, <2>1 DEF Continue, RemoveRateRead, VisibleRate, RateInv, RateTyped, NoRate
  <2>3. RequestTyped(d)' /\ ~OnItsWay(d)' /\ Foreseen(d)' /\ Checked(d)'
    BY <2>1, <2>2 DEF RequestTyped, OnItsWay, Foreseen, Checked, At
  <2>4. QED
    BY <1>0, <2>1, <2>3, StepOneRequest, NothingRemoved
<1>2. CASE RemoveRateWrite(d)
  <2>1. PICK v \in Rates : /\ rate' = [rate EXCEPT ![v].removed = TRUE]
                           /\ rate[v].status \in RateStatus
    BY <1>0, <1>2 DEF RemoveRateWrite, RequestTyped, At
  <2>2. OnlyRemoved /\ DOMAIN rate' = Rates /\ rate' = [x \in Rates |-> rate'[x]]
    BY <1>0, <2>1 DEF OnlyRemoved
  <2>3. QED
    BY <1>2, <2>2, StepEnds DEF RemoveRateWrite, Finish
<1>3. QED
  BY <1>1, <1>2

\* The write leaves the document that was submitted, but for its flag and its code.
LEMMA WriteLeavesDoc ==
  ASSUME RateInv, ~raced, NEW d \in Requests, NEW v \in Rates, WriteRate(d, v)
  PROVE  \A f \in AsChecked : rate'[v][f] = rateReq[d].doc[f]
<1> DEFINE q == rateReq[d]
           over == Overwritten(rate[v], q.set)
<1>1. /\ rate'[v] = WrittenOver(rate[v], q.set) /\ RateDoc(rate[v])
      /\ OnItsWay(d) /\ RequestTyped(d) /\ Foreseen(d)
  BY DEF WriteRate, WrittenOver, OnItsWay, At, RateInv, RateTyped, Unraced
<1>2. \A f \in AsChecked : rate'[v][f] = over[f]
  BY <1>1, WrittenIsDoc DEF RequestTyped, AsChecked, Plain
<1> HIDE DEF over
<1>3. CASE q.rate = None
  <2>1. q.doc = Overwritten(NoRate, q.set)
    BY <1>1, <1>3 DEF RequestTyped
  <2>2. rate[v].status = "ABSENT"
    BY <1>3 DEF WriteRate
  <2>3. rate[v] = NoRate
    BY <2>2 DEF RateInv, RateTyped, RateStatus
  <2>4. QED
    BY <1>2, <2>1, <2>3 DEF over
<1>4. CASE q.rate # None
  <2>1. q.rate = v
    BY <1>4 DEF WriteRate
  <2>2. QED
    BY <1>1, <1>2, <2>1 DEF Foreseen, over
<1>5. QED
  BY <1>3, <1>4

\* A rate written ACTIVE for the target it was checked for does not meet the others of that
\* target: they were the rivals of what was checked.
LEMMA WrittenIsApart ==
  ASSUME RateInv, ~raced, NEW d \in Requests, NEW v \in Rates, WriteRate(d, v),
         v \notin strayed', NEW w \in Rates, w # v, rate'[w] = rate[w]
  PROVE  Apart(v, w)' /\ Apart(w, v)'
<1> DEFINE q == rateReq[d]
           doc == q.doc
<1>1. Checked(d) /\ At(rateReq, d, "writeRate") /\ RequestTyped(d) /\ OnItsWay(d)
  BY DEF RateInv, RateTyped, Unraced, WriteRate, OnItsWay, At
<1>2. /\ {"line", "from", "to", "status"} \subseteq AsChecked
      /\ \A f \in AsChecked : rate'[v][f] = doc[f]
  BY WriteLeavesDoc DEF AsChecked, Plain, NoRate
<1>3. /\ rate'[v].line = doc.line /\ rate'[v].from = doc.from /\ rate'[v].to = doc.to
      /\ rate'[v].status = doc.status
  BY <1>2
<1>4. w # q.rate
  BY <1>1, RateAssumption DEF WriteRate
<1>5. Trimmed(rate'[v].code) = rate'[v].code /\ Target(rate'[v]) = Target(doc)
  <2>1. rate'[v] = WrittenOver(rate[v], q.set) /\ RateDoc(rate[v]) /\ Entered(q.set)
    BY <1>1 DEF WriteRate, WrittenOver, RateInv, RateTyped, RequestTyped
  <2>2. strayed' = IF Target(WrittenOver(rate[v], q.set)) = Target(doc)
                     THEN strayed \ {v} ELSE strayed \cup {v}
    BY DEF WriteRate, WrittenOver
  <2>3. QED
    BY <2>1, <2>2, WrittenIsDoc
<1> HIDE DEF doc
<1>6. SUFFICES ASSUME Applies(v)', Applies(w)', rate'[v].line = rate'[w].line,
                      Target(rate'[v]) = Target(rate'[w])
               PROVE  ~WindowsOverlap(rate'[v], rate'[w])
  BY OverlapSymmetric DEF Apart
<1>7. /\ Applies(w) /\ rate[w].line = doc.line /\ Target(doc) = Target(rate[w])
      /\ doc.status = "ACTIVE"
  BY <1>3, <1>5, <1>6 DEF Applies, VisibleRate
<1>8. ASSUME doc.hotel = None, doc.service = None, NamesCode(doc.code)
      PROVE  Trimmed(doc.code) = doc.code
  <2>1. Target(doc) = <<"code", doc.code>>
    BY <1>8 DEF Target
  <2>2. rate'[v].code = doc.code
    BY <1>5, <2>1 DEF Target
  <2>3. QED
    BY <1>5, <2>2
<1>9. w \in Rivals(doc)
  BY <1>7, <1>8, SameTargetIsRival
<1>10. ~WindowsOverlap(doc, rate[w])
  BY <1>1, <1>4, <1>7, <1>9 DEF Checked, Clash, doc
<1>11. QED
  BY <1>3, <1>10 DEF WindowsOverlap

LEMMA StepWriteRate ==
  ASSUME RateInv, NEW d \in Requests, NEW v \in Rates, WriteRate(d, v)
  PROVE  RateInv'
<1> DEFINE q == rateReq[d]
<1>1. /\ DOMAIN rate' = Rates /\ rate' = [x \in Rates |-> rate'[x]]
      /\ rate'[v] = WrittenOver(rate[v], q.set) /\ \A x \in Rates \ {v} : rate'[x] = rate[x]
      /\ DOMAIN rateReq' = Requests /\ rateReq' = [e \in Requests |-> rateReq'[e]]
      /\ rateReq'[d] = Idle /\ \A e \in Requests \ {d} : rateReq'[e] = rateReq[e]
      /\ raced' = raced /\ strayed' \subseteq Rates
      /\ \A x \in Rates \ {v} : x \in strayed' <=> x \in strayed
  BY DEF WriteRate, WrittenOver, Finish, Continue, RateInv, RateTyped
<1>2. RequestTyped(d) /\ OnItsWay(d) /\ RateDoc(rate[v])
  BY DEF WriteRate, At, OnItsWay, RateInv, RateTyped
<1>3. RateDoc(rate'[v]) /\ rate'[v].status \in RateStatus
  <2>1. Entered(q.set)
    BY <1>2 DEF RequestTyped
  <2>2. CASE q.rate = None
    <3>1. "status" \in DOMAIN q.set
      BY <1>2, <2>2 DEF RequestTyped, NoRate
    <3>2. QED
      BY <1>1, <1>2, <2>1, <3>1, WrittenIsDoc
  <2>3. CASE q.rate # None
    <3>1. q.rate = v /\ rate[v].status \in RateStatus
      BY <1>2, <2>3 DEF WriteRate, RequestTyped
    <3>2. QED
      BY <1>1, <1>2, <2>1, <3>1, WrittenIsDoc
  <2>4. QED
    BY <2>2, <2>3
<1>4. \A e \in Requests \ {d} : RequestTyped(e)' /\ (OnItsWay(e)' <=> OnItsWay(e))
  <2> TAKE e \in Requests \ {d}
  <2>1. RequestTyped(e) /\ rateReq'[e] = rateReq[e]
    BY <1>1 DEF RateInv, RateTyped
  <2>2. \A x \in Rates : rate[x].status \in RateStatus => rate'[x].status \in RateStatus
    BY <1>1, <1>3
  <2>3. QED
    BY <2>1, <2>2, RateAssumption DEF RequestTyped, OnItsWay
<1>5. RequestTyped(d)' /\ ~OnItsWay(d)' /\ Foreseen(d)' /\ Checked(d)'
  BY <1>1 DEF RequestTyped, OnItsWay, Foreseen, Checked, At, Idle
<1>6. RateTyped'
  <2>1. \A x \in Rates : RateDoc(rate'[x]) /\ (rate'[x] = NoRate \/ rate'[x].status \in RateStatus)
    BY <1>1, <1>3 DEF RateInv, RateTyped
  <2>2. \A e \in Requests : RequestTyped(e)'
    BY <1>4, <1>5
  <2>3. raced' \in BOOLEAN /\ strayed' \subseteq Rates
    BY <1>1 DEF RateInv, RateTyped
  <2>4. QED
    BY <1>1, <2>1, <2>2, <2>3 DEF RateTyped
<1>7. ASSUME ~raced PROVE Unraced'
  <2>1. Unraced
    BY <1>7 DEF RateInv
  <2>2. ASSUME NEW e \in Requests PROVE ~OnItsWay(e)' /\ Foreseen(e)' /\ Checked(e)'
    <3>1. ~OnItsWay(e)'
      BY <1>2, <1>4, <1>5, <2>1 DEF Unraced
    <3>2. QED
      BY <3>1 DEF Foreseen, Checked, At, OnItsWay
  <2>3. \A x \in Rates : ValidWindow(rate'[x])
    <3>1. ValidWindow(rate'[v])
      <4>1. rate'[v].from = q.doc.from /\ rate'[v].to = q.doc.to
        BY <1>7, WriteLeavesDoc DEF AsChecked, Plain, NoRate
      <4>2. QED
        BY <1>2, <4>1 DEF RequestTyped, ValidWindow
    <3>2. QED
      BY <1>1, <2>1, <3>1 DEF Unraced
  <2>4. ASSUME NEW x \in Rates \ strayed', NEW w \in Rates \ strayed', x # w
        PROVE  Apart(x, w)'
    <3>1. CASE x = v \/ w = v
      BY <1>1, <1>7, <2>4, <3>1, WrittenIsApart
    <3>2. CASE x # v /\ w # v
      BY <1>1, <2>1, <2>4, <3>2 DEF Unraced, Apart, Applies, VisibleRate
    <3>3. QED
      BY <3>1, <3>2
  <2>5. QED
    BY <2>2, <2>3, <2>4 DEF Unraced
<1>8. QED
  BY <1>1, <1>6, <1>7 DEF RateInv

LEMMA StepRateInv == RateInv /\ [RateNext]_rateVars => RateInv'
<1> SUFFICES ASSUME RateInv, [RateNext]_rateVars PROVE RateInv'
  OBVIOUS
<1>1. ASSUME NEW d \in Requests, CreateRate(d) PROVE RateInv'
  <2>1. PICK set \in RateForms : Submit(d, None, Overwritten(NoRate, set), set)
    BY <1>1 DEF CreateRate
  <2>2. /\ Entered(set) /\ DOMAIN NoRate = DOMAIN set \cup {"removed"} /\ None \notin Rates
        /\ RateDoc(Overwritten(NoRate, set))
    BY RateAssumption, NoRateIsDoc, OverwrittenIsDoc
  <2>3. QED
    BY <2>1, <2>2, StepSubmit
<1>2. ASSUME NEW d \in Requests, NEW v \in Rates, UpdateRate(d, v) PROVE RateInv'
  <2>1. PICK change \in RateChanges : Submit(d, v, Effective(change, rate[v]), change)
    BY <1>2 DEF UpdateRate
  <2>2. RateDoc(rate[v]) /\ rate[v].status \in RateStatus
    BY <1>2 DEF UpdateRate, VisibleRate, RateInv, RateTyped, NoRate
  <2>3. /\ Entered(change) /\ RateDoc(Effective(change, rate[v])) /\ v # None
        /\ \A f \in AsChecked : Effective(change, rate[v])[f] = Overwritten(rate[v], change)[f]
    BY <2>2, RateAssumption, EffectiveIsDoc
  <2>4. QED
    BY <2>1, <2>2, <2>3, StepSubmit
<1>3. ASSUME NEW d \in Requests, RateAbandon(d) PROVE RateInv'
  BY <1>3, StepEnds, NothingRemoved DEF RateAbandon, Finish, RateInv, RateTyped
<1>4. CASE UNCHANGED rateVars
  BY <1>4 DEF rateVars, RateInv, RateTyped, Unraced, RequestTyped, OnItsWay, Foreseen, Checked,
              At, Clash, Rivals, Apart, Applies, VisibleRate
<1>5. QED
  BY <1>1, <1>2, <1>3, <1>4, StepCheckOverlap, StepWriteRate, StepRemoveRate DEF RateNext

\* Rates and requests have the types of their schema, and windows are valid unless two changes
\* of a rate raced.
THEOREM RateTypeCorrect == RateSpec => []RateTypeOK
<1>1. RateInv => RateTypeOK
  BY DEF RateInv, RateTyped, Unraced, RequestTyped, OnItsWay, RateDoc, RateTypeOK
<1>2. QED
  BY <1>1, InitRateInv, StepRateInv, PTL DEF RateSpec

\* No two ACTIVE rates of a vendor and rate type apply to one target on one day, for any number
\* of rates and any sequence of creations, changes and removals, as long as no two rates are
\* submitted at once: the check is done before the write, on rivals only removals can change
\* meanwhile (assertNoOverlap, create, update, remove).  Excepted are the rates whose own last
\* write took away a code they had been checked for, which leaves a rate for anything that
\* nothing has checked as such (update).
THEOREM RatesApart == RateSpec => []OneRateApplies
<1>1. ASSUME RateInv PROVE OneRateApplies
  <2> SUFFICES ASSUME ~raced, NEW v \in Rates \ strayed, NEW w \in Rates \ strayed,
                      v # w, Applies(v), Applies(w),
                      rate[v].line = rate[w].line, Target(rate[v]) = Target(rate[w]),
                      NEW day \in {rate[v].from, rate[w].from},
                      Covers(rate[v], day), Covers(rate[w], day)
               PROVE  FALSE
    BY DEF OneRateApplies, ApplyApart, Applies
  <2>1. Apart(v, w) /\ RateDoc(rate[v]) /\ RateDoc(rate[w])
    BY <1>1 DEF RateInv, RateTyped, Unraced
  <2>2. day \in Int
    BY <2>1 DEF RateDoc
  <2>3. QED
    BY <2>1, <2>2, CommonDayOverlaps DEF Apart
<1>2. QED
  BY <1>1, InitRateInv, StepRateInv, PTL DEF RateSpec

-----------------------------------------------------------------------------
(***************************************************************************)
(* AiApproval.  Status writes are unconditional, so no argument about      *)
(* statuses alone is inductive; what makes decisions traceable is that     *)
(* ai_approvals only grows and that a request that will write a status     *)
(* already has its approval behind it (Backed).                            *)
(***************************************************************************)


\* What the status that request r is about to write rests on.
Backed(r) ==
  /\ At(aiReq, r, "writeDecision") => aiReq[r].decision \in approvals[aiReq[r].action]
  /\ At(aiReq, r, "writeReport") => "APPROVED" \in approvals[aiReq[r].action]

\* A request of the chat has found its session, which keeps its conversation.
ChatPoints == {"storeTurn", "listPrior", "chat", "storeReply"}

Found(r) == aiReq[r].pc \in ChatPoints => messages[aiReq[r].session] \in Seq(AiRole)

\* The inductive invariant.
AiInv ==
  /\ AiTypeOK
  /\ DecisionRecorded
  /\ \A r \in Requests : Backed(r) /\ Found(r)

\* The fields of a request, by the point it has reached.
LEMMA AiRequestFields ==
  ASSUME NEW q \in AiRequest
  PROVE  /\ q.pc \in {"recordApproval", "writeDecision"} =>
              /\ q.action \in AiActions /\ q.decision \in AiDecision
              /\ \A x \in {"recordApproval", "writeDecision"} : [q EXCEPT !.pc = x] \in AiRequest
         /\ q.pc = "writeReport" => q.action \in AiActions /\ q.result \in {"EXECUTED", "FAILED"}
         /\ q.pc \in {"storeTurn", "listPrior", "storeReply"} =>
              /\ q.session \in AiSessions
              /\ \A x \in {"storeTurn", "listPrior", "storeReply"} :
                   [q EXCEPT !.pc = x] \in AiRequest
         /\ q.pc = "chat" => q.session \in AiSessions
  BY DEF AiRequest, Idle

\* Points are told apart by their pc alone.
LEMMA AiRequested ==
  /\ Idle \in AiRequest
  /\ \A a \in AiActions, d \in AiDecision :
       [pc |-> "recordApproval", action |-> a, decision |-> d] \in AiRequest
  /\ \A a \in AiActions, x \in {"EXECUTED", "FAILED"} :
       [pc |-> "writeReport", action |-> a, result |-> x] \in AiRequest
  /\ \A s \in AiSessions : /\ [pc |-> "storeTurn", session |-> s] \in AiRequest
                           /\ [pc |-> "storeReply", session |-> s] \in AiRequest
  /\ \A s \in AiSessions, h \in Seq(AiRole) :
       [pc |-> "chat", session |-> s, history |-> h] \in AiRequest
  BY DEF AiRequest, Idle

\* The history is a conversation: a tail of one longer than the window.
LEMMA HistoryTyped ==
  ASSUME NEW c \in Seq(AiRole), HistoryWindow \in Nat, ~(Len(c) <= HistoryWindow)
  PROVE  LastTurns(c) \in Seq(AiRole)
<1>1. Len(c) \in Nat /\ Len(c) - HistoryWindow + 1 \in 1 .. Len(c) + 1
  OBVIOUS
<1>2. \A i \in Len(c) - HistoryWindow + 1 .. Len(c) : c[i] \in AiRole
  BY <1>1
<1>3. QED
  BY <1>1, <1>2 DEF LastTurns

-----------------------------------------------------------------------------
LEMMA InitAiInv == AiInit => AiInv
  BY DEF AiInit, AiInv, AiTypeOK, DecisionRecorded, Backed, Found, ChatPoints, At, Idle,
         AiRequest

\* Steps that leave the actions and their approvals alone: the chat's, and a handler's end.
LEMMA StepKeepsBacking ==
  ASSUME AiInv, NEW r \in Requests, aiAction' = aiAction, approvals' = approvals,
         messages' \in [AiSessions -> Seq(AiRole) \cup {None}],
         \A s \in AiSessions : messages[s] \in Seq(AiRole) => messages'[s] \in Seq(AiRole),
         NEW next \in AiRequest, aiReq' = Continue(aiReq, r, next),
         next.pc \notin {"writeDecision", "writeReport"},
         next.pc \in ChatPoints => messages[next.session] \in Seq(AiRole)
  PROVE  AiInv'
<1>1. AiTypeOK'
  BY DEF AiInv, AiTypeOK, Continue
<1>2. DecisionRecorded'
  BY DEF AiInv, DecisionRecorded
<1>3. \A x \in Requests : Backed(x)'
  BY DEF AiInv, AiTypeOK, Backed, At, Continue
<1>4. \A x \in Requests : Found(x)'
  <2> SUFFICES ASSUME NEW x \in Requests, aiReq'[x].pc \in ChatPoints
               PROVE  messages'[aiReq'[x].session] \in Seq(AiRole)
    BY DEF Found
  <2>1. PICK q \in AiRequest : /\ aiReq'[x] = q /\ q.pc \in ChatPoints
                               /\ messages[q.session] \in Seq(AiRole)
    BY DEF AiInv, AiTypeOK, Found, Continue
  <2>2. q.session \in AiSessions
    BY <2>1, AiRequestFields DEF ChatPoints
  <2>3. QED
    BY <2>1, <2>2
<1>5. QED
  BY <1>1, <1>2, <1>3, <1>4 DEF AiInv

LEMMA StepDecideRead ==
  ASSUME AiInv, NEW r \in Requests, NEW a \in AiActions, NEW d \in AiDecision,
         DecideRead(r, a, d)
  PROVE  AiInv'
  BY AiRequested, StepKeepsBacking DEF DecideRead, AiInv, AiTypeOK, ChatPoints

\* Steps that leave the conversations alone keep the requests of the chat in their sessions.
LEMMA StepKeepsFound ==
  ASSUME AiInv, NEW r \in Requests, messages' = messages,
         NEW next, aiReq' = Continue(aiReq, r, next), next.pc \notin ChatPoints
  PROVE  \A x \in Requests : Found(x)'
  BY DEF AiInv, AiTypeOK, Found, Continue

LEMMA StepRecordApproval ==
  ASSUME AiInv, NEW r \in Requests, RecordApproval(r)
  PROVE  AiInv'
<1> DEFINE q == aiReq[r]
<1>1. /\ q \in AiRequest /\ q.pc = "recordApproval"
      /\ q.action \in AiActions /\ q.decision \in AiDecision
      /\ [q EXCEPT !.pc = "writeDecision"] \in AiRequest
  BY AiRequestFields DEF AiInv, AiTypeOK, RecordApproval, At
<1>2. /\ approvals' \in [AiActions -> SUBSET AiDecision]
      /\ \A a \in AiActions : approvals[a] \subseteq approvals'[a]
      /\ q.decision \in approvals'[q.action]
  BY <1>1 DEF AiInv, AiTypeOK, RecordApproval
<1>3. AiTypeOK'
  BY <1>1, <1>2 DEF AiInv, AiTypeOK, RecordApproval, Continue
<1>4. DecisionRecorded'
  BY <1>2 DEF AiInv, DecisionRecorded, RecordApproval
<1>5. \A x \in Requests : Backed(x)'
  <2> TAKE x \in Requests
  <2>1. CASE x = r
    <3>1. aiReq'[r].pc = "writeDecision" /\ aiReq'[r].action = q.action
          /\ aiReq'[r].decision = q.decision
      BY <1>1 DEF AiInv, AiTypeOK, RecordApproval, Continue, AiRequest, Idle
    <3>2. QED
      BY <1>2, <2>1, <3>1 DEF Backed, At
  <2>2. CASE x # r
    <3>1. aiReq'[x] = aiReq[x] /\ aiReq[x] \in AiRequest
      BY <2>2 DEF AiInv, AiTypeOK, RecordApproval, Continue
    <3>2. aiReq[x].pc \in {"writeDecision", "writeReport"} => aiReq[x].action \in AiActions
      BY <3>1, AiRequestFields
    <3>3. QED
      BY <1>2, <3>1, <3>2 DEF AiInv, Backed, At
  <2>3. QED
    BY <2>1, <2>2
<1>6. \A x \in Requests : Found(x)'
  <2>1. [q EXCEPT !.pc = "writeDecision"].pc = "writeDecision"
    BY <1>1 DEF AiRequest, Idle
  <2>2. QED
    BY <2>1, StepKeepsFound DEF RecordApproval, ChatPoints
<1>7. QED
  BY <1>3, <1>4, <1>5, <1>6 DEF AiInv

\* The two writes of a status: what they write is backed by what the request carries.
LEMMA StepWriteStatus ==
  ASSUME AiInv, NEW r \in Requests, WriteDecision(r) \/ WriteReport(r)
  PROVE  AiInv'
<1> DEFINE q == aiReq[r]
<1>1. q \in AiRequest /\ q.action \in AiActions
  BY AiRequestFields DEF AiInv, AiTypeOK, WriteDecision, WriteReport, At
<1>2. /\ aiReq' = [aiReq EXCEPT ![r] = Idle]
      /\ approvals' = approvals /\ messages' = messages
  BY DEF WriteDecision, WriteReport, Finish, Continue
<1>3. PICK s \in AiActionStatus, e \in BOOLEAN :
        /\ aiAction' = [aiAction EXCEPT ![q.action] = [status |-> s, executedAt |-> e]]
        /\ s \in {"APPROVED", "EXECUTED", "FAILED"} \/ (e /\ ~aiAction[q.action].executedAt)
             => "APPROVED" \in approvals[q.action]
        /\ s = "REJECTED" => "REJECTED" \in approvals[q.action]
        /\ s \in {"APPROVED", "REJECTED"} => e = aiAction[q.action].executedAt
        /\ s \in {"APPROVED", "REJECTED", "EXECUTED", "FAILED"}
  <2>1. CASE WriteDecision(r)
    <3>1. q.decision \in AiDecision /\ q.decision \in approvals[q.action]
      BY <1>1, <2>1, AiRequestFields DEF AiInv, Backed, WriteDecision, At
    <3>2. aiAction' = [aiAction EXCEPT ![q.action] =
                         [status |-> q.decision, executedAt |-> aiAction[q.action].executedAt]]
      <4>1. aiAction' = [aiAction EXCEPT ![q.action].status = q.decision]
        BY <2>1 DEF WriteDecision
      <4>2. aiAction[q.action] = [status |-> aiAction[q.action].status,
                                  executedAt |-> aiAction[q.action].executedAt]
        BY <1>1 DEF AiInv, AiTypeOK
      <4>3. [aiAction[q.action] EXCEPT !.status = q.decision] =
              [status |-> q.decision, executedAt |-> aiAction[q.action].executedAt]
        BY <4>2
      <4>4. QED
        BY <4>1, <4>3
    <3>3. /\ q.decision \in AiActionStatus /\ aiAction[q.action].executedAt \in BOOLEAN
          /\ q.decision \in {"APPROVED", "REJECTED"}
      BY <1>1, <3>1 DEF AiDecision, AiActionStatus, AiInv, AiTypeOK
    <3>4. QED
      BY <3>1, <3>2, <3>3
  <2>2. CASE WriteReport(r)
    <3>1. q.result \in {"EXECUTED", "FAILED"} /\ "APPROVED" \in approvals[q.action]
      BY <1>1, <2>2, AiRequestFields DEF AiInv, Backed, WriteReport, At
    <3>2. aiAction' = [aiAction EXCEPT ![q.action] = [status |-> q.result, executedAt |-> TRUE]]
      BY <2>2 DEF WriteReport
    <3>3. q.result \in AiActionStatus
      BY <3>1 DEF AiActionStatus
    <3>4. QED
      BY <3>1, <3>2, <3>3
  <2>3. QED
    BY <2>1, <2>2
<1>4. AiTypeOK'
  BY <1>1, <1>2, <1>3, AiRequested DEF AiInv, AiTypeOK
<1>5. DecisionRecorded'
  <2> SUFFICES ASSUME NEW a \in AiActions
               PROVE  /\ aiAction'[a].status \in {"APPROVED", "EXECUTED", "FAILED"}
                           => "APPROVED" \in approvals[a]
                      /\ aiAction'[a].status = "REJECTED" => "REJECTED" \in approvals[a]
                      /\ aiAction'[a].executedAt => "APPROVED" \in approvals[a]
    BY <1>2 DEF DecisionRecorded
  <2>1. CASE a = q.action
    <3>1. aiAction'[a] = [status |-> s, executedAt |-> e]
      BY <1>3, <2>1 DEF AiInv, AiTypeOK
    <3>2. aiAction[a].executedAt => "APPROVED" \in approvals[a]
      BY DEF AiInv, DecisionRecorded
    <3>3. QED
      BY <1>3, <2>1, <3>1, <3>2
  <2>2. CASE a # q.action
    BY <1>3, <2>2 DEF AiInv, AiTypeOK, DecisionRecorded
  <2>3. QED
    BY <2>1, <2>2
<1>6. \A x \in Requests : Backed(x)'
  BY <1>2 DEF AiInv, AiTypeOK, Backed, At, Idle
<1>7. \A x \in Requests : Found(x)'
  BY <1>2, StepKeepsFound DEF Continue, Idle, ChatPoints
<1>8. QED
  BY <1>4, <1>5, <1>6, <1>7 DEF AiInv

LEMMA StepReportRead ==
  ASSUME AiInv, NEW r \in Requests, NEW a \in AiActions, ReportRead(r, a)
  PROVE  AiInv'
<1>1. PICK x \in {"EXECUTED", "FAILED"} :
        aiReq' = [aiReq EXCEPT ![r] = [pc |-> "writeReport", action |-> a, result |-> x]]
  BY DEF ReportRead, Continue
<1>2. "APPROVED" \in approvals[a]
  BY DEF ReportRead, AiInv, DecisionRecorded
<1>3. AiTypeOK'
  BY <1>1, AiRequested DEF AiInv, AiTypeOK, ReportRead
<1>4. DecisionRecorded'
  BY DEF AiInv, DecisionRecorded, ReportRead
<1>5. \A y \in Requests : Backed(y)'
  BY <1>1, <1>2 DEF AiInv, AiTypeOK, Backed, At, ReportRead
<1>6. \A y \in Requests : Found(y)'
  BY <1>1, StepKeepsFound DEF Continue, ReportRead, ChatPoints
<1>7. QED
  BY <1>3, <1>4, <1>5, <1>6 DEF AiInv

LEMMA StepRecordAction ==
  ASSUME AiInv, NEW a \in AiActions, RecordAction(a)
  PROVE  AiInv'
<1>1. AiTypeOK'
  BY DEF AiInv, AiTypeOK, RecordAction, AiActionStatus
<1>2. DecisionRecorded'
  BY DEF AiInv, AiTypeOK, DecisionRecorded, RecordAction
<1>3. \A x \in Requests : Backed(x)' /\ Found(x)'
  BY DEF AiInv, Backed, Found, RecordAction, At
<1>4. QED
  BY <1>1, <1>2, <1>3 DEF AiInv

LEMMA StepCreateSession ==
  ASSUME AiInv, NEW s \in AiSessions, CreateSession(s)
  PROVE  AiInv'
<1>1. AiTypeOK' /\ DecisionRecorded' /\ \A r \in Requests : Backed(r)'
  BY DEF AiInv, AiTypeOK, DecisionRecorded, Backed, CreateSession, At
<1>2. \A r \in Requests : Found(r)'
  <2> SUFFICES ASSUME NEW r \in Requests, aiReq[r].pc \in ChatPoints
               PROVE  messages'[aiReq[r].session] \in Seq(AiRole)
    BY DEF Found, CreateSession
  <2>1. aiReq[r].session \in AiSessions /\ messages[aiReq[r].session] \in Seq(AiRole)
    BY AiRequestFields DEF AiInv, AiTypeOK, ChatPoints, Found
  <2>2. QED
    BY <2>1 DEF AiInv, AiTypeOK, CreateSession
<1>3. QED
  BY <1>1, <1>2 DEF AiInv

\* What is appended to a conversation keeps it one.
LEMMA StoreTyped ==
  ASSUME messages \in [AiSessions -> Seq(AiRole) \cup {None}], NEW s \in AiSessions,
         messages[s] \in Seq(AiRole), NEW role \in AiRole, Store(s, role)
  PROVE  /\ messages' \in [AiSessions -> Seq(AiRole) \cup {None}]
         /\ \A t \in AiSessions : messages[t] \in Seq(AiRole) => messages'[t] \in Seq(AiRole)
         /\ messages'[s] \in Seq(AiRole)
  BY DEF Store

\* The persisted chat: what is appended is a role, what is carried a session.
LEMMA StepChat ==
  ASSUME AiInv, NEW r \in Requests,
         \/ \E s \in AiSessions : PostRead(r, s)
         \/ StoreTurn(r) \/ ListPrior(r) \/ Chat(r) \/ StoreReply(r) \/ AiAbandon(r)
  PROVE  AiInv'
<1> DEFINE q == aiReq[r]
<1>1. q \in AiRequest /\ messages \in [AiSessions -> Seq(AiRole) \cup {None}]
  BY DEF AiInv, AiTypeOK
<1>2. q.pc \in ChatPoints => q.session \in AiSessions /\ messages[q.session] \in Seq(AiRole)
  BY <1>1, AiRequestFields DEF AiInv, Found, ChatPoints
<1>3. ASSUME NEW s \in AiSessions, PostRead(r, s) PROVE AiInv'
  BY <1>1, <1>3, AiRequested, StepKeepsBacking DEF PostRead
<1>4. CASE StoreTurn(r)
  <2>1. q.pc = "storeTurn" /\ [q EXCEPT !.pc = "listPrior"] \in AiRequest
    BY <1>1, <1>4, AiRequestFields DEF StoreTurn, At
  <2>2. /\ messages' \in [AiSessions -> Seq(AiRole) \cup {None}]
        /\ \A t \in AiSessions : messages[t] \in Seq(AiRole) => messages'[t] \in Seq(AiRole)
    BY <1>1, <1>2, <1>4, <2>1, StoreTyped DEF StoreTurn, AiRole, ChatPoints
  <2>3. /\ [q EXCEPT !.pc = "listPrior"].pc = "listPrior"
        /\ [q EXCEPT !.pc = "listPrior"].session = q.session
    BY <1>1, <2>1 DEF AiRequest, Idle
  <2>4. QED
    BY <1>2, <1>4, <2>1, <2>2, <2>3, StepKeepsBacking DEF StoreTurn, ChatPoints
<1>5. CASE ListPrior(r)
  <2>1. q.session \in AiSessions /\ messages[q.session] \in Seq(AiRole)
    BY <1>2, <1>5 DEF ListPrior, At, ChatPoints
  <2>2. PICK h \in Seq(AiRole) :
          aiReq' = Continue(aiReq, r, [pc |-> "chat", session |-> q.session, history |-> h])
    BY <1>5, <2>1, HistoryTyped, AiAssumption DEF ListPrior
  <2>3. QED
    BY <1>1, <1>5, <2>1, <2>2, AiRequested, StepKeepsBacking DEF ListPrior
<1>6. CASE Chat(r)
  <2>1. q.session \in AiSessions /\ messages[q.session] \in Seq(AiRole)
    BY <1>2, <1>6 DEF Chat, At, ChatPoints
  <2>2. PICK next \in {[pc |-> "storeReply", session |-> q.session], Idle} :
          aiReq' = Continue(aiReq, r, next)
    BY <1>6 DEF Chat, Finish
  <2>3. next \in AiRequest
    BY <2>1, <2>2, AiRequested
  <2>4. /\ next.pc \notin {"writeDecision", "writeReport"}
        /\ next.pc \in ChatPoints => messages[next.session] \in Seq(AiRole)
    BY <2>1, <2>2 DEF Idle, ChatPoints
  <2>5. QED
    BY <1>1, <1>6, <2>2, <2>3, <2>4, StepKeepsBacking DEF Chat
<1>7. CASE StoreReply(r)
  <2>1. /\ messages' \in [AiSessions -> Seq(AiRole) \cup {None}]
        /\ \A t \in AiSessions : messages[t] \in Seq(AiRole) => messages'[t] \in Seq(AiRole)
    BY <1>1, <1>2, <1>7, StoreTyped DEF StoreReply, AiRole, At, ChatPoints
  <2>2. QED
    BY <1>7, <2>1, AiRequested, StepKeepsBacking DEF StoreReply, Finish, Idle, ChatPoints
<1>8. CASE AiAbandon(r)
  BY <1>1, <1>8, AiRequested, StepKeepsBacking DEF AiAbandon, Finish, Idle, ChatPoints
<1>9. QED
  BY <1>3, <1>4, <1>5, <1>6, <1>7, <1>8

-----------------------------------------------------------------------------
LEMMA StepAiInv == AiInv /\ [AiNext]_aiVars => AiInv'
<1> SUFFICES ASSUME AiInv, [AiNext]_aiVars PROVE AiInv'
  OBVIOUS
<1>1. ASSUME NEW a \in AiActions, RecordAction(a) PROVE AiInv'
  BY <1>1, StepRecordAction
<1>2. ASSUME NEW s \in AiSessions, CreateSession(s) PROVE AiInv'
  BY <1>2, StepCreateSession
<1>3. ASSUME NEW r \in Requests, NEW a \in AiActions, NEW d \in AiDecision,
             DecideRead(r, a, d)
      PROVE  AiInv'
  BY <1>3, StepDecideRead
<1>4. ASSUME NEW r \in Requests, RecordApproval(r) PROVE AiInv'
  BY <1>4, StepRecordApproval
<1>5. ASSUME NEW r \in Requests, WriteDecision(r) \/ WriteReport(r) PROVE AiInv'
  BY <1>5, StepWriteStatus
<1>6. ASSUME NEW r \in Requests, NEW a \in AiActions, ReportRead(r, a) PROVE AiInv'
  BY <1>6, StepReportRead
<1>7. ASSUME NEW r \in Requests,
             \/ \E s \in AiSessions : PostRead(r, s)
             \/ StoreTurn(r) \/ ListPrior(r) \/ Chat(r) \/ StoreReply(r) \/ AiAbandon(r)
      PROVE  AiInv'
  BY <1>7, StepChat
<1>8. CASE UNCHANGED aiVars
  BY <1>8 DEF aiVars, AiInv, AiTypeOK, DecisionRecorded, Backed, Found, At
<1>9. QED
  BY <1>1, <1>2, <1>3, <1>4, <1>5, <1>6, <1>7, <1>8 DEF AiNext

\* Documents and requests hold values of their schemas.
THEOREM AiTypeCorrect == AiSpec => []AiTypeOK
<1>1. AiInv => AiTypeOK
  BY DEF AiInv
<1>2. QED
  BY <1>1, InitAiInv, StepAiInv, PTL DEF AiSpec

\* A human decision is on record behind every status it gives, for any number of requests
\* that approve, reject and report at once, on stale reads, and wherever they die
\* (approveAction, rejectAction, markExecuted).
THEOREM DecisionsRecorded == AiSpec => []DecisionRecorded
<1>1. AiInv => DecisionRecorded
  BY DEF AiInv
<1>2. QED
  BY <1>1, InitAiInv, StepAiInv, PTL DEF AiSpec

-----------------------------------------------------------------------------
(***************************************************************************)
(* Replies answer turns.  A reply is stored long after its turn, so what   *)
(* is inductive counts the replies still owed too: requests that stored a  *)
(* turn and may store a reply (Owed).                                      *)
(***************************************************************************)

Owed(s) ==
  {r \in Requests : aiReq[r].pc \in {"listPrior", "chat", "storeReply"} /\ aiReq[r].session = s}

NeverAhead(c) ==
  \A n \in 1..Len(c) : Turns(SubSeq(c, 1, n), "ASSISTANT") <= Turns(SubSeq(c, 1, n), "USER")

Answerable(s) ==
  /\ IsFiniteSet(Owed(s))
  /\ messages[s] # None =>
       /\ Cardinality(Owed(s)) + Turns(messages[s], "ASSISTANT") <= Turns(messages[s], "USER")
       /\ NeverAhead(messages[s])

ChatInv == AiInv /\ \A s \in AiSessions : Answerable(s)

\* A conversation one longer has one turn more of the role appended.
LEMMA TurnsAppended ==
  ASSUME NEW c \in Seq(AiRole), NEW said \in AiRole, NEW role
  PROVE  /\ Turns(c, role) \in Nat
         /\ Turns(Append(c, said), role) = Turns(c, role) + (IF said = role THEN 1 ELSE 0)
<1> DEFINE T == {i \in DOMAIN c : c[i] = role}
           U == {i \in DOMAIN Append(c, said) : Append(c, said)[i] = role}
<1>1. Len(c) \in Nat /\ DOMAIN c = 1..Len(c)
  OBVIOUS
<1>2. IsFiniteSet(T)
  <2>1. IsFiniteSet(1..Len(c))
    BY <1>1, FS_Interval
  <2>2. T \in SUBSET (1..Len(c))
    BY <1>1
  <2>3. QED
    BY <2>1, <2>2, FS_Subset
<1>3. Len(c) + 1 \notin T
  BY <1>1
<1>4. U = IF said = role THEN T \cup {Len(c) + 1} ELSE T
  <2>1. DOMAIN Append(c, said) = 1..(Len(c) + 1)
    BY <1>1
  <2>2. \A i \in 1..(Len(c) + 1) :
          Append(c, said)[i] = IF i = Len(c) + 1 THEN said ELSE c[i]
    BY <1>1
  <2>3. 1..(Len(c) + 1) = 1..Len(c) \cup {Len(c) + 1} /\ Len(c) + 1 \notin 1..Len(c)
    BY <1>1
  <2>4. QED
    BY <1>1, <2>1, <2>2, <2>3
<1>5. /\ Cardinality(T) \in Nat
      /\ Cardinality(T \cup {Len(c) + 1}) = Cardinality(T) + 1
  BY <1>2, <1>3, FS_CardinalityType, FS_AddElement
<1>6. Turns(c, role) = Cardinality(T) /\ Turns(Append(c, said), role) = Cardinality(U)
  BY DEF Turns
<1> HIDE DEF T, U
<1>7. QED
  BY <1>4, <1>5, <1>6

\* The beginnings of a longer conversation are those it had, and itself.
LEMMA NeverAheadAppended ==
  ASSUME NEW c \in Seq(AiRole), NEW said \in AiRole, NeverAhead(c),
         Turns(Append(c, said), "ASSISTANT") <= Turns(Append(c, said), "USER")
  PROVE  NeverAhead(Append(c, said))
<1> DEFINE d == Append(c, said)
<1>1. Len(c) \in Nat /\ Len(d) = Len(c) + 1 /\ d \in Seq(AiRole)
  OBVIOUS
<1>2. SUFFICES ASSUME NEW n \in 1..Len(d)
               PROVE  Turns(SubSeq(d, 1, n), "ASSISTANT") <= Turns(SubSeq(d, 1, n), "USER")
  BY DEF NeverAhead
<1>3. CASE n = Len(d)
  <2>1. SubSeq(d, 1, n) = d
    BY <1>1, <1>3
  <2>2. QED
    BY <2>1
<1>4. CASE n # Len(d)
  <2>1. n \in 1..Len(c)
    BY <1>1, <1>4
  <2>2. SubSeq(d, 1, n) = SubSeq(c, 1, n)
    BY <1>1, <2>1
  <2>3. QED
    BY <2>1, <2>2 DEF NeverAhead
<1>5. QED
  BY <1>3, <1>4

\* A step that stores nothing in a session and brings it no new request.
LEMMA UntouchedAnswerable ==
  ASSUME NEW s \in AiSessions, Answerable(s), messages \in [AiSessions -> Seq(AiRole) \cup {None}],
         messages'[s] = messages[s], Owed(s)' \subseteq Owed(s)
  PROVE  Answerable(s)'
<1>1. /\ IsFiniteSet(Owed(s)') /\ Cardinality(Owed(s)') \in Nat
      /\ Cardinality(Owed(s)) \in Nat /\ Cardinality(Owed(s)') <= Cardinality(Owed(s))
  BY FS_Subset, FS_CardinalityType DEF Answerable
<1>2. messages[s] # None => /\ Turns(messages[s], "ASSISTANT") \in Nat
                            /\ Turns(messages[s], "USER") \in Nat
  BY TurnsAppended DEF AiRole
<1>3. QED
  BY <1>1, <1>2 DEF Answerable

\* A turn is stored, and one more request owes its reply.
LEMMA TurnAnswerable ==
  ASSUME NEW s \in AiSessions, NEW r \in Requests, Answerable(s), messages[s] \in Seq(AiRole),
         messages'[s] = Append(messages[s], "USER"), Owed(s)' \subseteq Owed(s) \cup {r}
  PROVE  Answerable(s)'
<1> DEFINE c == messages[s]
           d == Append(c, "USER")
<1>1. /\ IsFiniteSet(Owed(s)') /\ Cardinality(Owed(s)') \in Nat
      /\ Cardinality(Owed(s)) \in Nat /\ Cardinality(Owed(s)') <= Cardinality(Owed(s)) + 1
  <2>1. /\ IsFiniteSet(Owed(s) \cup {r}) /\ Cardinality(Owed(s)) \in Nat
        /\ Cardinality(Owed(s) \cup {r}) \in Nat
        /\ Cardinality(Owed(s) \cup {r}) <= Cardinality(Owed(s)) + 1
    <3>1. IsFiniteSet(Owed(s))
      BY DEF Answerable
    <3>2. /\ IsFiniteSet(Owed(s) \cup {r})
          /\ Cardinality(Owed(s) \cup {r}) =
               IF r \in Owed(s) THEN Cardinality(Owed(s)) ELSE Cardinality(Owed(s)) + 1
      BY <3>1, FS_AddElement
    <3>3. Cardinality(Owed(s)) \in Nat
      BY <3>1, FS_CardinalityType
    <3>4. QED
      BY <3>2, <3>3
  <2>2. QED
    BY <2>1, FS_Subset, FS_CardinalityType
<1>2. /\ Turns(c, "ASSISTANT") \in Nat /\ Turns(c, "USER") \in Nat
      /\ Turns(d, "ASSISTANT") = Turns(c, "ASSISTANT")
      /\ Turns(d, "USER") = Turns(c, "USER") + 1
  BY TurnsAppended DEF AiRole
<1>3. /\ c # None
      /\ Cardinality(Owed(s)) + Turns(c, "ASSISTANT") <= Turns(c, "USER")
      /\ NeverAhead(c)
  BY SessionAssumption DEF Answerable
<1> HIDE DEF d
<1>4. Cardinality(Owed(s)') + Turns(d, "ASSISTANT") <= Turns(d, "USER")
  BY <1>1, <1>2, <1>3
<1>5. NeverAhead(d)
  BY <1>1, <1>2, <1>3, <1>4, NeverAheadAppended DEF AiRole, d
<1>6. QED
  BY <1>1, <1>4, <1>5 DEF Answerable, d

\* A reply is stored by a request that owed it.
LEMMA ReplyAnswerable ==
  ASSUME NEW s \in AiSessions, NEW r \in Owed(s), Answerable(s), messages[s] \in Seq(AiRole),
         messages'[s] = Append(messages[s], "ASSISTANT"), Owed(s)' \subseteq Owed(s) \ {r}
  PROVE  Answerable(s)'
<1> DEFINE c == messages[s]
           d == Append(c, "ASSISTANT")
<1>1. /\ IsFiniteSet(Owed(s)') /\ Cardinality(Owed(s)') \in Nat
      /\ Cardinality(Owed(s)) \in Nat /\ Cardinality(Owed(s)') <= Cardinality(Owed(s)) - 1
  <2>1. /\ IsFiniteSet(Owed(s) \ {r}) /\ Cardinality(Owed(s)) \in Nat
        /\ Cardinality(Owed(s) \ {r}) \in Nat
        /\ Cardinality(Owed(s) \ {r}) = Cardinality(Owed(s)) - 1
    BY FS_RemoveElement, FS_CardinalityType DEF Answerable
  <2>2. QED
    BY <2>1, FS_Subset, FS_CardinalityType
<1>2. /\ Turns(c, "ASSISTANT") \in Nat /\ Turns(c, "USER") \in Nat
      /\ Turns(d, "ASSISTANT") = Turns(c, "ASSISTANT") + 1
      /\ Turns(d, "USER") = Turns(c, "USER")
  BY TurnsAppended DEF AiRole
<1>3. /\ c # None
      /\ Cardinality(Owed(s)) + Turns(c, "ASSISTANT") <= Turns(c, "USER")
      /\ NeverAhead(c)
  BY SessionAssumption DEF Answerable
<1> HIDE DEF d
<1>4. Cardinality(Owed(s)') + Turns(d, "ASSISTANT") <= Turns(d, "USER")
  BY <1>1, <1>2, <1>3
<1>5. NeverAhead(d)
  BY <1>1, <1>2, <1>3, <1>4, NeverAheadAppended DEF AiRole, d
<1>6. QED
  BY <1>1, <1>4, <1>5 DEF Answerable, d

LEMMA InitChatInv == AiInit => ChatInv
<1> SUFFICES ASSUME AiInit PROVE ChatInv
  OBVIOUS
<1>1. \A s \in AiSessions : Owed(s) = {} /\ messages[s] = None
  BY DEF AiInit, Owed, Idle
<1>2. QED
  BY <1>1, InitAiInv, FS_EmptySet DEF ChatInv, Answerable

\* Steps that leave the conversations alone and send no request towards a reply but one
\* that owed it already.
LEMMA StepKeepsOwed ==
  ASSUME ChatInv, NEW r \in Requests, NEW next, aiReq' = Continue(aiReq, r, next),
         messages' = messages,
         next.pc \in {"listPrior", "chat", "storeReply"} =>
           /\ aiReq[r].pc \in {"listPrior", "chat", "storeReply"}
           /\ next.session = aiReq[r].session
  PROVE  \A s \in AiSessions : Answerable(s)'
<1> TAKE s \in AiSessions
<1>1. Owed(s)' \subseteq Owed(s)
  BY DEF Owed, Continue, ChatInv, AiInv, AiTypeOK
<1>2. QED
  BY <1>1, UntouchedAnswerable DEF ChatInv, AiInv, AiTypeOK

LEMMA StepStoreTurn ==
  ASSUME ChatInv, NEW r \in Requests, StoreTurn(r)
  PROVE  \A s \in AiSessions : Answerable(s)'
<1> DEFINE q == aiReq[r]
           next == [q EXCEPT !.pc = "listPrior"]
<1>1. /\ q \in AiRequest /\ q.session \in AiSessions /\ messages[q.session] \in Seq(AiRole)
      /\ messages \in [AiSessions -> Seq(AiRole) \cup {None}]
  BY AiRequestFields DEF ChatInv, AiInv, AiTypeOK, StoreTurn, At, Found, ChatPoints
<1>2. /\ messages' = [messages EXCEPT ![q.session] = Append(@, "USER")]
      /\ aiReq' = [aiReq EXCEPT ![r] = next]
  BY DEF StoreTurn, Store, Continue
<1>3. next.session = q.session
  BY <1>1 DEF AiRequest, Idle, StoreTurn, At
<1> HIDE DEF next
<1> TAKE s \in AiSessions
<1>4. CASE s = q.session
  <2>1. Owed(s)' \subseteq Owed(s) \cup {r}
    BY <1>2 DEF Owed, ChatInv, AiInv, AiTypeOK
  <2>2. QED
    BY <1>1, <1>2, <1>4, <2>1, TurnAnswerable DEF ChatInv
<1>5. CASE s # q.session
  <2>1. Owed(s)' \subseteq Owed(s)
    BY <1>2, <1>3, <1>5 DEF Owed, ChatInv, AiInv, AiTypeOK
  <2>2. QED
    BY <1>1, <1>2, <1>5, <2>1, UntouchedAnswerable DEF ChatInv
<1>6. QED
  BY <1>4, <1>5

LEMMA StepStoreReply ==
  ASSUME ChatInv, NEW r \in Requests, StoreReply(r)
  PROVE  \A s \in AiSessions : Answerable(s)'
<1> DEFINE q == aiReq[r]
<1>1. /\ q \in AiRequest /\ q.session \in AiSessions /\ messages[q.session] \in Seq(AiRole)
      /\ messages \in [AiSessions -> Seq(AiRole) \cup {None}]
  BY AiRequestFields DEF ChatInv, AiInv, AiTypeOK, StoreReply, At, Found, ChatPoints
<1>2. /\ messages' = [messages EXCEPT ![q.session] = Append(@, "ASSISTANT")]
      /\ aiReq' = [aiReq EXCEPT ![r] = Idle]
  BY DEF StoreReply, Store, Finish, Continue
<1>3. \A s \in AiSessions : Owed(s)' \subseteq Owed(s) \ {r}
  BY <1>2 DEF Owed, Idle, ChatInv, AiInv, AiTypeOK
<1>4. r \in Owed(q.session)
  BY DEF Owed, StoreReply, At
<1> TAKE s \in AiSessions
<1>5. CASE s = q.session
  BY <1>1, <1>2, <1>3, <1>4, <1>5, ReplyAnswerable DEF ChatInv
<1>6. CASE s # q.session
  BY <1>1, <1>2, <1>3, <1>6, UntouchedAnswerable DEF ChatInv
<1>7. QED
  BY <1>5, <1>6

LEMMA StepChatInv == ChatInv /\ [AiNext]_aiVars => ChatInv'
<1> SUFFICES ASSUME ChatInv, [AiNext]_aiVars PROVE \A s \in AiSessions : Answerable(s)'
  BY StepAiInv DEF ChatInv
<1>1. ASSUME aiReq' = aiReq, messages' = messages
      PROVE  \A s \in AiSessions : Answerable(s)'
  BY <1>1 DEF ChatInv, Answerable, Owed
<1>2. ASSUME NEW s \in AiSessions, CreateSession(s)
      PROVE  \A t \in AiSessions : Answerable(t)'
  <2>1. /\ messages[s] = None /\ messages' = [messages EXCEPT ![s] = <<>>]
        /\ aiReq' = aiReq /\ messages \in [AiSessions -> Seq(AiRole) \cup {None}]
    BY <1>2 DEF CreateSession, ChatInv, AiInv, AiTypeOK
  <2> TAKE t \in AiSessions
  <2>2. Owed(t)' = Owed(t)
    BY <2>1 DEF Owed
  <2>3. CASE t # s
    BY <2>1, <2>2, <2>3, UntouchedAnswerable DEF ChatInv
  <2>4. CASE t = s
    <3>1. Owed(t) = {}
      BY <2>1, <2>4, SessionAssumption DEF Owed, ChatInv, AiInv, Found, ChatPoints
    <3>2. messages'[t] = <<>>
      BY <2>1, <2>4
    <3>3. \A role : Turns(<<>>, role) = 0
      BY FS_EmptySet DEF Turns
    <3>4. NeverAhead(<<>>)
      BY DEF NeverAhead
    <3>5. Cardinality(Owed(t)') = 0 /\ IsFiniteSet(Owed(t)')
      BY <2>2, <3>1, FS_EmptySet
    <3>6. QED
      BY <3>2, <3>3, <3>4, <3>5 DEF Answerable
  <2>5. QED
    BY <2>3, <2>4
<1>3. ASSUME NEW r \in Requests,
             \/ \E a \in AiActions, d \in AiDecision : DecideRead(r, a, d)
             \/ \E a \in AiActions : ReportRead(r, a)
             \/ \E s \in AiSessions : PostRead(r, s)
      PROVE  \A s \in AiSessions : Answerable(s)'
  BY <1>3, StepKeepsOwed DEF DecideRead, ReportRead, PostRead
<1>4. ASSUME NEW r \in Requests,
             RecordApproval(r) \/ WriteDecision(r) \/ WriteReport(r) \/ AiAbandon(r)
      PROVE  \A s \in AiSessions : Answerable(s)'
  <2>1. CASE RecordApproval(r)
    <3>1. [aiReq[r] EXCEPT !.pc = "writeDecision"].pc = "writeDecision"
      <4>1. aiReq[r] \in AiRequest /\ aiReq[r].pc = "recordApproval"
        BY <2>1 DEF RecordApproval, At, ChatInv, AiInv, AiTypeOK
      <4>2. QED
        BY <4>1 DEF AiRequest, Idle
    <3>2. QED
      BY <2>1, <3>1, StepKeepsOwed DEF RecordApproval
  <2>2. CASE WriteDecision(r) \/ WriteReport(r) \/ AiAbandon(r)
    BY <2>2, StepKeepsOwed DEF WriteDecision, WriteReport, AiAbandon, Finish, Idle
  <2>3. QED
    BY <1>4, <2>1, <2>2
<1>5. ASSUME NEW r \in Requests, ListPrior(r) \/ Chat(r)
      PROVE  \A s \in AiSessions : Answerable(s)'
  <2>1. CASE ListPrior(r)
    <3>1. PICK h : aiReq' = Continue(aiReq, r, [pc |-> "chat", session |-> aiReq[r].session,
                                                history |-> h])
      BY <2>1 DEF ListPrior
    <3>2. QED
      BY <2>1, <3>1, StepKeepsOwed DEF ListPrior, At
  <2>2. CASE Chat(r)
    BY <2>2, StepKeepsOwed DEF Chat, At, Finish, Idle
  <2>3. QED
    BY <1>5, <2>1, <2>2
<1>6. ASSUME NEW a \in AiActions, RecordAction(a)
      PROVE  \A s \in AiSessions : Answerable(s)'
  BY <1>1, <1>6 DEF RecordAction
<1>7. CASE UNCHANGED aiVars
  BY <1>1, <1>7 DEF aiVars
<1>8. QED
  BY <1>2, <1>3, <1>4, <1>5, <1>6, <1>7, StepStoreTurn, StepStoreReply DEF AiNext

\* No beginning of a conversation has more replies than turns, for any number of requests
\* that post to the same session at once, wherever the provider or the process fails
\* (postMessage).
THEOREM RepliesAnswerTurns == AiSpec => []RepliesAnswer
<1>1. ChatInv => RepliesAnswer
  BY DEF ChatInv, Answerable, NeverAhead, RepliesAnswer
<1>2. QED
  BY <1>1, InitChatInv, StepChatInv, PTL DEF AiSpec

=============================================================================
