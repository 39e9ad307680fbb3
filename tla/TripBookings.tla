---------------------------- MODULE TripBookings ----------------------------
(***************************************************************************)
(* BookingsService: the supplier bookings of a sold trip.  Every operation *)
(* but creation loads the document, changes it in memory and saves it.     *)
(* Mongoose writes only the paths whose value differs from the loaded one, *)
(* and the schemas keep no version, so two operations in flight each write *)
(* their own paths over whatever the other has saved.  References, names,  *)
(* rooms and notes tell no property apart and are left out.                *)
(***************************************************************************)
EXTENDS Handlers

CONSTANTS
  Bookings,    \* ids of bookings, created on demand
  KindsBooked  \* the booking types of this run

BookingKind == {"HOTEL", "ACTIVITY", "TRANSFER", "VISA", "FLIGHT"}
BookingStatus == {"PENDING", "REQUESTED", "CONFIRMED", "FAILED", "CANCELLED"}
HotelDetailStatus == {"PENDING", "CONFIRMED", "CHECKED_IN", "CHECKED_OUT"}
TransferDetailStatus == {"PENDING", "CONFIRMED", "COMPLETED"}
VisaStatus == {"PENDING_DOCUMENTS", "SUBMITTED", "PROCESSING", "APPROVED", "REJECTED"}

ASSUME TripAssumption == KindsBooked \subseteq BookingKind

\* The status of the detail sub-document of each kind; None where there is none.
DetailStatus(kind) ==
  CASE kind = "HOTEL" -> HotelDetailStatus
    [] kind = "TRANSFER" -> TransferDetailStatus
    [] kind = "VISA" -> VisaStatus
    [] OTHER -> {None}

\* The stamp that goes with a visa status.
Stamped == [SUBMITTED |-> "applicationSubmittedAt", PROCESSING |-> "processingStartedAt",
            APPROVED |-> "approvedAt", REJECTED |-> "rejectedAt"]

VARIABLES
  booking,  \* [Bookings -> document]: the paths of BookingDoc; dates are set or not
  tripReq   \* [Requests -> the handler in flight]

tripVars == <<booking, tripReq>>

BookingDoc(kind, status, detail) ==
  [kind |-> kind, status |-> status, detail |-> detail, confirmationDate |-> FALSE,
   applicationSubmittedAt |-> FALSE, processingStartedAt |-> FALSE,
   approvedAt |-> FALSE, rejectedAt |-> FALSE]

TripInit ==
  /\ booking = [b \in Bookings |-> BookingDoc(None, "ABSENT", None)]
  /\ tripReq = [r \in Requests |-> Idle]

-----------------------------------------------------------------------------
\* Mutant: every detail starts as PENDING.
InitialDetailPending(kind) == "PENDING"

\* The sub-document of the kind starts from its schema's defaults.
InitialDetail(kind) ==
  CASE kind \in {"HOTEL", "TRANSFER"} -> "PENDING"
    [] kind = "VISA" -> "PENDING_DOCUMENTS"
    [] OTHER -> None

CreateBooking(b) ==
  /\ booking[b].status = "ABSENT"
  /\ \E kind \in KindsBooked :
       booking' = [booking EXCEPT ![b] = BookingDoc(kind, "PENDING", InitialDetail(kind))]
  /\ UNCHANGED tripReq

\* confirm refuses a booking it reads as cancelled, and confirms a hotel's or transfer's detail.
Confirmed(doc) ==
  {new \in {[doc EXCEPT !.status = "CONFIRMED", !.confirmationDate = TRUE,
                        !.detail = IF doc.kind \in {"HOTEL", "TRANSFER"} THEN "CONFIRMED" ELSE @]} :
     doc.status # "CANCELLED"}

\* fail, cancel and update accept a booking of any status.
Failed(doc) == {[doc EXCEPT !.status = "FAILED"]}

Cancelled(doc) == {[doc EXCEPT !.status = "CANCELLED"]}

Edited(doc) == {doc}

\* updateHotelDetails and updateTransferDetails: the detail's status is set, or not.
DetailEdited(doc) ==
  IF doc.kind \in {"HOTEL", "TRANSFER"}
    THEN {[doc EXCEPT !.detail = s] : s \in DetailStatus(doc.kind)}
    ELSE {}

\* Mutant: a rejection is not stamped.
VisaMovedUnstamped(doc, s) ==
  IF s = doc.detail THEN doc
  ELSE [f \in DOMAIN doc |->
          IF f = "detail" THEN s
          ELSE IF s \in DOMAIN Stamped \ {"REJECTED"} /\ f = Stamped[s] THEN TRUE
          ELSE doc[f]]

\* A status the loaded document does not have brings its stamp, unless that is set already.
VisaMoved(doc, s) ==
  IF s = doc.detail THEN doc
  ELSE [f \in DOMAIN doc |->
          IF f = "detail" THEN s
          ELSE IF s \in DOMAIN Stamped /\ f = Stamped[s] THEN TRUE
          ELSE doc[f]]

\* updateVisaProcessing: the request may carry dates of its own as well.
VisaEdited(doc) ==
  IF doc.kind = "VISA"
    THEN {VisaMoved(doc, s) : s \in VisaStatus}
           \cup {[doc EXCEPT ![f] = TRUE] : f \in {Stamped[s] : s \in DOMAIN Stamped}}
    ELSE {}

BookingOps == {"confirm", "fail", "cancel", "update", "details", "visa"}

Outcomes(op, doc) ==
  CASE op = "confirm" -> Confirmed(doc)
    [] op = "fail" -> Failed(doc)
    [] op = "cancel" -> Cancelled(doc)
    [] op = "update" -> Edited(doc)
    [] op = "details" -> DetailEdited(doc)
    [] op = "visa" -> VisaEdited(doc)

\* Mutant: the whole document is written back.
ModifiedAll(loaded, new) == DOMAIN loaded

\* Document.save() will send a $set of the paths modified in memory.
Modified(loaded, new) == {f \in DOMAIN loaded : new[f] # loaded[f]}

LoadBooking(r, b, op) ==
  /\ At(tripReq, r, "idle")
  /\ booking[b].status # "ABSENT"
  /\ \E new \in Outcomes(op, booking[b]) :
       tripReq' = Continue(tripReq, r,
         [pc |-> "save", op |-> op, booking |-> b,
          set |-> [f \in Modified(booking[b], new) |-> new[f]]])
  /\ UNCHANGED booking

SaveBooking(r) ==
  /\ At(tripReq, r, "save")
  /\ booking' = [booking EXCEPT ![tripReq[r].booking] = Overwritten(@, tripReq[r].set)]
  /\ tripReq' = Finish(tripReq, r)

TripAbandon(r) ==
  /\ ~At(tripReq, r, "idle")
  /\ tripReq' = Finish(tripReq, r)
  /\ UNCHANGED booking

TripNext ==
  \/ \E b \in Bookings : CreateBooking(b)
  \/ \E r \in Requests :
       \/ \E b \in Bookings, op \in BookingOps : LoadBooking(r, b, op)
       \/ SaveBooking(r)
       \/ TripAbandon(r)

TripSpec == TripInit /\ [][TripNext]_tripVars

-----------------------------------------------------------------------------
(* Properties *)

DetailStatuses == HotelDetailStatus \cup TransferDetailStatus \cup VisaStatus \cup {None}

\* Every value has the type its schema gives it (booking, hotel, transfer and visa details),
\* and a detail has a status of its own booking's kind.
TripTypeOK ==
  /\ \A b \in Bookings :
       \/ booking[b] = BookingDoc(None, "ABSENT", None)
       \/ /\ booking[b] \in [kind : BookingKind, status : BookingStatus, detail : DetailStatuses,
                             confirmationDate : BOOLEAN, applicationSubmittedAt : BOOLEAN,
                             processingStartedAt : BOOLEAN, approvedAt : BOOLEAN,
                             rejectedAt : BOOLEAN]
          /\ booking[b].detail \in DetailStatus(booking[b].kind)
  /\ \A r \in Requests :
       \/ tripReq[r] = Idle
       \/ /\ DOMAIN tripReq[r] = {"pc", "op", "booking", "set"}
          /\ tripReq[r].pc = "save" /\ tripReq[r].op \in BookingOps
          /\ tripReq[r].booking \in Bookings
          /\ DOMAIN tripReq[r].set \subseteq DOMAIN booking[tripReq[r].booking]

\* A confirmed booking has its confirmation date and a visa its stamp for the status it has
\* reached, whichever operations loaded the document before others saved it.
BookingStamped ==
  \A b \in Bookings :
    /\ booking[b].status = "CONFIRMED" => booking[b].confirmationDate
    /\ booking[b].kind = "VISA" /\ booking[b].detail \in DOMAIN Stamped
         => booking[b][Stamped[booking[b].detail]]

\* Only confirm, fail and cancel move a booking: an edit of its fields or details that was
\* loaded before a confirmation or a cancellation does not undo it when it is saved.
EditsKeepStatus ==
  [][\A b \in Bookings :
       booking[b].status # "ABSENT" /\ booking'[b].status # booking[b].status =>
         \E r \in Requests : /\ tripReq[r].pc = "save" /\ tripReq'[r].pc = "idle"
                             /\ tripReq[r].op \in {"confirm", "fail", "cancel"}]_tripVars

=============================================================================
