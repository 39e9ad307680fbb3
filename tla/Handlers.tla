------------------------------ MODULE Handlers ------------------------------
(***************************************************************************)
(* The request processes of the back office, shared by its components.     *)
(*                                                                         *)
(* An HTTP handler is an async function over MongoDB: one awaited query is *)
(* atomic, and between two awaits any other request may run.  Each         *)
(* component keeps its requests in a variable [Requests -> record]: pc is  *)
(* the point the handler has reached, the other fields what it read and    *)
(* still carries.  A handler that throws, or whose process dies, simply    *)
(* stops: what it wrote stays, and the client may call again.              *)
(***************************************************************************)
CONSTANTS
  Requests,  \* handler invocations that can be in flight together
  None

ASSUME HandlersAssumption == Requests # {}

Idle == [pc |-> "idle"]

At(requests, r, point) == requests[r].pc = point

Continue(requests, r, next) == [requests EXCEPT ![r] = next]

Finish(requests, r) == Continue(requests, r, Idle)

\* $set: the named paths of a document are overwritten, the others keep what is stored by now.
Overwritten(doc, set) == [f \in DOMAIN doc |-> IF f \in DOMAIN set THEN set[f] ELSE doc[f]]

=============================================================================
