\* Two proposals of one lead, two requests in flight; staff only move the lead forward.
SPECIFICATION Spec
CONSTANTS
  Leads = {l1}
  Proposals = {p1, p2}
  FollowUps = {u1}
  OpenedIds = {f1, f2}
  StaffIds = {}
  Requests = {r1, r2}
  Contents = {c1}
  ManualStatuses = {"ARRANGEMENTS"}
  None = None
\* The system rests when its one lead is removed: no request finds anything to do.
CHECK_DEADLOCK FALSE
SYMMETRY Symmetry
INVARIANTS
  TypeOK
  AcceptedIffFulfilled
  LeadNeverAhead
PROPERTIES
  ImplementsDealBook
