\* Liveness: one proposal, one fulfillment by staff, no symmetry.
SPECIFICATION FairSpec
CONSTANTS
  Leads = {l1}
  Proposals = {p1}
  FollowUps = {}
  OpenedIds = {f1}
  StaffIds = {f2}
  Requests = {r1, r2}
  Contents = {c1}
  ManualStatuses = {}
  None = None
CHECK_DEADLOCK FALSE
PROPERTIES
  CompletionReachesLead
  RequestsEnd
