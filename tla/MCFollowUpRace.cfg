\* A follow-up is scheduled while the lead's proposal is accepted.
SPECIFICATION Spec
CONSTANTS
  Leads = {l1}
  Proposals = {p1}
  FollowUps = {u1}
  OpenedIds = {f1}
  StaffIds = {}
  Requests = {r1, r2}
  Contents = {c1}
  ManualStatuses = {}
  None = None
CHECK_DEADLOCK FALSE
PROPERTIES
  WonLeadStaysOutOfFollowUp
