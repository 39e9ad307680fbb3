\* A proposal is edited while it is accepted.
SPECIFICATION Spec
CONSTANTS
  Leads = {l1}
  Proposals = {p1}
  FollowUps = {}
  OpenedIds = {f1}
  StaffIds = {}
  Requests = {r1, r2}
  Contents = {c1, c2}
  ManualStatuses = {}
  None = None
CHECK_DEADLOCK FALSE
PROPERTIES
  AcceptedProposalIsLocked
