\* One package of one item that changes in two ways, quoted up to twice, two requests in flight.
SPECIFICATION Spec
CONSTANTS
  Packages = {p1}
  Items = {i1}
  Quotations = {q1, q2}
  NewItems <- Priced
  Changes <- TwoChanges
  ManualStatuses = {"ARCHIVED"}
  MayCrash = TRUE
  Requests = {r1, r2}
  None = None
CHECK_DEADLOCK FALSE
SYMMETRY Symmetry
INVARIANTS
  TypeOK
  SnapshotConsistent
  PricesFollowInputs
  StatusBacked
  VersionsFollow
