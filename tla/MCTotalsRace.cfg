\* Two requests change a package's items at once; the server stays up.
SPECIFICATION Spec
CONSTANTS
  Packages = {p1}
  Items = {i1, i2}
  Quotations = {}
  NewItems <- Priced
  Changes <- OneChange
  ManualStatuses = {}
  MayCrash = FALSE
  Requests = {r1, r2}
  None = None
CHECK_DEADLOCK FALSE
INVARIANTS
  TotalsSettle
