\* A booked proposal of two lines, two items delivered at the same time.
SPECIFICATION Spec
CONSTANTS
  Quotations = {q1}
  Proposals = {p1}
  Items = {i1, i2}
  Terms <- TwoLines
  ItemUpdates = {"DELIVERED"}
  Requests = {r1, r2}
  None = None
CHECK_DEADLOCK FALSE
PROPERTIES
  CompletedWhileDelivered
