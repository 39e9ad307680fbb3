\* One quotation, two requests in flight: up to two conversions, two bookings of two lines.
SPECIFICATION Spec
CONSTANTS
  Quotations = {q1}
  Proposals = {p1, p2}
  Items = {i1, i2, i3}
  Terms <- TwoLinesOrFree
  ItemUpdates = {"CANCELLED", "DELIVERED"}
  Requests = {r1, r2}
  None = None
CHECK_DEADLOCK FALSE
SYMMETRY Symmetry
INVARIANTS
  TypeOK
  BookedCoversSnapshot
  LinksAgree
PROPERTIES
  ImplementsContractBook
