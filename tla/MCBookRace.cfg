\* One ready proposal of one line, two booking requests.
SPECIFICATION Spec
CONSTANTS
  Quotations = {q1}
  Proposals = {p1}
  Items = {i1, i2}
  Terms <- OneLine
  ItemUpdates = {}
  Requests = {r1, r2}
  None = None
CHECK_DEADLOCK FALSE
INVARIANTS
  OneItemPerLine
