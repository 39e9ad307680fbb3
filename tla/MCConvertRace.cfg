\* One accepted quotation, two conversion requests.
SPECIFICATION Spec
CONSTANTS
  Quotations = {q1}
  Proposals = {p1, p2}
  Items = {}
  Terms <- OneLine
  ItemUpdates = {}
  Requests = {r1, r2}
  None = None
CHECK_DEADLOCK FALSE
INVARIANTS
  ConvertsOnce
