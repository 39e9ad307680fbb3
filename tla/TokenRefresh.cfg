SPECIFICATION Spec
CONSTANTS
  None = None
  Calls = {c1, c2}
  MaxTokens = 5
  MaxLogins = 1
  MaxReloads = 1
INVARIANTS
  TypeOK
  SessionKept
  AuthenticatedHasToken
PROPERTIES
  CallsSettle
  BootResolves
CHECK_DEADLOCK FALSE
