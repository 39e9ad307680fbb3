SPECIFICATION OfficeSpec
CONSTANTS
  None = None
  Requests = {r1, r2}
  AiActions = {a1}
  AiSessions = {s1}
  MaxMessages = 3
  HistoryWindow = 2
  Inquiries = {i1, i2}
  InquiryLeads = {l1, l2}
  Agencies = {g1}
  Companies = {c1}
  Bookings = {b1}
  KindsBooked = {"HOTEL", "ACTIVITY", "TRANSFER", "VISA"}
  Travelers = {t1}
  RiskBookings = {b1, b2}
  Days = {0, 18, 24, 32}
  TravelDays = {21, 31}
  BookingForms <- SomeBookings
  Rates = {v1, v2}
  RateForms <- SomeRates
  RateChanges <- SomeRateChanges
  MaxMembers = 3
  Workspaces = {o1, o2}
  LegacyOrg = o1
  CustomRoles = {x1}
  RoleChoices <- SomeRoles
  HotelRows = {w1, w2}
  Parties = {2, 3}
  StoredOptions <- SomeOptions
  RowPatches <- SomePatches
  Extractions <- SomeExtractions
  TripCities = {k1, k2}
  Hotels = {n1, n2}
  MaxStops = 3
  MaxQuoteRows = 4
  Answers <- SomeAnswers
  Edits <- SomeEdits
  Catalog <- SomeCatalog
  Alike <- SomeAlike
  Placeholder = "generic"
  Blank = Blank
  Garbled = Garbled
SYMMETRY Symmetry
CONSTRAINT Bounds
INVARIANTS
  OfficeTypeOK
  DecisionRecorded
  RepliesAnswer
  ConvertedHasOwnLead
  DialogLeavesNoOrphan
  
  BookingStamped
  NoAlarmMissed
  OneRateApplies
  FoundersCanWork
  WildcardFromSuper
  RolesOfOwnWorkspace
  StoredIsSettled
  EveryOptionShown
  OptionNumbersAgree
PROPERTIES
  EditsKeepStatus
  RiskEscalates
  SaveKeepsPrices
  IntakeKeepsForm
  HotelsSettle
CHECK_DEADLOCK FALSE
