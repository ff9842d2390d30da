\* Every handler; a restart and a failed database operation may happen.
CONSTANTS
  r1 = r1
  q1 = q1
  Requests <- OneRequest
  Handlers <- AllHandlers
  Questions <- OneQuestion
  TimeLimit = 4
  Second = 2
  UseSections = FALSE
  Instant <- NoStep
  MaxCrashes = 1
  MaxFaults = 1
SPECIFICATION Spec
INVARIANTS
  TypeOK
  NeverCutShort
PROPERTIES
  ImplementsOutcome
  ExpiryCloses
  GradesWhatIsStored
  TimerNotExtended
