\* Every handler; a restart may happen.
CONSTANTS
  r1 = r1
  q1 = q1
  Requests <- OneRequest
  Handlers <- AllHandlers
  Questions <- OneQuestion
  TimeLimit = 2
  Second = 2
  UseSections = FALSE
  Instant <- NoStep
  MaxCrashes = 1
  MaxFaults = 0
SPECIFICATION FairSpec
PROPERTIES
  SessionEnds
