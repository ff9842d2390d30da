\* Expired sessions and their Results.
CONSTANTS
  r1 = r1
  q1 = q1
  Requests <- OneRequest
  Handlers <- AllHandlers
  Questions <- OneQuestion
  TimeLimit = 1
  Second = 1
  UseSections = FALSE
  Instant <- AnyStep
  MaxCrashes = 0
  MaxFaults = 0
SPECIFICATION Spec
INVARIANTS
  ExpiredWasSubmitted
