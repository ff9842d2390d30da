\* Two sections; a restart may happen.
CONSTANTS
  r1 = r1
  q1 = q1
  Requests <- OneRequest
  Handlers <- SomeHandlers
  Questions <- OneQuestion
  TimeLimit = 2
  Second = 2
  UseSections = TRUE
  Instant <- NoStep
  MaxCrashes = 1
  MaxFaults = 0
  NumSections = 2
SPECIFICATION FairSectionSpec
INVARIANTS
  NoSectionCutShort
PROPERTIES
  SectionsEnd
