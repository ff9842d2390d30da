SPECIFICATION DashboardSpec
CONSTANTS
  NumSections = 3
  Sizes <- ThreeSections
  First <- Preceding
  UseSections = TRUE
  Calls = {c1}
  Handlers <- AllHandlers
  Hasty = {}
  None = None
  Unplaced = Unplaced
  Idle = Idle
INVARIANTS
  InStep
  AnswersReachTheirQuestion
PROPERTY
  ImplementsFlow
