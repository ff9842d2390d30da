SPECIFICATION DashboardSpec
CONSTANTS
  NumSections = 2
  Sizes <- LongShort
  First <- Preceding
  UseSections = TRUE
  Calls = {c1, c2}
  Handlers <- AllHandlers
  Hasty = {"grid"}
  None = None
  Unplaced = Unplaced
  Idle = Idle
INVARIANT
  AnswersReachTheirQuestion
