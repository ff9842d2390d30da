SPECIFICATION Spec
CONSTANTS
  NumSections = 3
  Sizes <- ThreeSections
  First <- Preceding
  UseSections = TRUE
  Calls = {c1}
  Handlers <- AllHandlers
  None = None
  Unplaced = Unplaced
  Idle = Idle
INVARIANTS
  TypeOK
  ListsAgree
  SectionOrder
PROPERTY
  IsQuestionnaire
