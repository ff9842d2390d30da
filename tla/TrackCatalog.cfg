\* Two administrators, who may add and remove the same challenge at once, and an enrolment.
SPECIFICATION Spec
CONSTANTS
  Tracks = {t1, t2}
  Challenges = {x1}
  Existing = {}
  Given <- SomeLists
  Students = {u1}
  Editors = {e1, e2}
  Enrollers = {u1}
  StudentOf <- Themselves
  None = None
  MaxSaves = 2
\* MaxSaves ends the calls.
CHECK_DEADLOCK FALSE
SYMMETRY Alike
CONSTRAINT FewLists
INVARIANTS
  TypeOK
  CatalogSound
  ListedIsClaimed
PROPERTIES
  NoEditLost
