\* Two calls of a student who waits and two of one who does not; one failed
\* database operation or restart.
SPECIFICATION Spec
CONSTANTS
  careful = careful
  hasty = hasty
  js = js
  py = py
  c1 = c1
  c2 = c2
  h1 = h1
  h2 = h2
  Students = {careful, hasty}
  Languages = {js, py}
  Submissions = {c1, c2, h1, h2}
  StudentOf <- MCStudentOf
  LanguageOf <- MCLanguageOf
  Overlapping = {hasty}
  None = None
  MaxFailures = 1
CHECK_DEADLOCK FALSE
SYMMETRY AlikeCalls
INVARIANTS
  TypeOK
  EarnedProgress
  AnswersAgree
PROPERTIES
  ImplementsRecord
