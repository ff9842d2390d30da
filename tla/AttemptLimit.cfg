\* One start and one request or review at a time, beside the administrator.
SPECIFICATION Spec
CONSTANTS
  Tests = {t1, t2}
  Amounts = {1}
  NoOverride = NoOverride
  MaxExtra = 1
  AttemptsAllowed <- OneEach
  Starts = {s1}
  MaxSessions = 2
  Requests = {q1, q2}
  Clerks = {k1}
SYMMETRY Alike
INVARIANTS
  TypeOK
  OneActiveSession
  AttemptNumbersDiffer
  OnePendingRequest
PROPERTIES
  StartsWithinAllowance
  IsAccount
