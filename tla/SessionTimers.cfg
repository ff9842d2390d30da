\* Four calls that arm timeouts over nine units of time.
SPECIFICATION Spec
CONSTANTS
  Durations <- MCDurations
  WarningPoints <- MCWarningPoints
  GracePeriod = 2
  None = None
  MaxNow = 9
  MaxArms = 4
\* The clock ends the run.
CHECK_DEADLOCK FALSE
INVARIANTS
  TypeOK
  NoStrayTimeout
PROPERTIES
  ImplementsCountdown
