CONSTANTS
  Fires <- MCMixed
  Source <- MCMixedSource
  Window = 1
  MaxTime = 2
  MaxFires = 2
SPECIFICATION WSpec
INVARIANTS
  VerdictHonest
  WindowAccounted
  CleanReportExact
PROPERTIES
  SettledIsFinal
  ImplementsGate
  ImplementsBarrier
  FinishCompletes
\* After the report there may be nothing left to do.
CHECK_DEADLOCK FALSE
