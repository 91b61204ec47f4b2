CONSTANTS
  MTUs <- MCMTUs
  MaxWaiting = 40
SPECIFICATION WireSpec
INVARIANTS
  BatchesFit
  WireDescribed
  PacingExact
\* Most initial states are inputs to be looked at, with nowhere to go.
CHECK_DEADLOCK FALSE
