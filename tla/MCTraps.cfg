CONSTANTS
  Senders = {"scheduler", "operator"}
  MaxInforms = 2
  PendingCap = 1
  InformRetries = 1
  MaxRuns = 1
  Devices <- MCDevices
  MaxGen <- MCOnce
  Workers = {"w", "x"}
  QueueCap = 1
  Capped = TRUE
  Pickable = {"a", "b"}
  MaxNow = 2
  MaxOffset = 2
SPECIFICATION MCSpec
INVARIANTS
  InformsKept
  SchedulerKept
PROPERTIES
  TrapsProgress
\* A closed exporter and a stopped scheduler have nothing left to do.
CHECK_DEADLOCK FALSE
