CONSTANTS
  Foci = {"scenarios", "interfaces", "counters", "alarms", "episodes", "zones"}
  d1 = d1
  d2 = d2
  Devices <- MCDevices
  MaxSubmits = 2
  MaxConcurrent = 2
  MaxRetained = 1
  MaxParticipants = 2
  MaxGen = 0
  MaxRequests = 1
  Selected <- MCSelected
  Expect <- MCExpect
  Parent <- MCParent
  Threads = {"rest", "flap"}
  AdminTargets = {1, 3}
  MaxMutations = 2
  MaxClock = 2
  ChanCap = 1
  CounterParent <- MCCounterParent
  Members <- MCMembers
  Rate <- MCRate
  Share = 6
  Flapped = {1, 4}
  Polled = {1, 3, 4}
  MaxFlips = 3
  MaxTime = 3
  Soak = 2
  EvalInterval = 2
  MaxAlarmClock = 10
  MaxEngines = 2
  Posters = {"p", "q"}
  Rises = {0, 2}
  Break = 2
  Durations = {0, 1}
  EpisodeCap = 1
  MaxSecs = 3
  MaxPosts = 3
  Addresses <- MCAddresses
  SysNames <- MCSysNames
  ReverseNets <- MCReverseNets
  LabelMax = 11
  ChunkRecords = 3
SPECIFICATION MCSpec
SYMMETRY DeviceSymmetry
INVARIANTS
  RunsHeld
  EpisodesKept
  ZonesAnswer
PROPERTIES
  ClaimsKept
  InterfacesReported
  CountersHeld
  AlarmsTruthful
\* The requests, the moves and the clocks are bounded.
CHECK_DEADLOCK FALSE
