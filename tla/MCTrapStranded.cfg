CONSTANTS
  Foci = {"traps"}
  MTUs = {}
  MaxWaiting = 0
  Scenarios = {1, 2}
  Attachments <- MCAttachments
  Harvest <- MCHarvest
  CounterRecords = 5
  OptionIfaces = 20
  Applications = 16
  TemplateInterval = 1
  ScenWindow = 1
  MaxFlowTime = 2
  MaxStarts = 3
  FlowKeys = {k1, k2, k3}
  ActiveTimeout = 3
  InactiveTimeout = 2
  MaxFlows = 2
  ConcurrentFlows = 2
  Overrides = {0, 1}
  Durations = {0, 2}
  Jitters <- MCJitters
  MaxClock = 2
  Devices <- MCDevices
  MaxGen <- MCMaxGen
  Workers = {"w"}
  QueueCap = 1
  Capped = TRUE
  Pickable = {"a"}
  MaxNow = 2
  MaxOffset = 1
  MaxReads = 1
SPECIFICATION MCSpec
INVARIANTS
  EveryDeviceFires
