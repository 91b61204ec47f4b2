CONSTANTS
  Mibs <- Shipped
  Requests <- MCRequests
  MaxResponseSize = 210
  MinMsgMaxSize = 100
  LongestRun = 2
  Agents <- MCAgents
  SetIfs = {1, 2}
  SetLists <- MCSetLists
  WindowTicks = 1
  MaxTime = 3
  MaxClock = 3
  n1 = n1
  n2 = n2
  LldpDevices = {n1, n2}
  Walkers = {n1}
  TopoPorts <- MCPorts
  MaxGen = 4
  IfNames <- MCIfNames
  MaxIfIndex = 4
  StackRows <- MCStackRows
  HostBits = 2
  MaxAddress = 6
  Starts = {2}
  Counts = {1, 2}
  MaxHolders = 2
  MaxDeletes = 1
  SysDraws = {"x"}
SPECIFICATION MCSpec
INVARIANTS
  WalksWhole
  TopologyKept
  DevicesKept
PROPERTIES
  SecurityKept
  GateReleased
\* The generations and the batches are bounded, and some inputs are only looked at.
CHECK_DEADLOCK FALSE
