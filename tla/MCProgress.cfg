CONSTANTS
  Foci = {"stream", "subscribe", "onchange", "dialout", "halt", "server", "callhome"}
  d1 = d1
  d2 = d2
  Transports = {"t", "u"}
  Senders = {}
  SenderOf <- MCSenderOf
  Conns = {1, 2}
  MaxDials = 1
  InitialBackoff = 1
  MaxBackoff = 3
  NoConn = NoConn
  LogDevices = {d1, d2}
  KeyOf <- MCKeyOf
  LogFirers = {sch, http}
  TheScheduler = sch
  NoSocket = NoSocket
  NoDevice = NoDevice
  WireMessages <- MCMessages
  MaxMessageBytes = 22
  TagMax = 2
  MaxFrames = 2
  Subs = {"a", "b"}
  Entries <- MCEntries
  Requests <- MCRequests
  Depth = 2
  MaxTicks = 0
  StateIfs = {1, 2}
  OnSubs <- MCOnSubs
  Covers <- MCCovers
  Beating = {1}
  ListenDepth = 2
  MaxChanges = 2
  PushLeaves = {"x", "y"}
  QueueDepth = 1
  EventDepth = 2
  InitialWait = 1
  MaxWait = 3
  MaxMoves = 1
  MaxBreaks = 1
  NcSessions = {"s1", "s2"}
  OutDepth = 2
  EventDepthNc = 2
  SubCap = 2
  MaxMutators = 1
  MaxSubIds = 1
  MaxNcMoves = 1
  SshConns = {"c1"}
  MaxChannels = 2
  Phases = {0, 1}
  Cycle = 2
  KeepAlive = 1
  Misses = 2
  MaxNow = 4
  FrameBytes = {"]", ">", "\n", "#"}
  LongestMessage = 3
  MaxBytes = 2
  MaxMessages = 2
SPECIFICATION MCFairSpec
PROPERTIES
  SessionsProgress
\* Requests, moves, dials and clocks are bounded, and everything may be closed.
CHECK_DEADLOCK FALSE
