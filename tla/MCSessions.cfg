CONSTANTS
  Foci = {"stream", "fleet", "wire", "subscribe", "onchange", "dialout", "push", "stop", "life", "server", "callhome", "framing"}
  d1 = d1
  d2 = d2
  Transports = {"t"}
  Senders = {"s1", "s2"}
  SenderOf <- MCSenderOf
  Conns = {1, 2, 3}
  MaxDials = 1
  InitialBackoff = 1
  MaxBackoff = 3
  NoConn = NoConn
  LogDevices = {d1, d2}
  KeyOf <- MCKeyOf
  LogFirers = {sch, http}
  TheScheduler = sch
  NoSocket = NoSocket
  NoDevice = NoDevice
  WireMessages <- MCMessages
  MaxMessageBytes = 22
  TagMax = 2
  MaxFrames = 2
  Subs = {"a", "b"}
  Entries <- MCEntries
  Requests <- MCRequests
  Depth = 2
  MaxTicks = 1
  StateIfs = {1, 2}
  OnSubs <- MCOnSubs
  Covers <- MCCovers
  Beating = {1}
  ListenDepth = 2
  MaxChanges = 3
  PushLeaves = {"x", "y"}
  QueueDepth = 1
  EventDepth = 2
  InitialWait = 1
  MaxWait = 3
  MaxMoves = 3
  MaxBreaks = 2
  NcSessions = {"s1", "s2"}
  OutDepth = 2
  EventDepthNc = 2
  SubCap = 2
  MaxMutators = 2
  MaxSubIds = 2
  MaxNcMoves = 3
  SshConns = {"c1", "c2"}
  MaxChannels = 2
  Phases = {0, 1}
  Cycle = 2
  KeepAlive = 1
  Misses = 2
  MaxNow = 8
  FrameBytes = {"]", ">", "\n", "#"}
  LongestMessage = 3
  MaxBytes = 2
  MaxMessages = 2
SPECIFICATION MCSpec
INVARIANTS
  SyslogKept
  GnmiKept
  NetconfKept
  NetconfServersKept
  FramesReadBack
\* Requests, moves, dials and clocks are bounded, and everything may be closed.
CHECK_DEADLOCK FALSE
