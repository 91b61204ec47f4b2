CONSTANTS
  Leaves = {"k1"}
  Handlers = {"h1", "h2"}
  MaxTimers = 3
  RevertCap = 2
  FlapDevices = {"d1", "d2"}
  FlapIfs = {1, 2}
  Linkless = {2}
  Offsets = {1, 2}
  MaxLag = 1
  MaxRegistrations = 2
  MaxPosted = 1
  Devices = {d}
  MaxSubmits = 1
  MaxConcurrent = 1
  MaxRetained = 1
  MaxParticipants = 1
  MaxGen = 4
  MaxRequests = 2
  Selected <- MCSelected
  Expect <- MCExpect
  Hosts = {"x", "y"}
  Changers = {"g", "h"}
  MaxEdits = 2
  MaxSeconds = 2
  MaxToggles = 3
SPECIFICATION MCSpec
INVARIANTS
  SchedulesHeld
  PublishedZoneCurrent
PROPERTIES
  LinkTimersExact
  SilenceExact
  TimersProgress
\* The posts, the registrations, the generations, the edits and the toggles are bounded.
CHECK_DEADLOCK FALSE
