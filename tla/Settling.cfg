SPECIFICATION FairSpec
CONSTANTS
  w1 = w1
  w2 = w2
  Workers = {w1}
  BackgroundConcurrency = 1
  MaxRetries = 1
  ExtraAttempts = 0
  Paths = {"a"}
  Scopes = {}
  MergeMaxPaths = 2
  Messages <- SettlingMessages
  EnqueueDelays = {0}
  RetryDelays = {1}
  Jitters = {0}
  Outcomes = {"contended", "error"}
  BudgetLevels = {"ok"}
  HostLoads = {TRUE}
  Installations = {"i1"}
  InstLimit = 1
  ProcessingTimeout = 1
  MaxAge = 1
  MaxDeferAge = 1
  AttemptFreeAge = 1
  MaxStarveAge = 1
  TrickleAge = 1
  DrainAge = 1
  MaxLiveAge = 1
  MaxLiveRunnable = 1
  MaxBacklogPending = 1
  MaxMaintenancePending = 1
  MaxReleasePerSweep = 1
  StartupMinJobs = 2
  BacklogPer = 1
  FreshPer = 1
  MaxSends = 2
  MaxFaults = 1
PROPERTIES EveryJobSettles
