SPECIFICATION Spec
CONSTANTS
  w1 = w1
  w2 = w2
  Workers = {w1}
  BackgroundConcurrency = 1
  MaxRetries = 1
  ExtraAttempts = 1
  Paths = {"a"}
  Scopes = {}
  MergeMaxPaths = 2
  Messages <- DelayMessages
  EnqueueDelays = {0, 1}
  RetryDelays = {1}
  Jitters = {0}
  Outcomes = {"success", "contended", "rate_limited", "error"}
  BudgetLevels = {"ok"}
  HostLoads = {FALSE}
  Installations = {}
  InstLimit = 1
  ProcessingTimeout = 1
  MaxAge = 1
  MaxDeferAge = 1
  AttemptFreeAge = 1
  MaxStarveAge = 1
  TrickleAge = 1
  DrainAge = 1
  MaxLiveAge = 1
  MaxLiveRunnable = 1
  MaxBacklogPending = 1
  MaxMaintenancePending = 1
  MaxReleasePerSweep = 1
  StartupMinJobs = 2
  BacklogPer = 1
  FreshPer = 1
  MaxSends = 2
  MaxFaults = 0
INVARIANTS DelayHonoured
