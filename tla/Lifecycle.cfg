SPECIFICATION Spec
SYMMETRY Symmetry
VIEW OneLaneView
CONSTANTS
  w1 = w1
  w2 = w2
  Workers = {w1, w2}
  BackgroundConcurrency = 1
  MaxRetries = 2
  ExtraAttempts = 1
  Paths = {"a"}
  Scopes = {}
  MergeMaxPaths = 2
  Messages <- LifecycleMessages
  EnqueueDelays = {0}
  RetryDelays = {1}
  Jitters = {1}
  Outcomes = {"success", "contended", "rate_limited", "error"}
  BudgetLevels = {"ok"}
  HostLoads = {FALSE}
  Installations = {}
  InstLimit = 1
  ProcessingTimeout = 1
  MaxAge = 1
  MaxDeferAge = 1
  AttemptFreeAge = 1
  MaxStarveAge = 1
  TrickleAge = 1
  DrainAge = 1
  MaxLiveAge = 1
  MaxLiveRunnable = 1
  MaxBacklogPending = 1
  MaxMaintenancePending = 1
  MaxReleasePerSweep = 1
  StartupMinJobs = 2
  BacklogPer = 1
  FreshPer = 1
  MaxSends = 3
  MaxFaults = 2
INVARIANTS OwnedRows RetryBudget KeyExclusion 
PROPERTIES KeepsPromise
