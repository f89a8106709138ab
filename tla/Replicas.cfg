SPECIFICATION Spec
CONSTANTS
  P = P
  Q = Q
  a = a
  b = b
  s = s
  Procs = {P, Q}
  Loops = {a, b}
  Senders = {s}
  Homes <- AnyDeployment
  Messages <- Both
  Outcomes = {"success", "deferred", "contended", "rate_limited", "error"}
  BackgroundConcurrency = 1
  MaxRetries = 1
  ExtraAttempts = 1
  Timeout = 1
  MaxSends = 2
  MaxFaults = 1
  Installations = {}
  Paths = {}
  Scopes = {}
  MergeMaxPaths = 1
INVARIANTS TypeOK SlotAccounting LossNeedsRace 
PROPERTIES TakenForCause
