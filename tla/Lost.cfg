SPECIFICATION Spec
CONSTANTS
  P = P
  Q = Q
  a = a
  b = b
  s = s
  Procs = {P, Q}
  Loops = {a, b}
  Senders = {s}
  Homes <- OneProcess
  Messages <- Keyed
  Outcomes = {"success"}
  BackgroundConcurrency = 1
  MaxRetries = 1
  ExtraAttempts = 0
  Timeout = 1
  MaxSends = 2
  MaxFaults = 0
  Installations = {}
  Paths = {}
  Scopes = {}
  MergeMaxPaths = 1
INVARIANTS NothingLost
