SPECIFICATION Spec
CONSTANTS
  Events = {1, 2, 3}
  Notices = {4}
  Key <- Keys
  NoKey = 0
  Noise = {2, 3}
  Enrollments = {1, 2}
  Scenes <- Restarts
  Cap = 1
  Batch = 2
  PendingTTL = 1
  FailureTTL = 2
  MaxAttempts = 2
CHECK_DEADLOCK FALSE
INVARIANT DurablyAccepted
