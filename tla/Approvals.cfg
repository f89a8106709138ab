SPECIFICATION Spec
CONSTANTS
  d1 = d1
  d2 = d2
  p1 = p1
  p2 = p2
  Deciders = {d1, d2}
  Passes = {p1, p2}
  Scenes <- AllScenes
  Expiry = 2
  MaxHead = 2
  MaxStaged <- Stagings
  MaxEvents = 1
  MaxFaults = 1
CHECK_DEADLOCK FALSE
INVARIANTS TypeOK OneOwner AtMostOnce ReviewedHead 
PROPERTIES FinalDecision  
