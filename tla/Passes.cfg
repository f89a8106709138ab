SPECIFICATION Spec
CONSTANTS
  a = a
  b = b
  None = None
  Procs = {P1, P2}
  Passes = {a, b}
  Tokens = {t1, t2, t3}
  Kinds <- Casts
  Ttl = 3
  Interval = 1
  SingleInstance = FALSE
  ForceRelease = TRUE
  MaxFaults = 1
SYMMETRY Symmetry
INVARIANTS TypeOK Exclusive RegistryExact
PROPERTIES LossHasCause 
