SPECIFICATION Spec
CONSTANTS
  e1 = e1
  e2 = e2
  k1 = k1
  c1 = c1
  w1 = w1
  w2 = w2
  Events = {e1}
  Keys = {k1}
  KeyOf <- OneKey
  Consumers = {c1}
  Workers = {w1, w2}
  MaxAttempts = 2
  Limit = 1
  None = None
  MaxReplays = 2
  MaxCrashes = 1
  MaxPauses = 1
  MaxDeploys = 1
  SerialProducers = FALSE
SYMMETRY WorkerSymmetry
INVARIANTS EffectExactlyOnce
PROPERTIES ImplementsEffectOnce
CHECK_DEADLOCK FALSE
