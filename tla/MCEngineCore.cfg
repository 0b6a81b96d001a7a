\* Async scheduling, two requests, late and failed steps, one preemption;
\* cleanup commands are always answered.
SPECIFICATION Spec
CONSTANTS
  Request = {r1, r2}
  MaxInFlight = 2
  MaxTokens = 2
  MaxPreempts = 1
  Faults = {"timeout", "worker_error"}
SYMMETRY Symmetry
INVARIANTS
  TypeOK
  LiveResultMatches
  WorkerCacheExact
PROPERTY
  RestartAfterDrain
