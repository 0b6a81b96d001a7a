\* Liveness with every failure the engine handles, worker death included.
SPECIFICATION Spec
CONSTANTS
  Request = {r1}
  MaxInFlight = 2
  MaxTokens = 2
  MaxPreempts = 1
  Faults = {"timeout", "flush_timeout", "worker_error", "worker_death"}
PROPERTIES
  ClientAnswered
  WorkerForgets
