\* The lanes implement a FIFO worker: failing steps, a profile barrier, shutdown.
SPECIFICATION Spec
CONSTANTS
  Request = {r1}
  Modes <- FusedRunner
  TailSlots = 1
  GenLimit = 3
  Depth = 2
  MaxSteps = 5
  MaxProfiles = 1
  Faults = {"step_error", "timeout"}
PROPERTY
  ImplementsFifo
