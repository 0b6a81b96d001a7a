\* Two requests on two device state slots, late results: fused speculative
\* decoding with one preemption, and autoregressive decoding without.
SPECIFICATION Spec
CONSTANTS
  Request = {r1, r2}
  Modes <- BothRunners
  TailSlots = 2
  GenLimit = 3
  Depth = 2
  MaxSteps = 4
  MaxProfiles = 0
  Faults = {"timeout"}
INVARIANTS
  LanesConsistent
  SlotsExact
  NoLaneFails
