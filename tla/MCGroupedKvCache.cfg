\* Three prompts in two partitions that one long prompt and a half fill: hits,
\* rings that come round, preemption, aborts, timeouts, with one and two steps
\* in flight.
SPECIFICATION Spec
CONSTANTS
  Specs <- EagleGroups
  NumParts = 2
  None = None
  Prompt <- Prompts3
  Chunk = 2
  Tile = 3
  MaxRunning = 2
  Modes = {TRUE, FALSE}
  Aborts = {1, 2, 3}
  Timeouts = TRUE
INVARIANTS
  PoolsConsistent
  IndexSound
  ContextIntact
PROPERTY
  EveryPromptServed
