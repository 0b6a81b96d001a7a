\* Depth-2 pipeline on a pool that two requests overflow: chunked prefill,
\* prefix hits, preemption, aborts, a stop string, timeouts.
SPECIFICATION Spec
CONSTANTS
  NumBlocks = 4
  BlockSize = 2
  None = None
  Prompt <- SharedPrompts
  MaxNew <- SharedNew
  Sampled = {}
  Vocab = 3
  Eos = 2
  MaxSeqLen = 8
  MaxRunning = 2
  TokenBudget = 4
  LongPrefill = 2
  PrefixCache = TRUE
  NumSpec = 0
  SpecChunkPrefill = TRUE
  Homogeneous = FALSE
  Modes <- BothModes
  Aborts = {1, 2, 3}
  Stops = {1}
  Timeouts = TRUE
INVARIANTS
  Consistent
  OutputGreedy
  StepsSound
