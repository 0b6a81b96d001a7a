\* One speculative token, homogeneous phases, one sampled request, on a pool
\* that holds max_seq_len tokens of every running request.
SPECIFICATION Spec
CONSTANTS
  NumBlocks = 8
  BlockSize = 2
  None = None
  Prompt <- Prompts3
  MaxNew <- SpecNew
  Sampled = {1}
  Vocab = 3
  Eos = 2
  MaxSeqLen = 8
  MaxRunning = 2
  TokenBudget = 4
  LongPrefill = 2
  PrefixCache = TRUE
  NumSpec = 1
  SpecChunkPrefill = TRUE
  Homogeneous = TRUE
  Modes <- Pipelined
  Aborts = {2}
  Stops = {}
  Timeouts = FALSE
INVARIANTS
  OutputGreedy
  StepsSound
PROPERTY
  EveryRequestFinishes
