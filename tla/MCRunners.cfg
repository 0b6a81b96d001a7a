\* DeepSeek: three requests, two ranks of two capacity slots, three tile layouts.
\* Qwen: the same requests on three rows and four pages of two tokens.
SPECIFICATION RunnersSpec
CONSTANTS
  r1 = r1
  r2 = r2
  r3 = r3
  Arrivals <- MCArrivals
  NoRequest = NoRequest
  Prompt <- MCPrompt
  MaxNew <- MCMaxNew
  Layouts <- MCLayouts
  NumRanks = 2
  Slots = 2
  BlockSize = 2
  Ratio = 2
  StateBlock = 2
  Window = 3
  PrefillTile = 2
  ChunkLimit = 2
  MaxSeqLen = 7
  QArrivals <- MCArrivals
  QPrompt <- MCQPrompt
  QNew <- MCQNew
  QPages = 4
  QPageSize = 2
  KernelBatch = 3
  QChunk = 2
  Nobody = Nobody
INVARIANTS
  RunnerExact
  QwenOutputExact
PROPERTIES
  RowsStayHome
