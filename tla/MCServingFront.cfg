\* Two replicas, four requests; two workers to profile, four profile requests,
\* one late acknowledgement, and recorders that may fail to start.
SPECIFICATION FrontSpec
CONSTANTS
  NumReplicas = 2
  Request = {"a", "b", "long", "empty"}
  PromptLen <- Prompts
  MaxNew <- News
  Streaming = {"a"}
  MaxSeqLen = 4
  None = None
  Core = {"w1", "w2"}
  MaxOps = 4
  MaxTimeouts = 1
  RecorderFailures = {TRUE}
INVARIANTS
  RequestsReleased
  WorkersAccounted
  StartedMeansRecording
PROPERTIES
  StopMergesSession
  FrontAnswers
\* A stopped engine and an idle profiler stay so.
CHECK_DEADLOCK FALSE
