\* What a cleanup command that times out does to the step results: its reply is
\* not known as abandoned, and is taken for the result of a step.
SPECIFICATION Spec
CONSTANTS
  Request = {r1, r2}
  MaxInFlight = 2
  MaxTokens = 1
  MaxPreempts = 1
  Faults = {"flush_timeout"}
SYMMETRY Symmetry
INVARIANT
  LiveResultMatches
