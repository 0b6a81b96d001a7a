\* Two threads, five messages on a ring of four bytes and two messages; type
\* names with and without a collision.  Three instances with two modules.
SPECIFICATION PlatformSpec
CONSTANTS
  Sizes <- TwoThreads
  BufferCapacity = 2
  BufferSize = 4
  Names <- TwoNames
  Hashes <- AllHashes
  TypeIds = 2
  GroupIds = 2
  SequenceIds = 4
  None = None
  NumInstances = 3
  NumModules = 2
INVARIANTS
  MessagesIntact
PROPERTIES
  LifecycleOrder
  PlatformFinishes
\* Every message is delivered and every engine is finalized in the end.
CHECK_DEADLOCK FALSE
