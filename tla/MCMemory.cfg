\* Seven source checkpoints, two crashes, one change by the operator; two prepack
\* commands and a starting server over two shards; nine deployments to stage; thirteen
\* devices to allocate caches on, with two allocations refused without need.
\* Two requests, three blocks and two prefixes on the pool: sharing, eviction of a
\* published block and two copies of one prefix all occur.
SPECIFICATION MemorySpec
CONSTANTS
    Sources <- MCSources
    Absent = Absent
    Torn = Torn
    Fp8Block = 2
    Mxfp4Group = 2
    MaxCrashes = 2
    MaxEdits = 1
    Packers = {p1, p2}
    NumShards = 2
    RankCounts = {1, 2}
    NoFile = NoFile
    MaxRedeploys = 1
    Cases <- MCCases
    TorchThreads = 8
    Deployments <- MCDeployments
    MaxRefusals = 2
    NumBlocks = 3
    Hash = {h1, h2}
    None = None
    Request = {r1, r2}
INVARIANTS
    ConversionSound
    SidecarIsFresh
    StagingSound
    PoolsSound
    TypeOK
    BlocksAccounted
    PagesSound
PROPERTIES
    WritesAreExclusive
    WeightsArrive
\* The commands end, and a server that has its weights is no longer modelled here.
CHECK_DEADLOCK FALSE
