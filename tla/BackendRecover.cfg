CONSTANTS
    Nodes = {n1}
    Volumes = {v1, v2}
    SessionIds = {s1, s2}
    SnapshotIds = {p1, p2}
    Handlers = {h1}
    NumChunks = 1
    ChunkSize = 1
    BatchSize = 1
    MaxFaults = 2
    Bytes = {0, 1}
    Requests <- OnesOnly
    None = None
    Absent = Absent
    Unknown = Unknown
SPECIFICATION Safe
SYMMETRY Permute
CHECK_DEADLOCK FALSE
INVARIANTS DurableClosure NoSilentZero SnapshotExact AckedWritesVisible
PROPERTIES ImplementsSnapshotStore
