CONSTANTS
    Nodes = {n1}
    Volumes = {v1}
    SessionIds = {s1}
    SnapshotIds = {p1}
    Handlers = {h1, h2}
    NumChunks = 1
    ChunkSize = 1
    BatchSize = 1
    MaxFaults = 0
    Bytes = {0, 1}
    Requests <- AllWrites
    None = None
    Absent = Absent
    Unknown = Unknown
SPECIFICATION Safe
CHECK_DEADLOCK FALSE
INVARIANTS AckedWritesKept
