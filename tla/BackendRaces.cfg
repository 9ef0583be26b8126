CONSTANTS
    Nodes = {n1}
    Volumes = {v1}
    SessionIds = {s1}
    SnapshotIds = {p1}
    Handlers = {h1, h2}
    NumChunks = 2
    ChunkSize = 2
    BatchSize = 1
    MaxFaults = 1
    Bytes = {0, 1}
    Requests <- Overlapping
    None = None
    Absent = Absent
    Unknown = Unknown
SPECIFICATION Spec
CHECK_DEADLOCK FALSE
INVARIANTS SnapshotExact AckedWritesVisible
PROPERTIES HandlersReturn
