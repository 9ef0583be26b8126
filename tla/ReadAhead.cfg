CONSTANTS
    Conns = {c1, c2}
    Size = 4
    ChunkSize = 2
    ReadAheadBytes = 6
    Values = {x, y}
    MaxLength = 1
    Failures = TRUE
    Bypass = TRUE
SPECIFICATION Spec
SYMMETRY Permute
INVARIANTS FetchFits 
