CONSTANTS
    Conns = {c1, c2}
    Size = 4
    ChunkSize = 2
    ReadAheadBytes = 2
    Values = {x, y}
    MaxLength = 1
    Failures = FALSE
    Bypass = FALSE
SPECIFICATION Spec
SYMMETRY Permute
INVARIANTS ReadsRegular
