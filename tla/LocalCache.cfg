CONSTANTS
 a = a
 c = c
 Callers = {r1, r2}
 Chunks = {a, c}
 Size <- MCSize
 MaxSize = 2
 MemoryMax = 2
 MaxCrashes = 1
SPECIFICATION Spec
INVARIANTS MemoryConsistent DiskBounded HitsAreWhole
PROPERTIES CallsReturn
