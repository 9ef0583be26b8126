CONSTANTS
    Builds = {b1, b2}
    Envs = {e1}
    Runs = {r1, r2}
    Nodes = {n1, n2}
    Parts = 1
    MaxCrashes = 1
    None = None
SPECIFICATION Spec
SYMMETRY Symmetry
CHECK_DEADLOCK FALSE
INVARIANTS BaseImagesAreWhole StartsUseFreshBase EnvDescendsFromBase AckedRunsKept 
