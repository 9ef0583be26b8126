CONSTANTS
    Sessions = {s1, s2}
    NumDevices = 1
    Handlers = {h1, h2}
    Runtimes = {"nbd", "nbdCommit", "mounted", "run", "save", "restore", "tty"}
    None = None
SPECIFICATION Spec
CHECK_DEADLOCK FALSE
INVARIANTS DevicesAccounted  CommitsAreQuiet CommittedRunsSucceeded DropsHaveCause RequestsGoOn
SYMMETRY Symmetry
