CONSTANTS
 Scripts = {"fcNbd", "matrix", "fileVsNbd"}
 Plans <- MCPlans
 NumDevices = 2
 MaxServers = 4
 MaxRuns = 3
SPECIFICATION Spec
INVARIANTS RowsAreOfTheirServer  
PROPERTIES OthersAreLeftAlone
CHECK_DEADLOCK FALSE
