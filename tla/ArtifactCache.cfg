CONSTANTS
 Scripts = {"workspace", "startup", "stargz", "data", "tools", "iopsImages", "coldImages"}
 Configs = {1, 2}
 Parts = 2
 MaxFailures = 3
SPECIFICATION Spec
INVARIANTS  ForcedRebuildIsSafe ToolsAreOnePair
 
