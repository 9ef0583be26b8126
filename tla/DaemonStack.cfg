CONSTANTS
 StackScripts = {"dockerNbd", "dockerLayers", "stargzLayers", "stargzIops", "coldImage", "sysboxFirst", "sysboxIops", "overlaybdReal"}
 Layout <- Layouts
 MaxCrashes = 2
SPECIFICATION StackSpec
INVARIANTS FoundationsStay 
 
CHECK_DEADLOCK FALSE
