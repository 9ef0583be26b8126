CONSTANTS
 WaitScripts = {"cpu", "disk", "vhost", "fileVsNbd", "matrix", "qemuDisk", "startup", "workspace", "hotpool", "stargz"}
 Plans <- Plan
SPECIFICATION WaitSpec
INVARIANTS RowIsComplete ExitSeenIsTrue 
PROPERTIES Terminates
