SPECIFICATION Spec
CONSTANTS
    Confs <- MCDefaultConfs
    Requests <- MCRequests
    Paths <- MCPaths
    Dirs <- MCDirs
    Contents = {"c1"}
    NoFile = NoFile
INVARIANTS NamesAreServed
CHECK_DEADLOCK FALSE
