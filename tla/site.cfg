SPECIFICATION Spec
CONSTANTS
    Confs <- MCConfs
    Requests <- MCRequests
    Paths <- MCPaths
    Dirs <- MCDirs
    Contents = {"c1"}
    NoFile = NoFile
INVARIANTS TypeOK Answered Outlives
PROPERTIES ChangesAreListed
CHECK_DEADLOCK FALSE
