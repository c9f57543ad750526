SPECIFICATION Spec
CONSTANTS
    Confs <- MCDefaultConfs
    Requests <- MCRequests
    Paths <- MCPaths
    Dirs <- MCDirs
    Contents = {"c1"}
    NoFile = NoFile
PROPERTIES DeletesAreListed
CHECK_DEADLOCK FALSE
