SPECIFICATION Spec
CONSTANTS
    Confs <- MCStoreConfs
    Requests <- MCStoreRequests
    Paths <- MCStorePaths
    Dirs <- MCStoreDirs
    Names = {"a", "b"}
    Pieces <- MCPieces
    Unsaid = Unsaid
    Contents = {"c1", "c2"}
    NoFile = NoFile
PROPERTIES ImplementsStore
CHECK_DEADLOCK FALSE
