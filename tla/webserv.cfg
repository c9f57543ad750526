SPECIFICATION MCSpec
CONSTANTS
    Clients = {c1, c2}
    NumListeners = 1
    MAX_CLIENTS = 2
    NumFds = 4
    Requests <- MCRequests
    Outcomes <- MCOutcomes
    RequestOf <- MCRequestOf
    MaxSegments = 1
    ResponseLen = 1
    Window = 1
    conf <- MCConf
    Paths <- MCPaths
    Dirs <- MCDirs
    Contents = {"new"}
    NoFile = NoFile
SYMMETRY Symmetry
INVARIANTS WebTypeOK ReadsAreFresh Heeded DiesForAReason
CHECK_DEADLOCK FALSE
