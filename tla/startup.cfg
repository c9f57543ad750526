SPECIFICATION MCSpec
CONSTANTS
    Tokens <- MCTokens
    NumberOf <- MCNumberOf
    HostOf <- MCHostOf
    Directories <- MCDirectories
    Files <- MCFiles
    CurDir = "cwd"
    Interpreters = {"/python", "/bash"}
    LocalHosts <- LocalOnly
    TakenSets <- MCTaken
    NotWritten = NotWritten
INVARIANTS TypeOK CutsAreServers ReadAsWritten MeansItsWords AcceptsWhatIsRight Configured ExitsOnlyForAddress
PROPERTIES Decides
CHECK_DEADLOCK FALSE
