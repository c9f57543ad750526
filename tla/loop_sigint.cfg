SPECIFICATION FairSpec
CONSTANTS
    Clients = {c1, c2}
    NumListeners = 1
    MAX_CLIENTS = 2
    NumFds = 2
    Requests <- PageRequests
    Outcomes <- PageOutcomes
    MaxSegments = 1
    ResponseLen = 1
    Window = 1
PROPERTIES SigintExits
CHECK_DEADLOCK FALSE
