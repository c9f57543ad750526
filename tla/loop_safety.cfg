SPECIFICATION Spec
CONSTANTS
    Clients = {c1, c2, c3}
    NumListeners = 1
    MAX_CLIENTS = 2
    NumFds = 3
    Requests <- PageRequests
    Outcomes <- PageOutcomes
    MaxSegments = 1
    ResponseLen = 2
    Window = 1
SYMMETRY Symmetry
INVARIANTS TypeOK SlotTable AnswerIntegrity PendingIsOwned
PROPERTIES SlotKeepsConnection ForgottenOnlyWhenFull NoStaleBits ClosedOnlyAnswered
CHECK_DEADLOCK FALSE
