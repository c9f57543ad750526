SPECIFICATION Spec
CONSTANTS
    Lines = {l}
    Bytes = {b}
    Payloads <- MCPayloads
    PartHeaders = {1, 2, 3}
    Tails <- MCTails
    MaxBody = 8
    MaxDepth = 4
INVARIANTS StoredIsSent
CHECK_DEADLOCK FALSE
