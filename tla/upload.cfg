SPECIFICATION Spec
CONSTANTS
    Lines = {l}
    Bytes = {b}
    Payloads <- MCPayloads
    PartHeaders = {1, 2, 3}
    Tails <- MCTails
    MaxBody = 8
    MaxDepth = 4
INVARIANTS TypeOK StoredWhole LimitHolds RefusedForBody
PROPERTIES ReplacedOnlyWhole
CHECK_DEADLOCK FALSE
