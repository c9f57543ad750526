SPECIFICATION FairSpec
CONSTANTS
    WaitLimit = 3
    ReadLimit = 6
    MaxLag = 2
    Capacity = 3
    MaxOutput = 4
    Leftover = TRUE
    Jumps = 1
    ClockMod = 24
    MaxElapsed = 14
INVARIANTS TypeOK WholeOutput SmallOutputAnswered CallIsBounded
PROPERTIES KilledOnlyLate Returns
CHECK_DEADLOCK FALSE
