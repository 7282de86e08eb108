SPECIFICATION FairSpec
CONSTANTS
    Stores = {s1, s2}
    Readers = {r1, r2}
    Cleaners = {k1}
    None = None
    maxUploadAttempts = 2
    TerminalInterval = 1
INVARIANTS
    TypeOK
    RowsAgree
    AnsweredIsStored
PROPERTIES
    EveryFileSettles
    ObjectsAreReclaimed
CHECK_DEADLOCK FALSE
