SPECIFICATION FairSpec
CONSTANTS
    Text = {t1, t2}
    MaxChanges = 3
    MaxCommands = 2
    MaxFaults = 2
    MaxWebhooks = 2
INVARIANTS
    TypeOK
    CommittedMatches
PROPERTIES
    EditsConverge
CHECK_DEADLOCK FALSE
