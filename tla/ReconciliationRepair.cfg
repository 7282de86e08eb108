SPECIFICATION Spec
CONSTANTS
    Text = {t1, t2}
    MaxChanges = 3
    MaxCommands = 1
    MaxFaults = 1
    MaxWebhooks = 2
INVARIANTS
    CommittedConverges
CHECK_DEADLOCK FALSE
