SPECIFICATION FairSpec
CONSTANTS
    Producer = {p1}
    Consumer = {c1}
    Hook = {h1, h2}
    Event <- TwoEvents
    KindOf <- TwoKinds
    TimeOf <- TwoTimes
    Payload = {text}
    FirstConfig = "allowlist"
    LaterConfigs = {"sink", "closed"}
    MaxAttempts = 2
    MaxRetries = 1
    MaxCopies = 2
    MaxReplays = 1
    MaxEnds = 1
    MaxDeploys = 1
INVARIANTS
    NotStranded
    SuppressionIsStrongest
PROPERTIES
    EveryMessageSettles
CHECK_DEADLOCK FALSE
