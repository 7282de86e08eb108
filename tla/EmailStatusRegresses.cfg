SPECIFICATION Spec
CONSTANTS
    Producer = {p1}
    Consumer = {c1}
    Hook = {h1, h2}
    Event <- TwoEvents
    KindOf <- TwoKinds
    TimeOf <- TwoTimes
    Payload = {text}
    FirstConfig = "allowlist"
    LaterConfigs = {}
    MaxAttempts = 2
    MaxRetries = 2
    MaxCopies = 2
    MaxReplays = 0
    MaxEnds = 0
    MaxDeploys = 0
PROPERTY SeverityNeverDrops
CHECK_DEADLOCK FALSE
