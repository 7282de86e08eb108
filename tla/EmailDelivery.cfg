SPECIFICATION Spec
CONSTANTS
    Producer = {p1, p2}
    Consumer = {c1, c2}
    Hook = {h1}
    Event <- OneEvent
    KindOf <- OneKind
    TimeOf <- OneTime
    Payload = {text, other}
    FirstConfig = "allowlist"
    LaterConfigs = {}
    MaxAttempts = 2
    MaxRetries = 2
    MaxCopies = 2
    MaxReplays = 1
    MaxEnds = 1
    MaxDeploys = 0
INVARIANTS
    TypeOK
    DurablePayload
    AttemptsAreFenced
    SentIsAccepted
    KnownIsSettled
SYMMETRY Alike
CHECK_DEADLOCK FALSE
