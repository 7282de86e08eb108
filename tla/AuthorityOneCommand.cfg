SPECIFICATION FairSpec
CONSTANTS
    Command = {c1}
    Hash = {h1}
    Wake = {w1}
    Side = {s1}
    Landing = "late"
    MaxCrashes = 1
    ExpectedVersion <- AllCreate
    Entity = {e1}
    EntityOf <- MCEntityOf
    NoCommand = NoCommand
    NoHash = NoHash
    e1 = e1
    c2 = c2
INVARIANTS
    TypeOK
    RecoveryIsScheduled
PROPERTIES
    EveryCallIsAnswered
    ResultIsProjected
    FailureIsAudited
    AcceptedWriteIsReconciled
