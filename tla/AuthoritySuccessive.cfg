SPECIFICATION Spec
CONSTANTS
    Command = {c1, c2}
    Hash = {h1}
    Wake = {}
    Side = {s1}
    Landing = "leased"
    MaxCrashes = 0
    ExpectedVersion <- Successive
    Entity = {e1}
    EntityOf <- MCEntityOf
    NoCommand = NoCommand
    NoHash = NoHash
    e1 = e1
    c2 = c2
INVARIANTS
    CommittedIsApplied
    SuccessRepliesAgree
    AtMostOnceUnlessStray
    CompleteIsProjected
PROPERTIES
    ImplementsStoreUnlessStray
