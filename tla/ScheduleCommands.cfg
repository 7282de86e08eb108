SPECIFICATION Spec
CONSTANTS
    Commands = {c1, c2}
    NoCommand = NoCommand
    Alarm = Alarm
    NoCell = NoCell
    RoomOne = RoomOne
    RoomTwo = RoomTwo
    Pat = Pat
    Sessions <- MCSessions
    Cells <- MCCells
    Speakers <- MCSpeakers
    Buffer = 15
    InitialAgendas <- PlacedOrMixed
    InitialStatuses = {"published"}
    Refusals = TRUE
    MaxEdits = 1
    MaxCrashes = 1
SYMMETRY CommandSymmetry
INVARIANTS
    TypeOK
    OneUnfinished
    PublicationsAreSound
    LatestIsCurrent
    CommittedIsWhole
PROPERTIES
    ImplementsAtomicAgenda
CHECK_DEADLOCK FALSE
