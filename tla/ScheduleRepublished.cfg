SPECIFICATION Spec
CONSTANTS
    Commands = {c1, c2, c3}
    NoCommand = NoCommand
    Alarm = Alarm
    NoCell = NoCell
    RoomOne = RoomOne
    RoomTwo = RoomTwo
    Pat = Pat
    Sessions <- MCSessions
    Cells <- MCCells
    Speakers <- MCSpeakers
    Buffer = 15
    InitialAgendas <- PlacedOnly
    InitialStatuses = {"published"}
    Refusals = FALSE
    MaxEdits = 0
    MaxCrashes = 0
SYMMETRY CommandSymmetry
INVARIANTS
    MovedSessionsArePublished
CHECK_DEADLOCK FALSE
