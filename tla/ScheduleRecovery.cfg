SPECIFICATION FairSpec
CONSTANTS
    Commands = {c1, c2}
    NoCommand = NoCommand
    Alarm = Alarm
    NoCell = NoCell
    RoomOne = RoomOne
    RoomTwo = RoomTwo
    Pat = Pat
    Sessions <- SoloSessions
    Cells <- SoloCells
    Speakers <- SoloSpeakers
    Buffer = 15
    InitialAgendas <- SoloPlaced
    InitialStatuses = {"other"}
    Refusals = FALSE
    MaxEdits = 1
    MaxCrashes = 1
PROPERTIES
    PendingIsFinished
CHECK_DEADLOCK FALSE
