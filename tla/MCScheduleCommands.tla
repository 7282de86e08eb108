------------------------- MODULE MCScheduleCommands -------------------------
(***************************************************************************)
(* Instances of ScheduleCommands: two sessions with a speaker in common,   *)
(* two cells.  Both sessions in one cell clash; what other cells would add *)
(* to the analysis is the walk of Conflicts, which is proved.              *)
(***************************************************************************)
EXTENDS ScheduleCommands, TLC

CONSTANTS RoomOne, RoomTwo, Pat

MCSessions == {1, 2}
MCSpeakers == [s \in MCSessions |-> {Pat}]
CellA == [room |-> RoomOne, start |-> 0, end |-> 30]
CellC == [room |-> RoomTwo, start |-> 30, end |-> 45]
MCCells == {CellA, CellC}

Unplaced ==
    [state |-> "accepted", public |-> TRUE, length |-> 30, cell |-> NoCell, slotPub |-> 0]
At(cell, state, pub) ==
    [state |-> state, public |-> TRUE, length |-> 30, cell |-> cell, slotPub |-> pub]

\* A placed agenda, ready to be published.
PlacedAgenda ==
    [version |-> 2, pub |-> 0,
     session |-> <<At(CellA, "scheduled", 0), At(CellC, "scheduled", 0)>>]
\* Published before publications were kept.
MixedAgenda ==
    [version |-> 1, pub |-> 1, session |-> <<At(CellA, "published", 1), Unplaced>>]

\* A single session, for the liveness run.
SoloSessions == {1}
SoloSpeakers == [s \in SoloSessions |-> {Pat}]
SoloCells == {CellA}
SoloPlaced ==
    {[version |-> 1, pub |-> 0, session |-> <<At(CellA, "scheduled", 0)>>]}
PlacedOnly == {PlacedAgenda}
PlacedOrMixed == {PlacedAgenda, MixedAgenda}
CommandSymmetry == Permutations(Commands)
=============================================================================
