----------------------------- MODULE Conflicts -----------------------------
(***************************************************************************)
(* The conflict analysis of packages/domain/src/conflicts.ts.  An agenda   *)
(* is here the function placed from the scheduled sessions to the cell     *)
(* (room, start, end) each one occupies.  The code sorts the sessions of a *)
(* room, or of a person, by start and walks forward from each of them,     *)
(* breaking off at the first one that starts too late; the definitions     *)
(* follow that walk.  Clash is what the walk is meant to find.             *)
(*                                                                         *)
(* Capacity and readiness warnings compare two stored numbers and are left *)
(* out.                                                                    *)
(***************************************************************************)
EXTENDS Integers

CONSTANTS
    Sessions,       \* stable session IDs, as numbers: they are compared
    Cells,          \* the placements an organizer may ask for
    Speakers,       \* Speakers[s]: the people a session involves
    Buffer          \* transitionBufferMinutes

ASSUME SessionsAssumption == Sessions \subseteq Nat

ASSUME CellsAssumption ==
    \A c \in Cells : c.start \in Int /\ c.end \in Int /\ c.start < c.end

ASSUME BufferAssumption == Buffer \in Nat

(***************************************************************************)
(* The order of chronologicalSessions: by start, then by ID.               *)
(***************************************************************************)
Before(placed, s, t) ==
    \/ placed[s].start < placed[t].start
    \/ placed[s].start = placed[t].start /\ s < t

(***************************************************************************)
(* The walk through the sessions of a group (one room's or one person's)   *)
(* from left reaches right when nothing up to and including right starts   *)
(* at or after the horizon, where the loop breaks.                         *)
(***************************************************************************)
Reaches(placed, group, left, right, horizon) ==
    /\ Before(placed, left, right)
    /\ \A mid \in group :
          /\ Before(placed, left, mid)
          /\ mid = right \/ Before(placed, mid, right)
          => placed[mid].start < horizon

RoomSessions(placed, room) == {s \in DOMAIN placed : placed[s].room = room}

PersonSessions(placed, person) == {s \in DOMAIN placed : person \in Speakers[s]}

Pairs(placed) == (DOMAIN placed) \X (DOMAIN placed)

RoomOverlaps(placed) ==
    {p \in Pairs(placed) :
        /\ placed[p[1]].room = placed[p[2]].room
        /\ Reaches(placed, RoomSessions(placed, placed[p[1]].room),
                   p[1], p[2], placed[p[1]].end)}

(***************************************************************************)
(* The participant loop goes on for the transition buffer after the end of *)
(* left: what it meets before the end is a hard conflict, what it meets    *)
(* after it a soft warning.                                                *)
(***************************************************************************)
Met(placed) ==
    {p \in Pairs(placed) :
        \E person \in Speakers[p[1]] \cap Speakers[p[2]] :
           Reaches(placed, PersonSessions(placed, person),
                   p[1], p[2], placed[p[1]].end + Buffer)}

ParticipantOverlaps(placed) ==
    {p \in Met(placed) : placed[p[2]].start < placed[p[1]].end}

TransitionWarnings(placed) ==
    {p \in Met(placed) : placed[p[2]].start >= placed[p[1]].end}

HardConflicts(placed) == RoomOverlaps(placed) \cup ParticipantOverlaps(placed)

(***************************************************************************)
(* The reference: two different sessions that overlap in time and share    *)
(* the room or a person.                                                   *)
(***************************************************************************)
Overlap(placed, s, t) ==
    placed[s].start < placed[t].end /\ placed[t].start < placed[s].end

SharesPerson(s, t) == Speakers[s] \cap Speakers[t] # {}

Clash(placed, s, t) ==
    /\ s # t
    /\ Overlap(placed, s, t)
    /\ placed[s].room = placed[t].room \/ SharesPerson(s, t)
=============================================================================
