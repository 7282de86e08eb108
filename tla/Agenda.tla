------------------------------- MODULE Agenda -------------------------------
(***************************************************************************)
(* The agenda of an event and what each organizer command does to it:      *)
(* applyScheduleCommand of packages/domain/src/schedule.ts, a pure         *)
(* function of a snapshot and a command.                                   *)
(*                                                                         *)
(* A session has a lifecycle state, its Public flag, a duration, a cell    *)
(* (or NoCell) and the publication version of its slot.  Slot versions and *)
(* override reasons are left out, and so are the warnings a client has to  *)
(* acknowledge: a client that does not is refused, and nothing changes.    *)
(***************************************************************************)
EXTENDS Conflicts

CONSTANT NoCell

ASSUME NoCellAssumption == NoCell \notin Cells

States == {"accepted", "scheduled", "published", "canceled"}

SessionView == [state: States, public: BOOLEAN, length: Nat,
                cell: Cells \cup {NoCell}, slotPub: Nat]

Snapshots == [version: Nat, pub: Nat, session: [Sessions -> SessionView]]

\* The commands an organizer can send who has read the given version.
CommandsAt(version) ==
    [type: {"place", "reschedule"}, session: Sessions, cell: Cells, expected: {version}]
      \cup [type: {"unassign", "cancel"}, session: Sessions, expected: {version}]
      \cup [type: {"publish"}, expected: {version}]

HasSlot(view) == view.state \in {"scheduled", "published"}

\* A session without a slot has neither a place nor a publication.
Tidy(a) ==
    \A s \in Sessions :
       HasSlot(a.session[s]) \/ (a.session[s].cell = NoCell /\ a.session[s].slotPub = 0)

\* Mutant: the analysis forgets the sessions that are published.
PlacedDraft(a) == [s \in {t \in Sessions : a.session[t].state = "scheduled"} |-> a.session[s].cell]

\* What scheduledSessions hands to the conflict analysis.
Placed(a) == [s \in {t \in Sessions : HasSlot(a.session[t])} |-> a.session[s].cell]

\* assertValidScheduleSnapshot.
Valid(a) ==
    /\ a.pub <= a.version
    /\ \A s \in Sessions :
          LET view == a.session[s]
          IN  /\ HasSlot(view) <=> view.cell # NoCell
              /\ view.state = "scheduled" => view.slotPub = 0
              /\ view.state = "published" => view.slotPub = a.pub /\ a.pub # 0

(***************************************************************************)
(* Publication.  The preview refuses an event without a candidate, with a  *)
(* candidate that has no room and time, or with a hard conflict that       *)
(* involves one.                                                           *)
(***************************************************************************)
Candidates(a) ==
    {s \in Sessions : a.session[s].public /\ a.session[s].state # "canceled"}

CanPublish(a) ==
    /\ Candidates(a) # {}
    /\ \A s \in Candidates(a) : HasSlot(a.session[s])
    /\ \A pair \in HardConflicts(Placed(a)) :
          {pair[1], pair[2]} \cap Candidates(a) = {}

(***************************************************************************)
(* The cell decides the duration of what is put into it; a session that is *)
(* taken out of the agenda keeps the duration it had.                      *)
(***************************************************************************)
Taken(view, command) ==
    CASE command.type \in {"place", "reschedule"} ->
           [view EXCEPT !.state = "scheduled", !.cell = command.cell, !.slotPub = 0,
                        !.length = command.cell.end - command.cell.start]
      [] command.type = "unassign" ->
           [view EXCEPT !.state = "accepted", !.cell = NoCell, !.slotPub = 0]
      [] command.type = "cancel" ->
           [view EXCEPT !.state = "canceled", !.cell = NoCell, !.slotPub = 0]

\* The snapshot a command leads to.
Result(a, command) ==
    LET next == a.version + 1
        Republished(s) ==
            IF s \in Candidates(a) /\ HasSlot(a.session[s])
            THEN [a.session[s] EXCEPT !.state = "published", !.slotPub = next]
            ELSE a.session[s]
    IN  IF command.type = "publish"
        THEN [version |-> next, pub |-> next, session |-> [s \in Sessions |-> Republished(s)]]
        ELSE [a EXCEPT !.version = next,
                       !.session[command.session] = Taken(@, command)]

\* The lifecycle states a command may start from.
StartsFrom(command, state) ==
    CASE command.type = "place" -> state = "accepted"
      [] command.type \in {"reschedule", "unassign"} -> state \in {"scheduled", "published"}
      [] command.type = "cancel" -> state # "canceled"

\* applyScheduleCommand returns a result, and does not throw.
Accepts(a, command) ==
    /\ Valid(a)
    /\ command.expected = a.version
    /\ IF command.type = "publish"
       THEN CanPublish(a)
       ELSE StartsFrom(command, a.session[command.session].state)
    /\ Valid(Result(a, command))
    /\ command.type \in {"place", "reschedule"} =>
          \A pair \in HardConflicts(Placed(Result(a, command))) :
             command.session \notin {pair[1], pair[2]}

\* Sessions whose slot the command writes.
Rewritten(a, command) ==
    CASE command.type = "publish" -> {s \in Candidates(a) : HasSlot(a.session[s])}
      [] command.type \in {"place", "reschedule"} -> {command.session}
      [] OTHER -> {}

\* Sessions whose own record it writes.
Restated(a, command) ==
    {s \in Sessions :
       LET before == a.session[s]
           after == Result(a, command).session[s]
       IN  before.state # after.state \/ before.length # after.length}

\* changedPublicSession: the command takes a session out of the public agenda.
ChangesPublic(a, command) ==
    /\ command.type \in {"reschedule", "unassign", "cancel"}
    /\ a.session[command.session].state = "published"
    /\ a.session[command.session].slotPub > 0
=============================================================================
