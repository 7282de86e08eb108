------------------------ MODULE ScheduleCommandsProofs ------------------------
(***************************************************************************)
(* Theorems about ScheduleCommands for every number of commands, sessions  *)
(* and cells, every agenda to start from, and every limit.                 *)
(***************************************************************************)
EXTENDS ScheduleCommands, ConflictsProofs, FiniteSetTheorems

-----------------------------------------------------------------------------
(* What applyScheduleCommand does to a snapshot *)

LEMMA CommandTypes ==
    ASSUME NEW n, NEW command \in CommandsAt(n)
    PROVE  /\ command.type \in {"place", "reschedule", "unassign", "cancel", "publish"}
           /\ command.type # "publish" => command.session \in Sessions
           /\ command.type \in {"place", "reschedule"} => command.cell \in Cells
           /\ command.expected = n
BY DEF CommandsAt

LEMMA TakenType ==
    ASSUME NEW view \in SessionView, NEW n, NEW command \in CommandsAt(n),
           command.type # "publish"
    PROVE  /\ Taken(view, command) \in SessionView
           /\ HasSlot(Taken(view, command)) \/
                 (Taken(view, command).cell = NoCell /\ Taken(view, command).slotPub = 0)
           /\ HasSlot(Taken(view, command)) => command.type \in {"place", "reschedule"}
           /\ Taken(view, command).state # "published"
           /\ Taken(view, command).public = view.public
<1>1. CASE command.type \in {"place", "reschedule"}
  <2> DEFINE after == [view EXCEPT !.state = "scheduled", !.cell = command.cell, !.slotPub = 0,
                                   !.length = command.cell.end - command.cell.start]
  <2>4. command.cell \in Cells
    BY <1>1, CommandTypes
  <2>5. command.cell.end - command.cell.start \in Nat
    BY <2>4, CellsAssumption
  <2>1. Taken(view, command) = after
    BY <1>1 DEF Taken
  <2>2. after \in SessionView
    BY <2>4, <2>5 DEF SessionView, States
  <2>3. after.state = "scheduled" /\ after.slotPub = 0 /\ after.public = view.public
    BY DEF SessionView
  <2> HIDE DEF after
  <2> QED
    BY <1>1, <2>1, <2>2, <2>3 DEF HasSlot
<1>2. CASE command.type = "unassign"
  <2> DEFINE after == [view EXCEPT !.state = "accepted", !.cell = NoCell, !.slotPub = 0]
  <2>1. Taken(view, command) = after
    BY <1>2 DEF Taken
  <2>2. after \in SessionView
    BY DEF SessionView, States
  <2>3. after.state = "accepted" /\ after.slotPub = 0 /\ after.public = view.public
    BY DEF SessionView
  <2>4. after.cell = NoCell
    BY DEF SessionView
  <2> HIDE DEF after
  <2> QED
    BY <2>1, <2>2, <2>3, <2>4 DEF HasSlot
<1>3. CASE command.type = "cancel"
  <2> DEFINE after == [view EXCEPT !.state = "canceled", !.cell = NoCell, !.slotPub = 0]
  <2>1. Taken(view, command) = after
    BY <1>3 DEF Taken
  <2>2. after \in SessionView
    BY DEF SessionView, States
  <2>3. after.state = "canceled" /\ after.slotPub = 0 /\ after.public = view.public
    BY DEF SessionView
  <2>4. after.cell = NoCell
    BY DEF SessionView
  <2> HIDE DEF after
  <2> QED
    BY <2>1, <2>2, <2>3, <2>4 DEF HasSlot
<1> QED
  BY <1>1, <1>2, <1>3, CommandTypes

\* The view of a session after the command.
Viewed(a, command, s) ==
    IF command.type = "publish"
    THEN IF s \in Candidates(a) /\ HasSlot(a.session[s])
         THEN [a.session[s] EXCEPT !.state = "published", !.slotPub = a.version + 1]
         ELSE a.session[s]
    ELSE IF s = command.session THEN Taken(a.session[s], command) ELSE a.session[s]

LEMMA ResultFields ==
    ASSUME NEW a \in Snapshots, NEW n, NEW command \in CommandsAt(n)
    PROVE  /\ Result(a, command).version = a.version + 1
           /\ Result(a, command).pub = IF command.type = "publish" THEN a.version + 1 ELSE a.pub
           /\ \A s \in Sessions : Result(a, command).session[s] = Viewed(a, command, s)
           /\ Result(a, command) \in Snapshots
<1>0. a.version \in Nat /\ a.version + 1 \in Nat /\ a.pub \in Nat
      /\ a.session \in [Sessions -> SessionView]
  BY DEF Snapshots
<1>1. CASE command.type = "publish"
  <2> DEFINE views == [s \in Sessions |->
                        IF s \in Candidates(a) /\ HasSlot(a.session[s])
                        THEN [a.session[s] EXCEPT !.state = "published", !.slotPub = a.version + 1]
                        ELSE a.session[s]]
  <2>1. Result(a, command) = [version |-> a.version + 1, pub |-> a.version + 1, session |-> views]
    BY <1>1 DEF Result
  <2>2. ASSUME NEW s \in Sessions
        PROVE  [a.session[s] EXCEPT !.state = "published", !.slotPub = a.version + 1] \in SessionView
    BY <1>0 DEF SessionView, States
  <2>3. views \in [Sessions -> SessionView]
    BY <1>0, <2>2
  <2>4. \A s \in Sessions : views[s] = Viewed(a, command, s)
    BY <1>1 DEF Viewed
  <2> HIDE DEF views
  <2> QED
    BY <1>0, <1>1, <2>1, <2>3, <2>4 DEF Snapshots
<1>2. CASE command.type # "publish"
  <2> DEFINE t == command.session
             views == [a.session EXCEPT ![t] = Taken(a.session[t], command)]
  <2>1. t \in Sessions /\ a.session[t] \in SessionView
    BY <1>0, <1>2, CommandTypes
  <2>2. Result(a, command) = [a EXCEPT !.version = a.version + 1, !.session = views]
    BY <1>2 DEF Result
  <2>3. Taken(a.session[t], command) \in SessionView
    BY <1>2, <2>1, TakenType
  <2>4. views \in [Sessions -> SessionView]
    BY <1>0, <2>3
  <2>5. \A s \in Sessions : views[s] = Viewed(a, command, s)
    BY <1>0, <1>2 DEF Viewed
  <2> HIDE DEF views
  <2> QED
    BY <1>0, <1>2, <2>2, <2>4, <2>5 DEF Snapshots
<1> QED
  BY <1>1, <1>2

LEMMA ResultTidy ==
    ASSUME NEW a \in Snapshots, NEW n, NEW command \in CommandsAt(n), Tidy(a)
    PROVE  Tidy(Result(a, command))
<1> SUFFICES ASSUME NEW s \in Sessions
             PROVE  LET view == Viewed(a, command, s)
                    IN  HasSlot(view) \/ (view.cell = NoCell /\ view.slotPub = 0)
  BY ResultFields DEF Tidy
<1>1. a.session[s] \in SessionView
  BY DEF Snapshots
<1>2. HasSlot(a.session[s]) \/ (a.session[s].cell = NoCell /\ a.session[s].slotPub = 0)
  BY DEF Tidy
<1>3. CASE command.type = "publish"
  BY <1>1, <1>2, <1>3 DEF Viewed, HasSlot, SessionView
<1>4. CASE command.type # "publish"
  BY <1>1, <1>2, <1>4, TakenType DEF Viewed
<1> QED
  BY <1>3, <1>4

\* What a command leaves alone: the operations of a receipt are all it changes.
LEMMA ResultLeaves ==
    ASSUME NEW a \in Snapshots, NEW n, NEW command \in CommandsAt(n), NEW s \in Sessions
    PROVE  LET before == a.session[s]
               after == Result(a, command).session[s]
           IN  /\ s \notin Restated(a, command) =>
                     after.state = before.state /\ after.length = before.length
               /\ s \notin Rewritten(a, command) /\ HasSlot(after) =>
                     HasSlot(before) /\ after.cell = before.cell /\ after.slotPub = before.slotPub
               /\ s \in Rewritten(a, command) => HasSlot(after)
               /\ after.public = before.public
<1> DEFINE before == a.session[s]
           after == Result(a, command).session[s]
<1>1. after = Viewed(a, command, s)
  BY ResultFields
<1>2. before \in SessionView
  BY DEF Snapshots
<1>3. s \notin Restated(a, command) => after.state = before.state /\ after.length = before.length
  BY DEF Restated
<1>4. CASE command.type = "publish"
  <2>1. s \in Rewritten(a, command) <=> s \in Candidates(a) /\ HasSlot(before)
    BY <1>4 DEF Rewritten
  <2>2. s \in Rewritten(a, command) =>
          after = [before EXCEPT !.state = "published", !.slotPub = a.version + 1]
    BY <1>1, <1>4, <2>1 DEF Viewed
  <2>3. s \notin Rewritten(a, command) => after = before
    BY <1>1, <1>4, <2>1 DEF Viewed
  <2> HIDE DEF after
  <2>4. s \in Rewritten(a, command) => HasSlot(after) /\ after.public = before.public
    BY <1>2, <2>2 DEF HasSlot, SessionView
  <2> HIDE DEF before
  <2> QED
    BY <1>3, <2>3, <2>4 DEF after, before
<1>5. CASE command.type # "publish"
  <2>1. s # command.session => after = before
    BY <1>1, <1>5 DEF Viewed
  <2>2. s = command.session => after = Taken(before, command)
    BY <1>1, <1>5 DEF Viewed
  <2>3. s = command.session => (HasSlot(after) <=> s \in Rewritten(a, command))
    <3>1. CASE command.type \in {"place", "reschedule"}
      BY <1>2, <2>2, <3>1 DEF Rewritten, Taken, HasSlot, SessionView
    <3>2. CASE command.type \in {"unassign", "cancel"}
      BY <1>2, <2>2, <3>2 DEF Rewritten, Taken, HasSlot, SessionView
    <3> QED
      BY <1>5, <3>1, <3>2, CommandTypes
  <2>4. s # command.session => s \notin Rewritten(a, command)
    BY <1>5 DEF Rewritten
  <2>5. after.public = before.public
    BY <1>2, <1>5, <2>1, <2>2, TakenType
  <2> HIDE DEF after, before
  <2> QED
    BY <1>3, <2>1, <2>3, <2>4, <2>5 DEF after, before
<1> QED
  BY <1>4, <1>5

-----------------------------------------------------------------------------
(* What a publication shows *)

LEMMA PlacedIsAnAgenda ==
    ASSUME NEW a \in Snapshots, Valid(a)
    PROVE  /\ Placed(a) \in Agendas
           /\ DOMAIN Placed(a) = {s \in Sessions : HasSlot(a.session[s])}
           /\ \A s \in Sessions : HasSlot(a.session[s]) => Placed(a)[s] = a.session[s].cell
<1> DEFINE held == {s \in Sessions : HasSlot(a.session[s])}
<1>1. Placed(a) = [s \in held |-> a.session[s].cell]
  BY DEF Placed
<1>2. \A s \in held : a.session[s].cell \in Cells
  BY DEF Valid, Snapshots, SessionView
<1>3. Placed(a) \in [held -> Cells] /\ held \in SUBSET Sessions
  BY <1>1, <1>2
<1>4. Placed(a) \in Agendas
  BY <1>3 DEF Agendas
<1> QED
  BY <1>1, <1>4

\* Candidates of a publication that is accepted never clash.
LEMMA CandidatesDoNotClash ==
    ASSUME NEW a \in Snapshots, Valid(a), CanPublish(a),
           NEW s \in Candidates(a), NEW t \in Candidates(a),
           NEW shown, shown[s] = a.session[s].cell, shown[t] = a.session[t].cell
    PROVE  ~Clash(shown, s, t)
<1>1. s \in Sessions /\ HasSlot(a.session[s]) /\ t \in Sessions /\ HasSlot(a.session[t])
  BY DEF CanPublish, Candidates
<1>2. s \in DOMAIN Placed(a) /\ t \in DOMAIN Placed(a) /\ Placed(a) \in Agendas
  BY <1>1, PlacedIsAnAgenda
<1>3. shown[s] = Placed(a)[s] /\ shown[t] = Placed(a)[t]
  BY <1>1, PlacedIsAnAgenda
<1>4. <<s, t>> \notin HardConflicts(Placed(a))
  BY DEF CanPublish
<1>5. <<t, s>> \notin HardConflicts(Placed(a))
  BY DEF CanPublish
<1>6. ~Clash(Placed(a), s, t)
  BY <1>2, <1>4, <1>5, HardConflictsAreClashes
<1> QED
  BY <1>3, <1>6 DEF Clash, Overlap

\* A publication marks its candidates, and nothing else, with its own version.
LEMMA PublicationMarksCandidates ==
    ASSUME NEW a \in Snapshots, NEW n, NEW command \in CommandsAt(n),
           command.type = "publish", Accepts(a, command), NEW s \in Sessions
    PROVE  LET result == Result(a, command)
               after == result.session[s]
           IN  /\ s \in Candidates(a) =>
                     after.state = "published" /\ after.slotPub = result.pub
                       /\ after.cell = a.session[s].cell /\ after.public
               /\ s \in Candidates(result) <=> s \in Candidates(a)
               /\ after.state = "published" /\ after.slotPub = result.pub => s \in Candidates(a)
<1> DEFINE before == a.session[s]
           after == Result(a, command).session[s]
<1>1. before \in SessionView /\ a.version \in Nat /\ a.pub \in Nat
  BY DEF Snapshots
<1>2. Result(a, command).pub = a.version + 1
  BY ResultFields
<1>3. Valid(a) /\ CanPublish(a)
  BY DEF Accepts
<1>4. after = Viewed(a, command, s)
  BY ResultFields
<1>5. CASE s \in Candidates(a)
  <2>1. HasSlot(before)
    BY <1>3, <1>5 DEF CanPublish
  <2>2. after = [before EXCEPT !.state = "published", !.slotPub = a.version + 1]
    BY <1>4, <1>5, <2>1 DEF Viewed
  <2>3. /\ after.state = "published" /\ after.slotPub = a.version + 1
        /\ after.cell = before.cell /\ after.public = before.public
    BY <1>1, <2>2 DEF SessionView
  <2>4. before.public
    BY <1>5 DEF Candidates
  <2> HIDE DEF after, before
  <2>5. after.state # "canceled"
    BY <2>3
  <2>6. s \in Candidates(Result(a, command))
    BY <2>3, <2>4, <2>5 DEF Candidates, after
  <2> QED
    BY <1>2, <1>5, <2>3, <2>4, <2>6 DEF after, before
<1>6. CASE s \notin Candidates(a)
  <2>1. after = before
    BY <1>4, <1>6 DEF Viewed
  <2>2. s \notin Candidates(Result(a, command))
    BY <1>6, <2>1 DEF Candidates
  <2>3. before.state = "published" => before.slotPub = a.pub
    BY <1>3 DEF Valid
  <2>4. a.pub <= a.version
    BY <1>3 DEF Valid
  <2> HIDE DEF after, before
  <2>5. ~(after.state = "published" /\ after.slotPub = a.version + 1)
    BY <1>1, <2>1, <2>3, <2>4
  <2> QED
    BY <1>2, <1>6, <2>2, <2>5 DEF after
<1> QED
  BY <1>5, <1>6

-----------------------------------------------------------------------------
(* The inductive invariant *)

\* Each record holds fields of its own table, and publications have a version.
ContentOf(r) ==
    CASE r[1] = "event" -> [version: Nat, pub: Nat]
      [] r[1] = "session" -> [state: States, public: BOOLEAN, length: Nat]
      [] r[1] = "slot" -> [cell: Cells \cup {NoCell}, pub: Nat]

RowsTyped ==
    /\ \A r \in Records : air[r].content \in ContentOf(r) /\ proj[r].content \in ContentOf(r)
    /\ \A p \in pubs : p.public.version \in Nat

\* The same content, but for a Public flag that somebody edited by hand.
Kin(r, x, y) ==
    \/ x = y
    \/ r[1] = "session" /\ edits # 0 /\ x.state = y.state /\ x.length = y.length

\* The content x of record r is what agenda a says of it.
Shows(a, r, x) ==
    CASE r[1] = "event" -> x = [version |-> a.version, pub |-> a.pub]
      [] r[1] = "session" -> Kin(r, x, [state |-> a.session[r[2]].state,
                                         public |-> a.session[r[2]].public,
                                         length |-> a.session[r[2]].length])
      [] r[1] = "slot" -> HasSlot(a.session[r[2]]) =>
                             x = [cell |-> a.session[r[2]].cell, pub |-> a.session[r[2]].slotPub]

Unfinished == Applying \cup Owed

\* How far a call has come tells what has become of its receipt.
Jobs ==
    /\ job.phase = "idle" => job = Idle
    /\ job.phase # "idle" => job.by # NoCommand /\ job.target \in Commands
    /\ job.by \in Commands =>
          /\ request[job.by] # NoCommand
          /\ job.by # job.target => receipt[job.by] = NoReceipt
    /\ job.phase \in {"apply", "commit"} => receipt[job.target].state = "applying"
    /\ job.phase = "commit" => \A r \in Operations(job.target) : Durable(job.target, r)
    /\ job.phase \in {"calendar", "mark", "remark", "repair", "drain"} =>
          receipt[job.target].state = "complete"
    /\ job.phase \in {"calendar", "mark", "remark"} => change[job.target] = "owed"
    /\ job.phase \in {"mark", "remark"} => job.target \in intents
    /\ job.phase = "repair" /\ job.by # job.target => change[job.target] = "owed"
    /\ job.phase = "drain" => Unfinished = {}
    /\ job.phase \in {"evaluate", "load", "baseline", "record"} =>
          /\ job.by = job.target
          /\ receipt[job.target] = NoReceipt
          /\ Unfinished = {}

\* A call that is about to record a receipt has read an agenda the rows still
\* show, but for Public flags that were edited meanwhile, and that its command fits.
Drafting == job.phase \in {"load", "baseline", "record"}

Drafts ==
    Drafting =>
       /\ draft.before \in Snapshots /\ Tidy(draft.before)
       /\ Accepts(draft.before, request[job.by])
       /\ \A r \in Records : Shows(draft.before, r, proj[r].content)

\* What a receipt says, and what the tables next to it say about its command.
Receipts ==
    /\ \A c, d \in Unfinished : c = d
    /\ \A c \in Commands : receipt[c] # NoReceipt =>
          /\ request[c] # NoCommand
          /\ Accepts(receipt[c].before, request[c])
          /\ Tidy(receipt[c].before)
    /\ \A c \in Commands : receipt[c] = NoReceipt => \A r \in Records : ledger[c][r] = "none"
    /\ \A c \in Commands : receipt[c].state # "complete" => change[c] = "none"
    /\ \A c \in Commands : receipt[c].state = "complete" =>
          \A r \in Operations(c) : Durable(c, r)
    /\ \A c \in Commands : change[c] = "enqueued" => c \in intents

\* Nobody is told "committed" before the receipt is complete and owes nothing.
Answers ==
    \A c \in Commands :
       "committed" \in told[c] => receipt[c].state = "complete" /\ change[c] # "owed"

\* While c is applied a record is as it was, or as c leaves it, or D1 is one
\* version behind Airtable.
Untouched(c, r) ==
    /\ proj[r] = air[r]
    /\ Shows(receipt[c].before, r, proj[r].content)
Projected(c, r) ==
    /\ proj[r] = air[r]
    /\ proj[r].ver > receipt[c].expected[r]
    /\ Kin(r, proj[r].content, Fields(c, r))
Lagging(c, r) ==
    /\ air[r] = [ver |-> receipt[c].expected[r] + 1, content |-> Fields(c, r)]
    /\ proj[r].ver = receipt[c].expected[r]

Rows ==
    /\ Applying = {} => proj = air
    /\ \A c \in Applying, r \in Records :
          /\ ledger[c][r] # "applied" => Untouched(c, r)
          /\ ledger[c][r] = "applied" =>
                r \in Operations(c) /\ (Projected(c, r) \/ Lagging(c, r))

\* The newest publication is the one that the agenda names.
PubsCurrent ==
    pubs # {} => /\ \E p \in pubs : p.public.version = Read.pub
                 /\ \A p \in pubs : p.public.version <= Read.pub

IInv ==
    /\ TypeOK /\ RowsTyped
    /\ Jobs /\ Drafts /\ Receipts /\ Answers
    /\ Rows
    /\ PubsCurrent /\ PublicationsAreSound

-----------------------------------------------------------------------------
(* Records, receipts and what is read *)

LEMMA Kinds ==
    /\ EventRecord \in Records /\ EventRecord[1] = "event"
    /\ \A s \in Sessions :
          /\ SessionRecord(s) \in Records /\ SessionRecord(s)[1] = "session"
          /\ SessionRecord(s)[2] = s
          /\ SlotRecord(s) \in Records /\ SlotRecord(s)[1] = "slot" /\ SlotRecord(s)[2] = s
    /\ \A r \in Records :
          \/ r = EventRecord
          \/ \E s \in Sessions : r = SessionRecord(s) \/ r = SlotRecord(s)
BY DEF Records, EventRecord, SessionRecord, SlotRecord

LEMMA SomeMember == ASSUME NEW S, S # {} PROVE (CHOOSE x \in S : TRUE) \in S
OBVIOUS

LEMMA RowTypes ==
    ASSUME TypeOK, RowsTyped, NEW s \in Sessions
    PROVE  /\ proj[EventRecord].content \in [version: Nat, pub: Nat]
           /\ proj[SessionRecord(s)].content \in [state: States, public: BOOLEAN, length: Nat]
           /\ proj[SlotRecord(s)].content \in [cell: Cells \cup {NoCell}, pub: Nat]
<1>1. \A r \in Records : proj[r].content \in ContentOf(r)
  BY DEF RowsTyped
<1>2. ContentOf(EventRecord) = [version: Nat, pub: Nat]
  BY Kinds DEF ContentOf
<1>3. ContentOf(SessionRecord(s)) = [state: States, public: BOOLEAN, length: Nat]
  BY Kinds DEF ContentOf
<1>4. ContentOf(SlotRecord(s)) = [cell: Cells \cup {NoCell}, pub: Nat]
  BY Kinds DEF ContentOf
<1> QED
  BY <1>1, <1>2, <1>3, <1>4, Kinds

\* The view that the two rows of a session make up.
RowView(rows, s) ==
    LET own == rows[SessionRecord(s)].content
        slot == rows[SlotRecord(s)].content
    IN  [state |-> own.state, public |-> own.public, length |-> own.length,
         cell |-> IF HasSlot(own) THEN slot.cell ELSE NoCell,
         slotPub |-> IF HasSlot(own) THEN slot.pub ELSE 0]

LEMMA SnapshotFields ==
    ASSUME NEW rows
    PROVE  /\ Snapshot(rows) = [version |-> rows[EventRecord].content.version,
                                pub |-> rows[EventRecord].content.pub,
                                session |-> [s \in Sessions |-> RowView(rows, s)]]
           /\ Snapshot(rows).version = rows[EventRecord].content.version
           /\ Snapshot(rows).pub = rows[EventRecord].content.pub
           /\ \A s \in Sessions : Snapshot(rows).session[s] = RowView(rows, s)
BY DEF Snapshot, RowView

LEMMA SnapshotType ==
    ASSUME TypeOK, RowsTyped
    PROVE  Snapshot(proj) \in Snapshots /\ Tidy(Snapshot(proj))
<1>1. ASSUME NEW s \in Sessions
      PROVE  /\ RowView(proj, s) \in SessionView
             /\ LET view == RowView(proj, s)
                IN  HasSlot(view) \/ (view.cell = NoCell /\ view.slotPub = 0)
  BY RowTypes DEF RowView, SessionView, HasSlot
<1>2. /\ proj[EventRecord].content.version \in Nat
      /\ proj[EventRecord].content.pub \in Nat
  <2>1. proj[EventRecord].content \in ContentOf(EventRecord)
    BY Kinds DEF RowsTyped
  <2> QED
    BY <2>1, Kinds DEF ContentOf
<1> DEFINE views == [s \in Sessions |-> RowView(proj, s)]
<1>3. Snapshot(proj) \in Snapshots
  <2>1. views \in [Sessions -> SessionView]
    BY <1>1
  <2>2. Snapshot(proj) = [version |-> proj[EventRecord].content.version,
                          pub |-> proj[EventRecord].content.pub, session |-> views]
    BY SnapshotFields
  <2> HIDE DEF views
  <2> QED
    BY <1>2, <2>1, <2>2 DEF Snapshots
<1>4. Tidy(Snapshot(proj))
  BY <1>1, SnapshotFields DEF Tidy
<1> QED
  BY <1>3, <1>4

LEMMA ReceiptTypes ==
    ASSUME TypeOK, NEW c \in Commands
    PROVE  /\ receipt[c] = NoReceipt \/ receipt[c].state \in {"applying", "complete"}
           /\ NoReceipt.state = "none"
           /\ receipt[c] # NoReceipt =>
                 /\ receipt[c] \in [state: {"applying", "complete"}, before: Snapshots,
                                    expected: [Records -> Nat]]
                 /\ receipt[c].before \in Snapshots
                 /\ \A r \in Records : receipt[c].expected[r] \in Nat
BY DEF TypeOK, NoReceipt

\* A stored command is one that applyScheduleCommand accepted.
LEMMA StoredCommands ==
    ASSUME TypeOK, Receipts, NEW c \in Commands, receipt[c] # NoReceipt
    PROVE  /\ receipt[c].before \in Snapshots /\ Tidy(receipt[c].before)
           /\ request[c] \in CommandsAt(receipt[c].before.version)
           /\ Accepts(receipt[c].before, request[c])
           /\ After(c) \in Snapshots
<1>1. /\ request[c] \in CommandsAt(request[c].expected)
      /\ Accepts(receipt[c].before, request[c])
  BY DEF Receipts, TypeOK
<1>2. request[c].expected = receipt[c].before.version
  BY <1>1 DEF Accepts
<1>3. receipt[c].before \in Snapshots
  BY ReceiptTypes
<1>4. Tidy(receipt[c].before)
  BY DEF Receipts
<1> QED
  BY <1>1, <1>2, <1>3, <1>4, ResultFields DEF After

\* Whoever is being applied is the only one, and readers keep its snapshot.
LEMMA ReadWhileApplying ==
    ASSUME Receipts, NEW c \in Applying
    PROVE  Applying = {c} /\ Unfinished = {c} /\ Read = receipt[c].before
<1>1. \A d \in Unfinished : d = c
  BY DEF Receipts, Unfinished
<1>2. Applying = {c} /\ Unfinished = {c}
  BY <1>1 DEF Unfinished
<1>3. (CHOOSE d \in Applying : TRUE) \in Applying
  BY SomeMember
<1>4. (CHOOSE d \in Applying : TRUE) = c
  BY <1>2, <1>3
<1> QED
  BY <1>2, <1>4 DEF Read

LEMMA ReadOtherwise ==
    ASSUME Applying = {}
    PROVE  Read = Snapshot(proj)
BY DEF Read

LEMMA ReadType == TypeOK /\ RowsTyped /\ Receipts => Read \in Snapshots /\ Tidy(Read)
<1> SUFFICES ASSUME TypeOK, RowsTyped, Receipts
             PROVE  Read \in Snapshots /\ Tidy(Read)
  OBVIOUS
<1>1. CASE Applying = {}
  BY <1>1, ReadOtherwise, SnapshotType
<1>2. CASE Applying # {}
  <2>1. PICK c \in Applying : TRUE
    BY <1>2
  <2>2. c \in Commands /\ receipt[c] # NoReceipt
    BY <2>1, ReceiptTypes DEF Applying, NoReceipt
  <2> QED
    BY <2>1, <2>2, ReadWhileApplying, StoredCommands
<1> QED
  BY <1>1, <1>2

-----------------------------------------------------------------------------
(* What a command leaves in the rows once all its operations are durable *)

LEMMA OperationsOf ==
    ASSUME NEW c \in Commands
    PROVE  /\ EventRecord \in Operations(c)
           /\ \A s \in Sessions :
                 /\ SlotRecord(s) \in Operations(c)
                      <=> s \in Rewritten(receipt[c].before, request[c])
                 /\ SessionRecord(s) \in Operations(c)
                      <=> s \in Restated(receipt[c].before, request[c])
BY DEF Operations, EventRecord, SessionRecord, SlotRecord

LEMMA OperationsAreRecords ==
    ASSUME TypeOK, Receipts, NEW c \in Commands, receipt[c] # NoReceipt
    PROVE  Operations(c) \subseteq Records
<1>1. Rewritten(receipt[c].before, request[c]) \subseteq Sessions
  BY StoredCommands, CommandTypes DEF Rewritten, Candidates
<1>2. Restated(receipt[c].before, request[c]) \subseteq Sessions
  BY DEF Restated
<1> QED
  BY <1>1, <1>2, Kinds DEF Operations

LEMMA FieldsOf ==
    ASSUME NEW c
    PROVE  /\ Fields(c, EventRecord) = [version |-> After(c).version, pub |-> After(c).pub]
           /\ \A s \in Sessions :
                 LET view == After(c).session[s]
                 IN  /\ Fields(c, SessionRecord(s)) =
                           [state |-> view.state, length |-> view.length,
                            public |-> view.public /\ view.state = "published"]
                     /\ Fields(c, SlotRecord(s)) = [cell |-> view.cell, pub |-> view.slotPub]
<1>1. Fields(c, EventRecord) = [version |-> After(c).version, pub |-> After(c).pub]
  BY Kinds DEF Fields
<1>2. ASSUME NEW s \in Sessions
      PROVE  LET view == After(c).session[s]
             IN  /\ Fields(c, SessionRecord(s)) =
                       [state |-> view.state, length |-> view.length,
                        public |-> view.public /\ view.state = "published"]
                 /\ Fields(c, SlotRecord(s)) = [cell |-> view.cell, pub |-> view.slotPub]
  BY Kinds DEF Fields
<1> QED
  BY <1>1, <1>2

LEMMA ShowsOf ==
    ASSUME NEW a, NEW x
    PROVE  /\ Shows(a, EventRecord, x) <=> x = [version |-> a.version, pub |-> a.pub]
           /\ \A s \in Sessions :
                 LET view == a.session[s]
                 IN  /\ Shows(a, SessionRecord(s), x) <=>
                           Kin(SessionRecord(s), x,
                               [state |-> view.state, public |-> view.public,
                                length |-> view.length])
                     /\ Shows(a, SlotRecord(s), x) <=>
                           (HasSlot(view) => x = [cell |-> view.cell, pub |-> view.slotPub])
<1>1. Shows(a, EventRecord, x) <=> x = [version |-> a.version, pub |-> a.pub]
  BY Kinds DEF Shows
<1>2. ASSUME NEW s \in Sessions
      PROVE  /\ Shows(a, SessionRecord(s), x) <=>
                   Kin(SessionRecord(s), x,
                       [state |-> a.session[s].state, public |-> a.session[s].public,
                        length |-> a.session[s].length])
             /\ Shows(a, SlotRecord(s), x) <=>
                   (HasSlot(a.session[s]) =>
                      x = [cell |-> a.session[s].cell, pub |-> a.session[s].slotPub])
  BY Kinds DEF Shows
<1> QED
  BY <1>1, <1>2

\* Each record then shows what the command wrote or, where it wrote nothing,
\* what it found; Airtable and D1 agree.
LEMMA DurableRows ==
    ASSUME TypeOK, Receipts, Rows, NEW c \in Applying,
           \A r \in Operations(c) : Durable(c, r)
    PROVE  /\ proj = air
           /\ \A r \in Records :
                 /\ r \in Operations(c) => Kin(r, proj[r].content, Fields(c, r))
                 /\ r \notin Operations(c) => Shows(receipt[c].before, r, proj[r].content)
<1>1. c \in Commands
  BY DEF Applying
<1>2. ASSUME NEW r \in Records
      PROVE  /\ proj[r] = air[r]
             /\ r \in Operations(c) => Kin(r, proj[r].content, Fields(c, r))
             /\ r \notin Operations(c) => Shows(receipt[c].before, r, proj[r].content)
  <2>1. CASE r \in Operations(c)
    <3>1. ledger[c][r] = "applied" /\ proj[r].ver > receipt[c].expected[r]
      BY <2>1 DEF Durable
    <3>2. receipt[c].expected[r] \in Nat
      BY <1>1, ReceiptTypes DEF Applying, NoReceipt
    <3>3. ~Lagging(c, r)
      BY <3>1, <3>2 DEF Lagging
    <3>4. Projected(c, r)
      BY <3>1, <3>3 DEF Rows
    <3> QED
      BY <2>1, <3>4 DEF Projected
  <2>2. CASE r \notin Operations(c)
    <3>1. Untouched(c, r)
      BY <2>2 DEF Rows
    <3> QED
      BY <2>2, <3>1 DEF Untouched
  <2> QED
    BY <2>1, <2>2
<1>3. proj = air
  BY <1>2 DEF TypeOK
<1> QED
  BY <1>2, <1>3

\* So the rows hold the agenda the command leads to, up to Public flags.
LEMMA Outcome ==
    ASSUME TypeOK, Receipts, Rows, NEW c \in Applying,
           \A r \in Operations(c) : Durable(c, r), NEW s \in Sessions
    PROVE  LET after == After(c).session[s]
               own == proj[SessionRecord(s)].content
           IN  /\ proj[EventRecord].content
                     = [version |-> After(c).version, pub |-> After(c).pub]
               /\ own.state = after.state /\ own.length = after.length
               /\ HasSlot(after) => proj[SlotRecord(s)].content
                                      = [cell |-> after.cell, pub |-> after.slotPub]
               /\ edits = 0 /\ after.public /\ after.state = "published" => own.public
               /\ edits = 0 /\ own.public => after.public
<1> DEFINE a == receipt[c].before
           before == a.session[s]
           after == After(c).session[s]
           own == proj[SessionRecord(s)].content
           slot == proj[SlotRecord(s)].content
<1>1. c \in Commands /\ receipt[c] # NoReceipt
  BY ReceiptTypes DEF Applying
<1>2. /\ a \in Snapshots /\ request[c] \in CommandsAt(a.version)
      /\ After(c) = Result(a, request[c])
  BY <1>1, StoredCommands DEF After
<1>3. /\ s \notin Restated(a, request[c]) =>
            after.state = before.state /\ after.length = before.length
      /\ s \notin Rewritten(a, request[c]) /\ HasSlot(after) =>
            HasSlot(before) /\ after.cell = before.cell /\ after.slotPub = before.slotPub
      /\ after.public = before.public
  BY <1>2, ResultLeaves
<1>4. proj[EventRecord].content = [version |-> After(c).version, pub |-> After(c).pub]
  <2>1. Kin(EventRecord, proj[EventRecord].content, Fields(c, EventRecord))
    BY <1>1, DurableRows, OperationsOf, Kinds
  <2> QED
    BY <2>1, FieldsOf, Kinds DEF Kin
<1>5. /\ own.state = after.state /\ own.length = after.length
      /\ edits = 0 /\ after.public /\ after.state = "published" => own.public
      /\ edits = 0 /\ own.public => after.public
  <2>1. CASE s \in Restated(a, request[c])
    <3>1. Kin(SessionRecord(s), own, Fields(c, SessionRecord(s)))
      BY <1>1, <2>1, DurableRows, OperationsOf, Kinds
    <3>2. Fields(c, SessionRecord(s)) =
            [state |-> after.state, length |-> after.length,
             public |-> after.public /\ after.state = "published"]
      BY FieldsOf
    <3> DEFINE written == Fields(c, SessionRecord(s))
    <3>3. /\ written.state = after.state /\ written.length = after.length
          /\ written.public = (after.public /\ after.state = "published")
      BY <3>2
    <3> HIDE DEF written, after, own
    <3>4. /\ own.state = written.state /\ own.length = written.length
          /\ edits = 0 => own = written
      BY <3>1 DEF Kin, written
    <3> QED
      BY <3>3, <3>4
  <2>2. CASE s \notin Restated(a, request[c])
    <3>1. Shows(a, SessionRecord(s), own)
      BY <1>1, <2>2, DurableRows, OperationsOf, Kinds
    <3>2. Kin(SessionRecord(s), own,
              [state |-> before.state, public |-> before.public, length |-> before.length])
      BY <3>1, ShowsOf
    <3> HIDE DEF after, own, before, a
    <3> QED
      BY <1>3, <2>2, <3>2 DEF Kin
  <2> QED
    BY <2>1, <2>2
<1>6. HasSlot(after) => slot = [cell |-> after.cell, pub |-> after.slotPub]
  <2>1. CASE s \in Rewritten(a, request[c])
    <3>1. Kin(SlotRecord(s), slot, Fields(c, SlotRecord(s)))
      BY <1>1, <2>1, DurableRows, OperationsOf, Kinds
    <3>2. Fields(c, SlotRecord(s)) = [cell |-> after.cell, pub |-> after.slotPub]
      BY FieldsOf
    <3> QED
      BY <3>1, <3>2, Kinds DEF Kin
  <2>2. CASE s \notin Rewritten(a, request[c])
    <3>1. Shows(a, SlotRecord(s), slot)
      BY <1>1, <2>2, DurableRows, OperationsOf, Kinds
    <3>2. HasSlot(before) => slot = [cell |-> before.cell, pub |-> before.slotPub]
      BY <3>1, ShowsOf
    <3> HIDE DEF after, slot, before, a
    <3> QED
      BY <1>3, <2>2, <3>2
  <2> QED
    BY <2>1, <2>2
<1> QED
  BY <1>4, <1>5, <1>6

-----------------------------------------------------------------------------
(* Where a call goes *)

LEMMA OnwardGoes ==
    ASSUME NEW c
    PROVE  /\ Owed = {} => Onward(c) = Call(c, c, "evaluate")
           /\ Owed # {} => \E t \in Owed : Onward(c) = Call(c, t, "repair")
<1>1. Owed # {} => (CHOOSE t \in Owed : TRUE) \in Owed
  BY SomeMember
<1> QED
  BY <1>1 DEF Onward

LEMMA BeginGoes ==
    ASSUME TypeOK, NEW c \in Commands, Begin(c)
    PROVE  \/ receipt[c].state = "complete" /\ job' = Call(c, c, "repair")
           \/ receipt[c].state = "applying" /\ job' = Call(c, c, "apply")
           \/ receipt[c] = NoReceipt /\ \E t \in Applying : job' = Call(c, t, "apply")
           \/ receipt[c] = NoReceipt /\ \E t \in Owed : job' = Call(c, t, "repair")
           \/ receipt[c] = NoReceipt /\ Unfinished = {} /\ job' = Call(c, c, "evaluate")
<1>1. \/ receipt[c] = NoReceipt /\ receipt[c].state = "none"
      \/ receipt[c].state \in {"applying", "complete"}
  BY ReceiptTypes
<1>2. CASE receipt[c].state = "complete"
  BY <1>2 DEF Begin
<1>3. CASE receipt[c].state = "applying"
  BY <1>3 DEF Begin
<1>4. CASE receipt[c] = NoReceipt /\ receipt[c].state = "none" /\ Applying # {}
  <2>1. (CHOOSE t \in Applying : TRUE) \in Applying
    BY <1>4, SomeMember
  <2>2. job' = Call(c, CHOOSE t \in Applying : TRUE, "apply")
    BY <1>4 DEF Begin
  <2> QED
    BY <1>4, <2>1, <2>2
<1>5. CASE receipt[c] = NoReceipt /\ receipt[c].state = "none" /\ Applying = {}
  <2>1. job' = Onward(c)
    BY <1>5 DEF Begin
  <2> QED
    BY <1>5, <2>1, OnwardGoes DEF Unfinished
<1> QED
  BY <1>1, <1>2, <1>3, <1>4, <1>5

LEMMA AlarmGoes ==
    ASSUME AlarmRuns
    PROVE  \/ job' = Idle
           \/ \E t \in Applying : job' = Call(Alarm, t, "apply")
           \/ \E t \in Owed : job' = Call(Alarm, t, "repair")
<1>1. CASE Applying # {}
  <2>1. (CHOOSE t \in Applying : TRUE) \in Applying
    BY <1>1, SomeMember
  <2>2. job' = Call(Alarm, CHOOSE t \in Applying : TRUE, "apply")
    BY <1>1 DEF AlarmRuns
  <2> QED
    BY <2>1, <2>2
<1>2. CASE Applying = {} /\ Owed # {}
  <2>1. (CHOOSE t \in Owed : TRUE) \in Owed
    BY <1>2, SomeMember
  <2>2. job' = Call(Alarm, CHOOSE t \in Owed : TRUE, "repair")
    BY <1>2 DEF AlarmRuns
  <2> QED
    BY <2>1, <2>2
<1>3. CASE Applying = {} /\ Owed = {}
  BY <1>3 DEF AlarmRuns
<1> QED
  BY <1>1, <1>2, <1>3

\* A call that has finished its target is over, or its caller's turn has come.
LEMMA FinishGoes ==
    ASSUME NEW next, Finish(next)
    PROVE  /\ job.by = job.target \/ job.by = Alarm => job' = Idle
           /\ job.by # job.target /\ job.by # Alarm => job' = next
           /\ job.by # job.target => told' = told
           /\ job.by = job.target =>
                 told' = [told EXCEPT ![job.target] = @ \cup {"committed"}]
BY DEF Finish

-----------------------------------------------------------------------------
(* Every step keeps the types *)

LEMMA FieldsType ==
    ASSUME TypeOK, Receipts, NEW c \in Commands, receipt[c] # NoReceipt,
           NEW r \in Operations(c)
    PROVE  /\ r \in Records
           /\ Fields(c, r) \in ContentOf(r)
           /\ Fields(c, r) \in Contents
<1>1. r \in Records
  BY OperationsAreRecords
<1>2. After(c) \in Snapshots
  BY StoredCommands
<1>3. CASE r = EventRecord
  <2>1. ContentOf(r) = [version: Nat, pub: Nat]
    BY <1>3, Kinds DEF ContentOf
  <2>2. Fields(c, r) = [version |-> After(c).version, pub |-> After(c).pub]
    BY <1>3, FieldsOf
  <2> QED
    BY <1>1, <1>2, <2>1, <2>2 DEF Snapshots, Contents
<1>4. ASSUME NEW s \in Sessions, r = SessionRecord(s) \/ r = SlotRecord(s)
      PROVE  /\ Fields(c, r) \in ContentOf(r)
             /\ Fields(c, r) \in Contents
  <2> DEFINE view == After(c).session[s]
  <2>1. view \in SessionView
    BY <1>2 DEF Snapshots
  <2>2. CASE r = SessionRecord(s)
    <3>1. ContentOf(r) = [state: States, public: BOOLEAN, length: Nat]
      BY <2>2, Kinds DEF ContentOf
    <3>2. Fields(c, r) = [state |-> view.state, length |-> view.length,
                          public |-> view.public /\ view.state = "published"]
      BY <2>2, FieldsOf
    <3> HIDE DEF view
    <3>3. /\ view.state \in States /\ view.length \in Nat
          /\ (view.public /\ view.state = "published") \in BOOLEAN
      BY <2>1 DEF SessionView
    <3> QED
      BY <3>1, <3>2, <3>3 DEF Contents
  <2>3. CASE r = SlotRecord(s)
    <3>1. ContentOf(r) = [cell: Cells \cup {NoCell}, pub: Nat]
      BY <2>3, Kinds DEF ContentOf
    <3>2. Fields(c, r) = [cell |-> view.cell, pub |-> view.slotPub]
      BY <2>3, FieldsOf
    <3> HIDE DEF view
    <3> QED
      BY <2>1, <3>1, <3>2 DEF Contents, SessionView
  <2> QED
    BY <1>4, <2>2, <2>3
<1> QED
  BY <1>1, <1>3, <1>4, Kinds

JobType ==
    [by: Commands \cup {NoCommand, Alarm}, target: Commands \cup {NoCommand},
     phase: {"idle", "apply", "commit", "calendar", "mark", "drain", "repair",
             "remark", "evaluate", "load", "baseline", "record"}]

LEMMA CallType ==
    ASSUME NEW by \in Commands \cup {Alarm}, NEW target \in Commands,
           NEW phase \in {"apply", "commit", "calendar", "mark", "drain", "repair",
                          "remark", "evaluate", "load", "baseline", "record"}
    PROVE  Call(by, target, phase) \in JobType
BY DEF Call, JobType

LEMMA IdleType == Idle \in JobType
BY DEF Idle, JobType

\* How a call ends: what it leaves is typed, whichever way it goes.
LEMMA EndingTypes ==
    ASSUME TypeOK, Jobs
    PROVE  /\ Suspend \/ Throw =>
                 /\ job' \in JobType /\ alarm' \in BOOLEAN
                 /\ told' \in [Commands -> SUBSET {"committed", "pending", "refused"}]
           /\ \A next : Finish(next) /\ (job.by \in Commands => next \in JobType) =>
                 /\ job' \in JobType /\ alarm' \in BOOLEAN
                 /\ told' \in [Commands -> SUBSET {"committed", "pending", "refused"}]
<1>1. /\ told \in [Commands -> SUBSET {"committed", "pending", "refused"}]
      /\ alarm \in BOOLEAN
      /\ job \in JobType
  BY DEF TypeOK, JobType
<1>2. /\ [told EXCEPT ![job.target] = @ \cup {"committed"}]
            \in [Commands -> SUBSET {"committed", "pending", "refused"}]
      /\ [told EXCEPT ![job.target] = @ \cup {"pending"}]
            \in [Commands -> SUBSET {"committed", "pending", "refused"}]
  BY <1>1
<1>3. Suspend \/ Throw =>
          /\ job' \in JobType /\ alarm' \in BOOLEAN
          /\ told' \in [Commands -> SUBSET {"committed", "pending", "refused"}]
  BY <1>1, <1>2, IdleType DEF Suspend, Throw
<1>4. ASSUME NEW next, Finish(next), job.by \in Commands => next \in JobType
      PROVE  /\ job' \in JobType /\ alarm' \in BOOLEAN
             /\ told' \in [Commands -> SUBSET {"committed", "pending", "refused"}]
  <2>1. alarm' \in BOOLEAN
    BY <1>4 DEF Finish
  <2>2. told' \in [Commands -> SUBSET {"committed", "pending", "refused"}]
    BY <1>1, <1>2, <1>4, FinishGoes DEF Finish
  <2>3. job' = Idle \/ (job' = next /\ job.by \notin {job.target, Alarm})
    BY <1>4 DEF Finish
  <2>4. job' = next /\ job.by = NoCommand => job.target = NoCommand
    BY DEF Jobs, Idle, TypeOK
  <2>5. job.by \in Commands \cup {NoCommand, Alarm}
    BY <1>1 DEF JobType
  <2>6. job' \in JobType
    BY <1>4, <2>3, <2>4, <2>5, IdleType
  <2> QED
    BY <2>1, <2>2, <2>6
<1> QED
  BY <1>3, <1>4

\* The parts of TypeOK that change together.
RequestTypes ==
    /\ DOMAIN request = Commands
    /\ \A c \in Commands :
          request[c] # NoCommand =>
             /\ request[c].expected \in Nat
             /\ request[c] \in CommandsAt(request[c].expected)
ReceiptTypeOK ==
    receipt \in [Commands ->
                   {NoReceipt} \cup [state: {"applying", "complete"}, before: Snapshots,
                                     expected: [Records -> Nat]]]
RowTypeOK ==
    /\ ledger \in [Commands -> [Records -> {"none", "applied", "failed"}]]
    /\ air \in [Records -> [ver: Nat, content: Contents]]
    /\ proj \in [Records -> [ver: Nat, content: Contents]]
    /\ RowsTyped
ChangeTypes ==
    /\ change \in [Commands -> {"none", "owed", "enqueued"}]
    /\ intents \subseteq Commands
CallTypes ==
    /\ job \in JobType
    /\ alarm \in BOOLEAN
    /\ told \in [Commands -> SUBSET {"committed", "pending", "refused"}]
DraftTypes ==
    /\ status \in EventStatuses
    /\ draft \in [before: Snapshots \cup {NoCommand}, expected: [Records -> Nat]]
LimitTypes == edits \in 0 .. MaxEdits /\ crashes \in 0 .. MaxCrashes

LEMMA TypeParts ==
    TypeOK /\ RowsTyped
      <=> /\ RequestTypes /\ ReceiptTypeOK /\ RowTypeOK /\ ChangeTypes /\ CallTypes
          /\ DraftTypes /\ LimitTypes
BY DEF TypeOK, RequestTypes, ReceiptTypeOK, RowTypeOK, ChangeTypes, CallTypes, DraftTypes,
       LimitTypes, JobType

\* What the last step of a new command finds and writes.
LEMMA RecordWrites ==
    ASSUME TypeOK, Jobs, Record
    PROVE  /\ job.phase = "record" /\ Drafting
           /\ job.by = job.target /\ job.by \in Commands
           /\ receipt[job.by] = NoReceipt /\ Unfinished = {} /\ Applying = {}
           /\ request[job.by] # NoCommand
           /\ receipt' = [receipt EXCEPT ![job.by] =
                            [state |-> "applying", before |-> draft.before,
                             expected |-> draft.expected]]
           /\ \A c \in Commands : c # job.by => receipt'[c] = receipt[c]
           /\ change' = change /\ intents' = intents /\ ledger' = ledger
           /\ air' = air /\ proj' = proj /\ edits' = edits /\ pubs' = pubs
           /\ request' = request
<1>1. job.phase = "record"
  BY DEF Record
<1>2. /\ job.by = job.target /\ job.by \in Commands
      /\ receipt[job.by] = NoReceipt /\ Unfinished = {}
      /\ request[job.by] # NoCommand
  BY <1>1 DEF Jobs
<1>3. Applying = {}
  BY <1>2 DEF Unfinished
<1>4. \A c \in Commands : c # job.by => receipt'[c] = receipt[c]
  BY DEF Record, TypeOK
<1> QED
  BY <1>1, <1>2, <1>3, <1>4 DEF Record, Drafting

LEMMA RequestTypeStep ==
    ASSUME TypeOK, RowsTyped, Receipts, Next
    PROVE  RequestTypes'
<1>1. RequestTypes
  BY TypeParts
<1>2. CASE request' = request
  BY <1>1, <1>2 DEF RequestTypes
<1>3. ASSUME NEW c \in Commands, Send(c) PROVE RequestTypes'
  <2>1. PICK command \in CommandsAt(Read.version) : request' = [request EXCEPT ![c] = command]
    BY <1>3 DEF Send
  <2>2. command.expected = Read.version /\ Read.version \in Nat
    BY ReadType, CommandTypes DEF Snapshots
  <2> QED
    BY <1>1, <2>1, <2>2 DEF RequestTypes
<1>4. (\E c \in Commands : Send(c)) \/ request' = request
  BY DEF Next, Begin, AlarmRuns, Operation, OperationCommits, OperationCommitsUnprojected,
         OperationPending, OperationFails, Repair, OperationsDone, CommitPublication,
         CommitDraftChange, CommitFails, CalendarSettled, CalendarEnqueues, CalendarMarks,
         CalendarFails, Drained, DrainFails, Refuse, Evaluate, Load, KeepBaseline, BaselineFails,
         Record, EditPublic, EditStatus, Edited, Crash
<1> QED
  BY <1>2, <1>3, <1>4

LEMMA ReceiptTypeStep ==
    ASSUME TypeOK, RowsTyped, Jobs, Drafts, Receipts, Next
    PROVE  ReceiptTypeOK'
<1>1. ReceiptTypeOK
  BY TypeParts
<1>2. CASE receipt' = receipt
  BY <1>1, <1>2 DEF ReceiptTypeOK
<1>3. CASE Record
  <2> DEFINE new == [state |-> "applying", before |-> draft.before, expected |-> draft.expected]
  <2>1. draft.before \in Snapshots /\ draft.expected \in [Records -> Nat]
    BY <1>3, RecordWrites DEF Drafts, TypeOK
  <2>2. new \in [state: {"applying", "complete"}, before: Snapshots, expected: [Records -> Nat]]
    BY <2>1
  <2>3. receipt' = [receipt EXCEPT ![job.by] = new] /\ job.by \in Commands
    BY <1>3, RecordWrites
  <2> HIDE DEF new
  <2> QED
    BY <1>1, <2>2, <2>3 DEF ReceiptTypeOK
<1>4. CASE CommitPublication \/ CommitDraftChange
  <2> DEFINE c == job.target
  <2>1. c \in Commands /\ receipt[c].state = "applying"
    BY <1>4 DEF Jobs, CommitPublication, CommitDraftChange
  <2>2. receipt' = [receipt EXCEPT ![c].state = "complete"]
    BY <1>4 DEF CommitPublication, CommitDraftChange, Complete
  <2>3. receipt[c] \in [state: {"applying", "complete"}, before: Snapshots,
                        expected: [Records -> Nat]]
    BY <2>1, ReceiptTypes
  <2>4. [receipt[c] EXCEPT !.state = "complete"]
            \in [state: {"applying", "complete"}, before: Snapshots, expected: [Records -> Nat]]
    BY <2>3
  <2> HIDE DEF c
  <2> QED
    BY <1>1, <2>1, <2>2, <2>4 DEF ReceiptTypeOK
<1>5. Record \/ CommitPublication \/ CommitDraftChange \/ receipt' = receipt
  BY DEF Next, Send, Begin, AlarmRuns, Operation, OperationCommits, OperationCommitsUnprojected,
         OperationPending, OperationFails, Repair, OperationsDone, CommitFails, CalendarSettled,
         CalendarEnqueues, CalendarMarks, CalendarFails, Drained, DrainFails, Refuse, Evaluate,
         Load, KeepBaseline, BaselineFails, EditPublic, EditStatus, Edited, Crash, dbVars
<1> QED
  BY <1>2, <1>3, <1>4, <1>5

LEMMA ChangeTypeStep ==
    ASSUME TypeOK, RowsTyped, Jobs, Next
    PROVE  ChangeTypes'
<1>1. ChangeTypes
  BY TypeParts
<1>2. CASE change' = change /\ intents' = intents
  BY <1>1, <1>2 DEF ChangeTypes
<1>3. CASE CalendarEnqueues
  BY <1>1, <1>3 DEF CalendarEnqueues, ChangeTypes, Jobs
<1>4. CASE CalendarMarks
  BY <1>1, <1>4 DEF CalendarMarks, ChangeTypes
<1>5. CASE CommitDraftChange
  BY <1>1, <1>5 DEF CommitDraftChange, ChangeTypes
<1>6. \/ CalendarEnqueues \/ CalendarMarks \/ CommitDraftChange
      \/ change' = change /\ intents' = intents
  BY DEF Next, Send, Begin, AlarmRuns, Operation, OperationCommits, OperationCommitsUnprojected,
         OperationPending, OperationFails, Repair, OperationsDone, CommitPublication, CommitFails,
         CalendarSettled, CalendarFails, Drained, DrainFails, Refuse, Evaluate, Load, KeepBaseline,
         BaselineFails, Record, EditPublic, EditStatus, Edited, Crash, dbVars
<1> QED
  BY <1>2, <1>3, <1>4, <1>5, <1>6

LEMMA LimitTypeStep ==
    ASSUME TypeOK, RowsTyped, Next
    PROVE  LimitTypes'
<1>1. LimitTypes
  BY TypeParts
<1>2. \/ edits' = edits /\ crashes' = crashes
      \/ edits < MaxEdits /\ edits' = edits + 1 /\ crashes' = crashes
      \/ crashes < MaxCrashes /\ crashes' = crashes + 1 /\ edits' = edits
  BY DEF Next, Send, Begin, AlarmRuns, Operation, OperationCommits, OperationCommitsUnprojected,
         OperationPending, OperationFails, Repair, OperationsDone, CommitPublication,
         CommitDraftChange, CommitFails, CalendarSettled, CalendarEnqueues, CalendarMarks,
         CalendarFails, Drained, DrainFails, Refuse, Evaluate, Load, KeepBaseline, BaselineFails,
         Record, EditPublic, EditStatus, Edited, Crash
<1> QED
  BY <1>1, <1>2, BoundsAssumption DEF LimitTypes

\* A hand edit, of a session's Public flag or of the event's Status.
Edit == EditStatus \/ \E s \in Sessions : EditPublic(s)

\* Record q gets a new version, that says the same but for a session's flag.
Edits(q, new) ==
    /\ q \in Records /\ proj[q] = air[q]
    /\ air' = [air EXCEPT ![q] = [ver |-> air[q].ver + 1, content |-> new]]
    /\ proj' = [proj EXCEPT ![q] = [ver |-> air[q].ver + 1, content |-> new]]
    /\ new \in ContentOf(q)
    /\ \/ new = air[q].content
       \/ /\ q[1] = "session"
          /\ new.state = air[q].content.state /\ new.length = air[q].content.length

LEMMA EditedFields ==
    ASSUME TypeOK, RowsTyped, NEW q \in Records, NEW new, Edited(q, new), new \in ContentOf(q),
           \/ new = air[q].content
           \/ /\ q[1] = "session"
              /\ new.state = air[q].content.state /\ new.length = air[q].content.length
    PROVE  Edits(q, new)
<1> DEFINE row == [ver |-> air[q].ver + 1, content |-> new]
<1>1. air' = [air EXCEPT ![q] = row] /\ proj' = [proj EXCEPT ![q] = air'[q]]
  BY DEF Edited
<1>2. air \in [Records -> [ver: Nat, content: Contents]]
  BY DEF TypeOK
<1> HIDE DEF row
<1>3. air'[q] = row
  BY <1>1, <1>2
<1> QED
  BY <1>1, <1>3 DEF Edited, Edits, row

LEMMA EditFields ==
    ASSUME TypeOK, RowsTyped, Edit
    PROVE  /\ \E q, new : Edits(q, new)
           /\ edits' = edits + 1
           /\ request' = request /\ receipt' = receipt /\ ledger' = ledger /\ pubs' = pubs
           /\ change' = change /\ intents' = intents /\ job' = job /\ draft' = draft
<1>1. ASSUME NEW s \in Sessions, EditPublic(s) PROVE \E q, new : Edits(q, new)
  <2> DEFINE q == SessionRecord(s)
             old == air[q].content
             new == [old EXCEPT !.public = ~@]
  <2>1. q \in Records /\ q[1] = "session"
        /\ ContentOf(q) = [state: States, public: BOOLEAN, length: Nat]
    BY Kinds DEF ContentOf
  <2>2. old \in [state: States, public: BOOLEAN, length: Nat]
    BY <2>1 DEF RowsTyped
  <2>3. new \in ContentOf(q) /\ new.state = old.state /\ new.length = old.length
    BY <2>1, <2>2
  <2>4. Edited(q, new)
    BY <1>1 DEF EditPublic
  <2> HIDE DEF new
  <2> QED
    BY <2>1, <2>3, <2>4, EditedFields
<1>2. ASSUME EditStatus PROVE \E q, new : Edits(q, new)
  <2>1. PICK q, new : q = EventRecord /\ new = air[EventRecord].content
    OBVIOUS
  <2>2. q \in Records /\ new = air[q].content /\ new \in ContentOf(q)
    BY <2>1, Kinds DEF RowsTyped
  <2>3. Edited(q, new)
    BY <1>2, <2>1 DEF EditStatus
  <2>4. Edits(q, new)
    BY <2>2, <2>3, EditedFields
  <2> QED
    BY <2>4
<1>3. \E q, new : Edited(q, new)
  BY DEF Edit, EditStatus, EditPublic
<1> QED
  BY <1>1, <1>2, <1>3 DEF Edit, Edited

LEMMA ContentsOf == \A r \in Records : ContentOf(r) \subseteq Contents
<1>1. ContentOf(EventRecord) \subseteq Contents
  BY Kinds DEF ContentOf, Contents
<1>2. \A s \in Sessions : /\ ContentOf(SessionRecord(s)) \subseteq Contents
                          /\ ContentOf(SlotRecord(s)) \subseteq Contents
  BY Kinds DEF ContentOf, Contents
<1> QED
  BY <1>1, <1>2, Kinds

LEMMA RowTypeStep ==
    ASSUME TypeOK, RowsTyped, Jobs, Drafts, Receipts, Next
    PROVE  RowTypeOK'
<1>1. RowTypeOK
  BY TypeParts
<1>2. ASSUME NEW r \in Records, job.phase = "apply", AtOperation(job.target, r)
      PROVE  /\ job.target \in Commands /\ receipt[job.target] # NoReceipt
             /\ Fields(job.target, r) \in ContentOf(r) /\ Fields(job.target, r) \in Contents
  <2>1. job.target \in Commands /\ receipt[job.target].state = "applying"
    BY <1>2 DEF Jobs
  <2>2. receipt[job.target] # NoReceipt
    BY <2>1, ReceiptTypes
  <2> QED
    BY <1>2, <2>1, <2>2, FieldsType DEF AtOperation
<1>3. ASSUME NEW r \in Records,
             OperationCommits(r) \/ OperationCommitsUnprojected(r)
      PROVE  RowTypeOK'
  <2> DEFINE c == job.target
             row == [ver |-> air[r].ver + 1, content |-> Fields(c, r)]
  <2>1. job.phase = "apply" /\ AtOperation(c, r) /\ Written(c, r)
    BY <1>3 DEF OperationCommits, OperationCommitsUnprojected
  <2>2. /\ air' = [air EXCEPT ![r] = row]
        /\ ledger' = [ledger EXCEPT ![c][r] = "applied"]
    BY <2>1 DEF Written
  <2>3. c \in Commands /\ Fields(c, r) \in ContentOf(r) /\ Fields(c, r) \in Contents
    BY <1>2, <2>1
  <2>4. row \in [ver: Nat, content: Contents] /\ row.content \in ContentOf(r)
    BY <1>1, <2>3 DEF RowTypeOK
  <2> HIDE DEF row, c
  <2>5. air' \in [Records -> [ver: Nat, content: Contents]]
    BY <1>1, <2>2, <2>4 DEF RowTypeOK
  <2>6. ledger' \in [Commands -> [Records -> {"none", "applied", "failed"}]]
    BY <1>1, <2>2, <2>3 DEF RowTypeOK
  <2>7. air'[r] = row
    BY <1>1, <2>2 DEF RowTypeOK
  <2>8. proj' = proj \/ proj' = [proj EXCEPT ![r] = row]
    BY <1>3, <2>7 DEF OperationCommits, OperationCommitsUnprojected
  <2>9. proj' \in [Records -> [ver: Nat, content: Contents]]
    BY <1>1, <2>4, <2>8 DEF RowTypeOK
  <2>10. \A q \in Records : air'[q].content \in ContentOf(q) /\ proj'[q].content \in ContentOf(q)
    BY <1>1, <2>2, <2>4, <2>8 DEF RowTypeOK, RowsTyped
  <2>11. pubs' = pubs
    BY <1>3 DEF OperationCommits, OperationCommitsUnprojected
  <2> QED
    BY <1>1, <2>5, <2>6, <2>9, <2>10, <2>11 DEF RowTypeOK, RowsTyped, ContentOf
<1>4. ASSUME NEW r \in Records, OperationFails(r) PROVE RowTypeOK'
  <2>1. /\ ledger' = [ledger EXCEPT ![job.target][r] = "failed"]
        /\ air' = air /\ proj' = proj /\ pubs' = pubs
    BY <1>4 DEF OperationFails
  <2> QED
    BY <1>1, <2>1 DEF RowTypeOK, RowsTyped, ContentOf
<1>5. ASSUME NEW r \in Records, Repair(r) PROVE RowTypeOK'
  <2>1. /\ proj' = [proj EXCEPT ![r] = air[r]]
        /\ air' = air /\ ledger' = ledger /\ pubs' = pubs
    BY <1>5 DEF Repair
  <2>2. proj' \in [Records -> [ver: Nat, content: Contents]]
    BY <1>1, <2>1 DEF RowTypeOK
  <2>3. \A q \in Records : air'[q].content \in ContentOf(q) /\ proj'[q].content \in ContentOf(q)
    BY <1>1, <2>1 DEF RowTypeOK, RowsTyped
  <2> QED
    BY <1>1, <2>1, <2>2, <2>3 DEF RowTypeOK, RowsTyped, ContentOf
<1>6. CASE Edit
  <2>1. PICK q, new : q \in Records /\ Edits(q, new)
    BY <1>6, EditFields DEF Edits
  <2> DEFINE version == air[q].ver + 1
             row == [ver |-> version, content |-> new]
  <2>2. /\ air' = [air EXCEPT ![q] = row] /\ proj' = [proj EXCEPT ![q] = row]
        /\ ledger' = ledger /\ pubs' = pubs
    BY <1>6, <2>1, EditFields DEF Edits
  <2>3. version \in Nat /\ new \in ContentOf(q) /\ new \in Contents
    BY <1>1, <2>1, ContentsOf DEF RowTypeOK, Edits
  <2> HIDE DEF version
  <2>4. row \in [ver: Nat, content: Contents] /\ row.content \in ContentOf(q)
    BY <2>3
  <2> HIDE DEF row
  <2>5. /\ air' \in [Records -> [ver: Nat, content: Contents]]
        /\ proj' \in [Records -> [ver: Nat, content: Contents]]
    BY <1>1, <2>2, <2>4 DEF RowTypeOK
  <2>6. \A p \in Records : air'[p].content \in ContentOf(p) /\ proj'[p].content \in ContentOf(p)
    BY <1>1, <2>2, <2>4 DEF RowTypeOK, RowsTyped
  <2> QED
    BY <1>1, <2>2, <2>5, <2>6 DEF RowTypeOK, RowsTyped, ContentOf
<1>7. CASE ledger' = ledger /\ air' = air /\ proj' = proj /\ pubs' = pubs
  BY <1>1, <1>7 DEF RowTypeOK, RowsTyped, ContentOf
<1>8. CASE CommitPublication
  <2> DEFINE c == job.target
             new == [by |-> c, agenda |-> After(c), public |-> Live(proj)]
  <2>1. c \in Commands /\ receipt[c].state = "applying"
    BY <1>8 DEF CommitPublication, Jobs
  <2>2. After(c) \in Snapshots
    BY <2>1, ReceiptTypes, StoredCommands
  <2>3. /\ pubs' = pubs \cup {new} /\ Live(proj).version = After(c).pub
        /\ ledger' = ledger /\ air' = air /\ proj' = proj
    BY <1>8 DEF CommitPublication
  <2>4. new.public.version \in Nat
    BY <2>2, <2>3 DEF Snapshots
  <2> HIDE DEF new
  <2> QED
    BY <1>1, <2>3, <2>4 DEF RowTypeOK, RowsTyped, ContentOf
<1>9. CASE KeepBaseline
  <2> DEFINE new == [by |-> NoCommand, agenda |-> draft.before, public |-> Live(proj)]
  <2>1. /\ pubs' = {new} /\ Live(proj).version = draft.before.pub
        /\ ledger' = ledger /\ air' = air /\ proj' = proj
    BY <1>9 DEF KeepBaseline
  <2>2. draft.before \in Snapshots
    BY <1>9 DEF KeepBaseline, Drafts, Drafting
  <2>3. new.public.version \in Nat
    BY <2>1, <2>2 DEF Snapshots
  <2> HIDE DEF new
  <2> QED
    BY <1>1, <2>1, <2>3 DEF RowTypeOK, RowsTyped, ContentOf
<1>10. \/ \E r \in Records : \/ OperationCommits(r) \/ OperationCommitsUnprojected(r)
                             \/ OperationFails(r) \/ Repair(r)
       \/ Edit
       \/ CommitPublication \/ KeepBaseline
       \/ ledger' = ledger /\ air' = air /\ proj' = proj /\ pubs' = pubs
  BY DEF Next, Send, Begin, AlarmRuns, Operation, OperationPending, OperationsDone, CommitFails,
         CommitDraftChange, CalendarSettled, CalendarEnqueues, CalendarMarks, CalendarFails,
         Drained, DrainFails, Refuse, Evaluate, Load, BaselineFails, Record, Edit, Crash, dbVars
<1> QED
  BY <1>3, <1>4, <1>5, <1>6, <1>7, <1>8, <1>9, <1>10

LEMMA CallTypeStep ==
    ASSUME TypeOK, RowsTyped, Jobs, Receipts, Next
    PROVE  CallTypes'
<1>1. CallTypes
  BY TypeParts
<1>2. /\ job.by \in Commands \cup {NoCommand, Alarm}
      /\ job.target \in Commands \cup {NoCommand}
      /\ job.phase # "idle" => job.target \in Commands /\ job.by \in Commands \cup {Alarm}
  BY <1>1 DEF CallTypes, JobType, Jobs
<1> USE IdleType, CallType
<1>3. CASE job' \in JobType /\ alarm' \in BOOLEAN /\ told' = told
  BY <1>1, <1>3 DEF CallTypes
<1>4. ASSUME Suspend \/ Throw PROVE CallTypes'
  BY <1>4, EndingTypes DEF CallTypes
<1>5. ASSUME NEW next, Finish(next), job.by \in Commands => next \in JobType
      PROVE  CallTypes'
  BY <1>5, EndingTypes DEF CallTypes
<1>6. ASSUME NEW c \in Commands, Send(c) PROVE CallTypes'
  BY <1>1, <1>3, <1>6 DEF Send, CallTypes
<1>7. ASSUME NEW c \in Commands, Begin(c) PROVE CallTypes'
  <2>1. job' \in JobType
    BY <1>7, BeginGoes DEF Applying, Owed
  <2> QED
    BY <1>1, <1>3, <1>7, <2>1 DEF Begin, CallTypes
<1>8. CASE AlarmRuns
  <2>1. job' \in JobType
    BY <1>8, AlarmGoes DEF Applying, Owed
  <2>2. alarm' \in BOOLEAN /\ told' = told
    BY <1>8 DEF AlarmRuns
  <2> QED
    BY <1>3, <2>1, <2>2
<1>9. ASSUME NEW r \in Records, Operation(r) \/ Repair(r) PROVE CallTypes'
  <2>1. CASE OperationCommits(r) \/ Repair(r)
    BY <1>1, <2>1 DEF OperationCommits, Repair, CallTypes
  <2>2. CASE OperationCommitsUnprojected(r) \/ OperationPending(r) \/ OperationFails(r)
    BY <1>4, <2>2 DEF OperationCommitsUnprojected, OperationPending, OperationFails
  <2> QED
    BY <1>9, <2>1, <2>2 DEF Operation
<1>10. ASSUME NEW phase \in {"commit", "calendar", "mark", "drain", "remark", "load",
                              "baseline", "record", "apply"},
              job' = [job EXCEPT !.phase = phase]
       PROVE  job' \in JobType
  <2>1. job \in JobType
    BY <1>1 DEF CallTypes
  <2> QED
    BY <1>10, <2>1 DEF JobType
<1>11. CASE OperationsDone \/ CommitPublication \/ CommitDraftChange \/ CalendarEnqueues
              \/ Evaluate \/ Load \/ KeepBaseline \/ Record
  <2>1. alarm' = alarm /\ told' = told
    BY <1>11 DEF OperationsDone, CommitPublication, CommitDraftChange, CalendarEnqueues,
                 Evaluate, Load, KeepBaseline, Record
  <2>2. \E phase \in {"commit", "calendar", "mark", "drain", "remark", "load", "baseline",
                       "record", "apply"} :
           job' = [job EXCEPT !.phase = phase]
    BY <1>11 DEF OperationsDone, CommitPublication, CommitDraftChange, CalendarEnqueues,
                 Evaluate, Load, KeepBaseline, Record
  <2> QED
    BY <1>1, <1>3, <1>10, <2>1, <2>2 DEF CallTypes
<1>12. CASE CommitFails \/ CalendarFails \/ DrainFails \/ BaselineFails
  BY <1>4, <1>12 DEF CommitFails, CalendarFails, DrainFails, BaselineFails
<1>13. CASE CalendarSettled
  BY <1>5, <1>13 DEF CalendarSettled
<1>14. CASE CalendarMarks
  <2>1. CASE job.phase = "mark"
    BY <1>1, <1>3, <1>10, <1>14, <2>1 DEF CalendarMarks, CallTypes
  <2>2. CASE job.phase # "mark"
    BY <1>5, <1>14, <2>2 DEF CalendarMarks
  <2> QED
    BY <2>1, <2>2
<1>15. CASE Drained
  <2>1. job.by \in Commands => Onward(job.by) \in JobType
    BY OnwardGoes DEF Owed
  <2> QED
    BY <1>5, <1>15, <2>1 DEF Drained
<1>16. CASE Refuse
  BY <1>1, <1>16 DEF Refuse, CallTypes
<1>17. CASE (\E s \in Sessions : EditPublic(s)) \/ EditStatus \/ Crash
  BY <1>1, <1>3, <1>17 DEF EditPublic, EditStatus, Edited, Crash, CallTypes
<1> QED
  BY <1>6, <1>7, <1>8, <1>9, <1>11, <1>12, <1>13, <1>14, <1>15, <1>16, <1>17 DEF Next

LEMMA DraftTypeStep ==
    ASSUME TypeOK, RowsTyped, Receipts, Next
    PROVE  DraftTypes'
<1>1. DraftTypes
  BY TypeParts
<1>2. status' \in EventStatuses
  BY <1>1 DEF DraftTypes, Next, Send, Begin, AlarmRuns, Operation, OperationCommits,
              OperationCommitsUnprojected, OperationPending, OperationFails, Repair,
              OperationsDone, CommitPublication, CommitDraftChange, CommitFails, CalendarSettled,
              CalendarEnqueues, CalendarMarks, CalendarFails, Drained, DrainFails, Refuse,
              Evaluate, Load, KeepBaseline, BaselineFails, Record, EditPublic, EditStatus, Edited,
              Crash, dbVars
<1> DEFINE versions == [r \in Records |-> proj[r].ver]
<1>3. Read \in Snapshots /\ versions \in [Records -> Nat]
  BY ReadType DEF TypeOK
<1>4. NoDraft \in [before: Snapshots \cup {NoCommand}, expected: [Records -> Nat]]
  BY DEF NoDraft
<1>5. \/ draft' = draft \/ draft' = NoDraft
      \/ draft' = [draft EXCEPT !.before = Read] \/ draft' = [draft EXCEPT !.expected = versions]
  BY DEF Next, Send, Begin, AlarmRuns, Operation, OperationCommits, OperationCommitsUnprojected,
         OperationPending, OperationFails, Repair, OperationsDone, CommitPublication,
         CommitDraftChange, CommitFails, CalendarSettled, CalendarEnqueues, CalendarMarks,
         CalendarFails, Drained, DrainFails, Refuse, Evaluate, Load, KeepBaseline, BaselineFails,
         Record, EditPublic, EditStatus, Edited, Crash
<1> HIDE DEF versions
<1>6. draft' \in [before: Snapshots \cup {NoCommand}, expected: [Records -> Nat]]
  BY <1>1, <1>3, <1>4, <1>5 DEF DraftTypes
<1> QED
  BY <1>2, <1>6 DEF DraftTypes

LEMMA TypeStep ==
    ASSUME TypeOK, RowsTyped, Jobs, Drafts, Receipts, Next
    PROVE  TypeOK' /\ RowsTyped'
BY RequestTypeStep, ReceiptTypeStep, RowTypeStep, ChangeTypeStep, CallTypeStep, DraftTypeStep,
   LimitTypeStep, TypeParts, PTL

-----------------------------------------------------------------------------
(* What no step takes back *)

\* The stored part of a receipt, and the command it is for, do not change.
Kept(c) ==
    /\ request'[c] = request[c]
    /\ receipt'[c].before = receipt[c].before
    /\ receipt'[c].expected = receipt[c].expected

LEMMA KeptOperations ==
    ASSUME NEW c, Kept(c)
    PROVE  /\ Operations(c)' = Operations(c)
           /\ After(c)' = After(c)
           /\ \A r : Fields(c, r)' = Fields(c, r)
<1>1. After(c)' = After(c)
  BY DEF Kept, After
<1>2. Operations(c)' = Operations(c)
  BY DEF Kept, Operations
<1>3. \A r : Fields(c, r)' = Fields(c, r)
  BY <1>1 DEF Fields
<1> QED
  BY <1>1, <1>2, <1>3

LEMMA ReceiptsAreKept ==
    ASSUME TypeOK, Jobs, Receipts, Next, NEW c \in Commands, receipt[c] # NoReceipt
    PROVE  Kept(c)
<1>1. request[c] # NoCommand /\ DOMAIN request = Commands
  BY DEF Receipts, TypeOK
<1>2. request'[c] = request[c]
  <2>1. CASE request' = request
    BY <2>1
  <2>2. ASSUME NEW d \in Commands, Send(d) PROVE request'[c] = request[c]
    <3>1. d # c
      BY <1>1, <2>2 DEF Send
    <3>2. PICK command : request' = [request EXCEPT ![d] = command]
      BY <2>2 DEF Send
    <3> QED
      BY <1>1, <3>1, <3>2
  <2>3. (\E d \in Commands : Send(d)) \/ request' = request
    BY DEF Next, Begin, AlarmRuns, Operation, OperationCommits, OperationCommitsUnprojected,
           OperationPending, OperationFails, Repair, OperationsDone, CommitPublication,
           CommitDraftChange, CommitFails, CalendarSettled, CalendarEnqueues, CalendarMarks,
           CalendarFails, Drained, DrainFails, Refuse, Evaluate, Load, KeepBaseline, BaselineFails,
           Record, EditPublic, EditStatus, Edited, Crash
  <2> QED
    BY <2>1, <2>2, <2>3
<1>3. CASE receipt' = receipt
  BY <1>2, <1>3 DEF Kept
<1>4. CASE Record
  <2>1. receipt'[c] = receipt[c]
    BY <1>4, RecordWrites
  <2> QED
    BY <1>2, <2>1 DEF Kept
<1>5. CASE CommitPublication \/ CommitDraftChange
  <2>1. receipt' = [receipt EXCEPT ![job.target].state = "complete"]
    BY <1>5 DEF CommitPublication, CommitDraftChange, Complete
  <2>2. receipt[c] \in [state: {"applying", "complete"}, before: Snapshots,
                        expected: [Records -> Nat]]
    BY ReceiptTypes
  <2>3. receipt'[c] = receipt[c] \/ receipt'[c] = [receipt[c] EXCEPT !.state = "complete"]
    BY <2>1 DEF TypeOK
  <2> QED
    BY <1>2, <2>2, <2>3 DEF Kept
<1>6. Record \/ CommitPublication \/ CommitDraftChange \/ receipt' = receipt
  BY DEF Next, Send, Begin, AlarmRuns, Operation, OperationCommits, OperationCommitsUnprojected,
         OperationPending, OperationFails, Repair, OperationsDone, CommitFails, CalendarSettled,
         CalendarEnqueues, CalendarMarks, CalendarFails, Drained, DrainFails, Refuse, Evaluate,
         Load, KeepBaseline, BaselineFails, EditPublic, EditStatus, Edited, Crash, dbVars
<1> QED
  BY <1>3, <1>4, <1>5, <1>6

\* The call that works on an operation works for the one command being applied.
LEMMA AtWork ==
    ASSUME TypeOK, Jobs, Receipts, job.phase \in {"apply", "commit"}
    PROVE  /\ job.target \in Applying /\ job.target \in Commands
           /\ receipt[job.target] # NoReceipt
           /\ Applying = {job.target} /\ Unfinished = {job.target}
           /\ Read = receipt[job.target].before
<1>1. job.target \in Commands /\ receipt[job.target].state = "applying"
  BY DEF Jobs
<1>2. job.target \in Applying
  BY <1>1 DEF Applying
<1> QED
  BY <1>1, <1>2, ReceiptTypes, ReadWhileApplying

\* A write finds D1 and Airtable agreed on the record.
LEMMA WritesFindAgreement ==
    ASSUME TypeOK, Jobs, Receipts, Rows, job.phase = "apply",
           NEW r \in Operations(job.target), Written(job.target, r)
    PROVE  /\ r \in Records
           /\ proj[r] = air[r] /\ air[r].ver = receipt[job.target].expected[r]
           /\ receipt[job.target].expected[r] \in Nat
           /\ air'[r] = [ver |-> air[r].ver + 1, content |-> Fields(job.target, r)]
           /\ \A q \in Records : q # r => air'[q] = air[q]
           /\ ledger'[job.target][r] = "applied"
           /\ \A c \in Commands, q \in Records :
                 c # job.target \/ q # r => ledger'[c][q] = ledger[c][q]
<1>1. r \in Records /\ job.target \in Applying /\ job.target \in Commands
  BY AtWork, OperationsAreRecords
<1>2. Untouched(job.target, r)
  BY <1>1 DEF Rows, Written
<1>3. receipt[job.target].expected[r] \in Nat
  BY <1>1, AtWork, ReceiptTypes
<1>4. /\ ledger \in [Commands -> [Records -> {"none", "applied", "failed"}]]
      /\ air \in [Records -> [ver: Nat, content: Contents]]
  BY DEF TypeOK
<1> QED
  BY <1>1, <1>2, <1>3, <1>4 DEF Untouched, Written

LEMMA DurableForGood ==
    ASSUME TypeOK, RowsTyped, Jobs, Receipts, Rows, Next,
           NEW c \in Commands, receipt[c] # NoReceipt, NEW r \in Records, Durable(c, r)
    PROVE  Durable(c, r)'
<1>1. Kept(c)
  BY ReceiptsAreKept
<1>2. receipt[c].expected[r] \in Nat /\ proj[r].ver \in Nat
  BY ReceiptTypes DEF TypeOK
<1>3. SUFFICES ledger'[c][r] = "applied" /\ proj'[r].ver >= proj[r].ver
               /\ proj'[r].ver \in Int
  BY <1>1, <1>2 DEF Durable, Kept
<1>4. /\ ledger \in [Commands -> [Records -> {"none", "applied", "failed"}]]
      /\ air \in [Records -> [ver: Nat, content: Contents]]
      /\ proj \in [Records -> [ver: Nat, content: Contents]]
  BY DEF TypeOK
<1>5. ledger[c][r] = "applied"
  BY DEF Durable
<1>6. CASE ledger' = ledger /\ proj' = proj
  BY <1>2, <1>5, <1>6
<1>7. ASSUME NEW q \in Records, OperationCommits(q) \/ OperationCommitsUnprojected(q)
      PROVE  ledger'[c][r] = "applied" /\ proj'[r].ver >= proj[r].ver /\ proj'[r].ver \in Int
  <2>1. /\ job.phase = "apply" /\ q \in Operations(job.target) /\ Written(job.target, q)
        /\ proj' = [proj EXCEPT ![q] = air'[q]] \/ proj' = proj
    BY <1>7 DEF OperationCommits, OperationCommitsUnprojected, AtOperation
  <2>2. /\ proj[q] = air[q] /\ air'[q].ver = air[q].ver + 1
        /\ ledger'[c][r] = ledger[c][r] \/ ledger'[c][r] = "applied"
    <3>1. /\ proj[q] = air[q]
          /\ air'[q] = [ver |-> air[q].ver + 1, content |-> Fields(job.target, q)]
          /\ ledger'[job.target][q] = "applied"
          /\ c # job.target \/ r # q => ledger'[c][r] = ledger[c][r]
      BY <2>1, WritesFindAgreement
    <3> QED
      BY <3>1
  <2> QED
    BY <1>2, <1>4, <1>5, <2>1, <2>2
<1>8. ASSUME NEW q \in Records, OperationFails(q)
      PROVE  ledger'[c][r] = "applied" /\ proj'[r].ver >= proj[r].ver /\ proj'[r].ver \in Int
  <2>1. /\ ledger' = [ledger EXCEPT ![job.target][q] = "failed"] /\ proj' = proj
        /\ ledger[job.target][q] # "applied"
    BY <1>8 DEF OperationFails
  <2> QED
    BY <1>2, <1>4, <1>5, <2>1
<1>9. ASSUME NEW q \in Records, Repair(q)
      PROVE  ledger'[c][r] = "applied" /\ proj'[r].ver >= proj[r].ver /\ proj'[r].ver \in Int
  <2>1. /\ proj' = [proj EXCEPT ![q] = air[q]] /\ ledger' = ledger /\ proj[q] # air[q]
    BY <1>9 DEF Repair
  <2>2. PICK d \in Applying : Lagging(d, q)
    BY <2>1 DEF Rows, Untouched, Projected
  <2>3. receipt[d].expected[q] \in Nat
    BY ReceiptTypes DEF Applying
  <2>4. air[q].ver = proj[q].ver + 1
    BY <2>2, <2>3 DEF Lagging
  <2> QED
    BY <1>2, <1>4, <1>5, <2>1, <2>4
<1>10. CASE Edit
  <2>1. PICK q, new : q \in Records /\ Edits(q, new)
    BY <1>10, EditFields DEF Edits
  <2> DEFINE version == air[q].ver + 1
             row == [ver |-> version, content |-> new]
  <2>2. /\ proj[q] = air[q] /\ proj' = [proj EXCEPT ![q] = row] /\ ledger' = ledger
    BY <1>10, <2>1, EditFields DEF Edits
  <2>3. row.ver = version /\ version >= air[q].ver /\ version \in Int
    BY <1>4, <2>1
  <2> HIDE DEF row, version
  <2> QED
    BY <1>2, <1>4, <1>5, <2>2, <2>3
<1>11. \/ \E q \in Records : \/ OperationCommits(q) \/ OperationCommitsUnprojected(q)
                             \/ OperationFails(q) \/ Repair(q)
       \/ Edit
       \/ ledger' = ledger /\ proj' = proj
  BY DEF Next, Send, Begin, AlarmRuns, Operation, OperationPending, OperationsDone, CommitFails,
         CommitDraftChange, CommitPublication, CalendarSettled, CalendarEnqueues, CalendarMarks,
         CalendarFails, Drained, DrainFails, Refuse, Evaluate, Load, KeepBaseline, BaselineFails,
         Record, Edit, Crash, dbVars
<1> QED
  BY <1>6, <1>7, <1>8, <1>9, <1>10, <1>11

-----------------------------------------------------------------------------
(* Receipts *)

\* Either commit completes the receipt that is being applied.
LEMMA CommitsWrite ==
    ASSUME TypeOK, Jobs, Receipts, CommitPublication \/ CommitDraftChange
    PROVE  /\ job.phase = "commit" /\ job.target \in Applying
           /\ receipt' = [receipt EXCEPT ![job.target].state = "complete"]
           /\ change' \in {change, [change EXCEPT ![job.target] = "owed"]}
           /\ intents' = intents /\ ledger' = ledger /\ air' = air /\ proj' = proj
           /\ edits' = edits
<1>1. job.phase = "commit"
  BY DEF CommitPublication, CommitDraftChange
<1>2. job.target \in Applying
  BY <1>1, AtWork
<1> QED
  BY <1>1, <1>2 DEF CommitPublication, CommitDraftChange, Complete

\* Which steps write a receipt, a change or an intent, and what they write.
LEMMA ReceiptSteps ==
    ASSUME TypeOK, Jobs, Receipts, Next
    PROVE  \/ receipt' = receipt /\ change' = change /\ intents' = intents
           \/ /\ CommitPublication \/ CommitDraftChange
              /\ job.phase = "commit" /\ job.target \in Applying
              /\ receipt' = [receipt EXCEPT ![job.target].state = "complete"]
              /\ change' \in {change, [change EXCEPT ![job.target] = "owed"]}
              /\ intents' = intents /\ ledger' = ledger /\ air' = air /\ proj' = proj
              /\ edits' = edits
           \/ /\ CalendarEnqueues
              /\ receipt' = receipt /\ change' = change /\ intents' = intents \cup {job.target}
           \/ /\ CalendarMarks /\ job.phase \in {"mark", "remark"}
              /\ job.target \in Owed /\ job.target \in intents
              /\ receipt' = receipt /\ change' = [change EXCEPT ![job.target] = "enqueued"]
              /\ intents' = intents
           \/ Record /\ change' = change /\ intents' = intents
<1>2. ASSUME CalendarEnqueues
      PROVE  receipt' = receipt /\ change' = change /\ intents' = intents \cup {job.target}
  BY <1>2 DEF CalendarEnqueues
<1>3. ASSUME CalendarMarks
      PROVE  /\ job.phase \in {"mark", "remark"}
             /\ job.target \in Owed /\ job.target \in intents
             /\ receipt' = receipt /\ change' = [change EXCEPT ![job.target] = "enqueued"]
             /\ intents' = intents
  BY <1>3 DEF CalendarMarks, Jobs, Owed
<1>4. \/ CommitPublication \/ CommitDraftChange \/ CalendarEnqueues \/ CalendarMarks
      \/ Record /\ change' = change /\ intents' = intents
      \/ receipt' = receipt /\ change' = change /\ intents' = intents
  BY DEF Next, Send, Begin, AlarmRuns, Operation, OperationCommits, OperationCommitsUnprojected,
         OperationPending, OperationFails, Repair, OperationsDone, CommitFails, CalendarSettled,
         CalendarFails, Drained, DrainFails, Refuse, Evaluate, Load, KeepBaseline, BaselineFails,
         Record, EditPublic, EditStatus, Edited, Crash, dbVars
<1> QED
  BY <1>2, <1>3, <1>4, CommitsWrite

\* A receipt after a step was there before it, or Record has just written it.
LEMMA ReceiptsComeFrom ==
    ASSUME TypeOK, Jobs, Receipts, Next, NEW c \in Commands
    PROVE  \/ receipt'[c] = receipt[c]
           \/ /\ job.phase = "commit" /\ c = job.target /\ c \in Applying
              /\ receipt[c].state = "applying" /\ receipt[c] # NoReceipt
              /\ receipt'[c].state = "complete" /\ receipt'[c] # NoReceipt
           \/ /\ Record /\ c = job.by /\ receipt[c] = NoReceipt
              /\ receipt'[c].state = "applying" /\ receipt'[c] # NoReceipt
              /\ receipt'[c].before = draft.before
              /\ receipt'[c].expected = draft.expected
<1>1. receipt \in [Commands ->
                   {NoReceipt} \cup [state: {"applying", "complete"}, before: Snapshots,
                                     expected: [Records -> Nat]]]
  BY DEF TypeOK
<1>2. CASE receipt' = receipt
  BY <1>2
<1>3. ASSUME receipt' = [receipt EXCEPT ![job.target].state = "complete"],
             job.target \in Applying, job.phase = "commit"
      PROVE  \/ receipt'[c] = receipt[c]
             \/ /\ job.phase = "commit" /\ c = job.target /\ c \in Applying
                /\ receipt[c].state = "applying" /\ receipt[c] # NoReceipt
                /\ receipt'[c].state = "complete" /\ receipt'[c] # NoReceipt
  <2>1. CASE c # job.target
    BY <1>1, <1>3, <2>1
  <2>2. CASE c = job.target
    <3>1. receipt[c].state = "applying"
      BY <1>3, <2>2 DEF Applying
    <3>2. receipt[c] \in [state: {"applying", "complete"}, before: Snapshots,
                          expected: [Records -> Nat]]
      BY <3>1, ReceiptTypes
    <3>3. receipt'[c] = [receipt[c] EXCEPT !.state = "complete"]
      BY <1>1, <1>3, <2>2
    <3>4. receipt'[c].state = "complete"
      BY <3>2, <3>3
    <3> QED
      BY <1>3, <2>2, <3>1, <3>4, ReceiptTypes DEF NoReceipt
  <2> QED
    BY <2>1, <2>2
<1>4. CASE Record
  <2> DEFINE new == [state |-> "applying", before |-> draft.before, expected |-> draft.expected]
  <2>1. /\ new.state = "applying" /\ new # NoReceipt
        /\ new.before = draft.before /\ new.expected = draft.expected
    BY DEF NoReceipt
  <2>2. receipt' = [receipt EXCEPT ![job.by] = new] /\ receipt[job.by] = NoReceipt
    BY <1>4, RecordWrites
  <2> HIDE DEF new
  <2>3. receipt'[c] = IF c = job.by THEN new ELSE receipt[c]
    BY <1>1, <2>2
  <2> QED
    BY <1>4, <2>1, <2>2, <2>3
<1> QED
  BY <1>2, <1>3, <1>4, ReceiptSteps

\* A step adds to the unfinished commands only when there are none.
LEMMA UnfinishedStep ==
    ASSUME TypeOK, Jobs, Receipts, Next
    PROVE  Unfinished' \subseteq Unfinished \/ (Record /\ Unfinished' \subseteq {job.by})
<1>1. /\ receipt \in [Commands ->
                        {NoReceipt} \cup [state: {"applying", "complete"}, before: Snapshots,
                                          expected: [Records -> Nat]]]
      /\ change \in [Commands -> {"none", "owed", "enqueued"}]
  BY DEF TypeOK
<1>2. CASE receipt' = receipt /\ change' = change
  BY <1>2 DEF Unfinished, Applying, Owed
<1>3. CASE CommitPublication \/ CommitDraftChange
  <2>1. /\ job.target \in Applying
        /\ receipt' = [receipt EXCEPT ![job.target].state = "complete"]
        /\ change' \in {change, [change EXCEPT ![job.target] = "owed"]}
    BY <1>3, CommitsWrite
  <2>2. \A c \in Commands : c # job.target =>
            receipt'[c] = receipt[c] /\ change'[c] = change[c]
    BY <1>1, <2>1
  <2>3. \A c \in Unfinished' : c \in Commands /\ (c # job.target => c \in Unfinished)
    BY <2>2 DEF Unfinished, Applying, Owed
  <2> QED
    BY <2>1, <2>3 DEF Unfinished
<1>4. CASE receipt' = receipt /\ change' = [change EXCEPT ![job.target] = "enqueued"]
  <2>1. \A c \in Commands : change'[c] = "owed" => change[c] = "owed"
    BY <1>1, <1>4
  <2> QED
    BY <1>4, <2>1 DEF Unfinished, Applying, Owed
<1>5. CASE Record
  <2>1. \A c \in Commands : c # job.by => receipt'[c] = receipt[c] /\ change'[c] = change[c]
    BY <1>5, RecordWrites
  <2>2. Unfinished = {}
    BY <1>5, RecordWrites
  <2> QED
    BY <1>5, <2>1, <2>2 DEF Unfinished, Applying, Owed
<1> QED
  BY <1>2, <1>3, <1>4, <1>5, ReceiptSteps

LEMMA ReceiptsStep ==
    ASSUME TypeOK, RowsTyped, Jobs, Drafts, Receipts, Rows, Next
    PROVE  Receipts'
<1>1. \A c, d \in Unfinished' : c = d
  BY UnfinishedStep DEF Receipts
<1>2. ASSUME NEW c \in Commands, receipt'[c] # NoReceipt
      PROVE  /\ request'[c] # NoCommand
             /\ Accepts(receipt'[c].before, request'[c])
             /\ Tidy(receipt'[c].before)
  <2>1. CASE receipt[c] # NoReceipt
    BY <2>1, ReceiptsAreKept DEF Kept, Receipts
  <2>2. CASE receipt[c] = NoReceipt
    <3>1. Record /\ c = job.by /\ receipt'[c].before = draft.before
      BY <1>2, <2>2, ReceiptsComeFrom
    <3>2. /\ Drafting /\ request[c] # NoCommand /\ request' = request
      BY <3>1, RecordWrites
    <3> QED
      BY <3>1, <3>2 DEF Drafts
  <2> QED
    BY <2>1, <2>2
<1>3. ASSUME NEW c \in Commands, receipt'[c] = NoReceipt, NEW r \in Records
      PROVE  ledger'[c][r] = "none"
  <2>1. receipt[c] = NoReceipt
    BY <1>3, ReceiptsComeFrom
  <2>2. ledger[c][r] = "none" /\ receipt[c].state = "none"
    BY <2>1, ReceiptTypes DEF Receipts
  <2>3. job.phase = "apply" => c # job.target
    BY <2>2 DEF Jobs
  <2>4. CASE ledger' = ledger
    BY <2>2, <2>4
  <2>5. ASSUME job.phase = "apply",
               \E q \in Records, outcome \in {"applied", "failed"} :
                  ledger' = [ledger EXCEPT ![job.target][q] = outcome]
        PROVE  ledger'[c][r] = "none"
    BY <2>2, <2>3, <2>5 DEF TypeOK
  <2>6. \/ ledger' = ledger
        \/ /\ job.phase = "apply"
           /\ \E q \in Records, outcome \in {"applied", "failed"} :
                 ledger' = [ledger EXCEPT ![job.target][q] = outcome]
    BY DEF Next, Send, Begin, AlarmRuns, Operation, OperationCommits, Written,
           OperationCommitsUnprojected, OperationPending, OperationFails, Repair, OperationsDone,
           CommitPublication, CommitDraftChange, CommitFails, CalendarSettled, CalendarEnqueues,
           CalendarMarks, CalendarFails, Drained, DrainFails, Refuse, Evaluate, Load, KeepBaseline,
           BaselineFails, Record, EditPublic, EditStatus, Edited, Crash, dbVars
  <2> QED
    BY <2>4, <2>5, <2>6
<1>4. ASSUME NEW c \in Commands, receipt'[c].state # "complete" PROVE change'[c] = "none"
  <2>1. receipt[c].state # "complete"
    BY <1>4, ReceiptsComeFrom, ReceiptTypes
  <2>2. change[c] = "none"
    BY <2>1 DEF Receipts
  <2>3. c \notin Owed
    BY <2>1 DEF Owed
  <2>4. CASE CommitPublication \/ CommitDraftChange
    <3>1. receipt' = [receipt EXCEPT ![job.target].state = "complete"]
          /\ job.target \in Applying
      BY <2>4, CommitsWrite
    <3>2. c # job.target
      BY <1>4, <3>1, ReceiptTypes DEF TypeOK, Applying
    <3> QED
      BY <2>2, <2>4, <3>2, CommitsWrite DEF TypeOK
  <2>5. CASE change' = change
    BY <2>2, <2>5
  <2>6. CASE job.target \in Owed /\ change' = [change EXCEPT ![job.target] = "enqueued"]
    BY <2>2, <2>3, <2>6 DEF TypeOK
  <2> QED
    BY <2>4, <2>5, <2>6, ReceiptSteps
<1>5. ASSUME NEW c \in Commands, receipt'[c].state = "complete", NEW r \in Operations(c)'
      PROVE  Durable(c, r)'
  <2>1. /\ receipt[c] # NoReceipt
        /\ receipt[c].state = "complete" \/ (job.phase = "commit" /\ c = job.target)
    BY <1>5, ReceiptsComeFrom, ReceiptTypes
  <2>2. r \in Operations(c)
    BY <2>1, ReceiptsAreKept, KeptOperations
  <2>3. r \in Records
    BY <2>1, <2>2, OperationsAreRecords
  <2>4. Durable(c, r)
    BY <2>1, <2>2 DEF Jobs, Receipts
  <2> QED
    BY <2>1, <2>3, <2>4, DurableForGood
<1>6. ASSUME NEW c \in Commands, change'[c] = "enqueued" PROVE c \in intents'
  <2>1. CASE change[c] = "enqueued"
    <3>1. c \in intents
      BY <2>1 DEF Receipts
    <3> QED
      BY <3>1, ReceiptSteps
  <2>2. CASE change[c] # "enqueued"
    BY <1>6, <2>2, ReceiptSteps DEF TypeOK
  <2> QED
    BY <2>1, <2>2
<1> QED
  BY <1>1, <1>2, <1>3, <1>4, <1>5, <1>6 DEF Receipts

-----------------------------------------------------------------------------
(* Answers and calls *)

\* "committed" is told at the end of a call for its own, finished target.
LEMMA NewlyTold ==
    ASSUME TypeOK, Next, NEW c \in Commands,
           "committed" \in told'[c], "committed" \notin told[c]
    PROVE  /\ c = job.target
           /\ \/ Drained \/ CalendarSettled
              \/ CalendarMarks /\ job.phase # "mark"
<1>1. told \in [Commands -> SUBSET {"committed", "pending", "refused"}]
  BY DEF TypeOK
<1>2. ASSUME Suspend \/ Throw PROVE FALSE
  BY <1>1, <1>2 DEF Suspend, Throw
<1>3. ASSUME NEW next, Finish(next) PROVE c = job.target
  BY <1>1, <1>3 DEF Finish
<1>4. told' # told
  OBVIOUS
<1>5. CASE Refuse
  BY <1>1, <1>5 DEF Refuse
<1>6. \/ Refuse \/ Suspend \/ Throw
      \/ Drained \/ CalendarSettled
      \/ CalendarMarks /\ job.phase # "mark"
  BY <1>4 DEF Next, Send, Begin, AlarmRuns, Operation, OperationCommits,
              OperationCommitsUnprojected, OperationPending, OperationFails, Repair, OperationsDone,
              CommitPublication, CommitDraftChange, CommitFails, CalendarEnqueues, CalendarMarks,
              CalendarFails, DrainFails, Evaluate, Load, KeepBaseline, BaselineFails, Record,
              EditPublic, EditStatus, Edited, Crash
<1> QED
  BY <1>2, <1>3, <1>5, <1>6 DEF Drained, CalendarSettled, CalendarMarks

LEMMA AnswersStep ==
    ASSUME TypeOK, RowsTyped, Jobs, Receipts, Answers, Rows, Next
    PROVE  Answers'
<1> SUFFICES ASSUME NEW c \in Commands, "committed" \in told'[c]
             PROVE  receipt'[c].state = "complete" /\ change'[c] # "owed"
  BY DEF Answers
<1>0. change \in [Commands -> {"none", "owed", "enqueued"}]
  BY DEF TypeOK
<1>1. CASE "committed" \in told[c]
  <2>1. receipt[c].state = "complete" /\ change[c] # "owed"
    BY <1>1 DEF Answers
  <2>2. receipt'[c].state = "complete"
    BY <2>1, ReceiptsComeFrom, ReceiptTypes
  <2>3. c \notin Applying
    BY <2>1 DEF Applying
  <2> QED
    BY <1>0, <2>1, <2>2, <2>3, ReceiptSteps
<1>2. CASE "committed" \notin told[c]
  <2>1. /\ c = job.target
        /\ \/ Drained \/ CalendarSettled
           \/ CalendarMarks /\ job.phase # "mark"
    BY <1>2, NewlyTold
  <2>2. CASE Drained \/ CalendarSettled
    <3>1. receipt' = receipt /\ change' = change
      BY <2>2 DEF Drained, CalendarSettled, dbVars
    <3>2. receipt[c].state = "complete"
      BY <2>1, <2>2 DEF Jobs, Drained, CalendarSettled
    <3>3. CASE Drained
      <4>1. Unfinished = {}
        BY <3>3 DEF Jobs, Drained
      <4> QED
        BY <3>1, <3>2, <4>1 DEF Unfinished, Owed
    <3>4. CASE CalendarSettled
      BY <2>1, <3>1, <3>2, <3>4 DEF CalendarSettled
    <3> QED
      BY <2>2, <3>3, <3>4
  <2>3. CASE CalendarMarks
    <3>1. receipt' = receipt /\ change' = [change EXCEPT ![c] = "enqueued"]
      BY <2>1, <2>3 DEF CalendarMarks
    <3>2. receipt[c].state = "complete"
      BY <2>1, <2>3 DEF Jobs, CalendarMarks
    <3> QED
      BY <1>0, <3>1, <3>2
  <2> QED
    BY <2>1, <2>2, <2>3
<1> QED
  BY <1>1, <1>2

LEMMA CallerStays ==
    ASSUME TypeOK, Jobs, Receipts, Next, job.by \in Commands
    PROVE  /\ request'[job.by] # NoCommand
           /\ job.by # job.target => receipt'[job.by] = NoReceipt
<1>1. request[job.by] # NoCommand /\ (job.by # job.target => receipt[job.by] = NoReceipt)
  BY DEF Jobs
<1>2. request'[job.by] # NoCommand
  <2>1. CASE request' = request
    BY <1>1, <2>1
  <2>2. ASSUME NEW d \in Commands, Send(d) PROVE request'[job.by] # NoCommand
    <3>1. d # job.by
      BY <1>1, <2>2 DEF Send
    <3>2. PICK command : request' = [request EXCEPT ![d] = command]
      BY <2>2 DEF Send
    <3> QED
      BY <1>1, <3>1, <3>2 DEF TypeOK
  <2>3. (\E d \in Commands : Send(d)) \/ request' = request
    BY DEF Next, Begin, AlarmRuns, Operation, OperationCommits, OperationCommitsUnprojected,
           OperationPending, OperationFails, Repair, OperationsDone, CommitPublication,
           CommitDraftChange, CommitFails, CalendarSettled, CalendarEnqueues, CalendarMarks,
           CalendarFails, Drained, DrainFails, Refuse, Evaluate, Load, KeepBaseline, BaselineFails,
           Record, EditPublic, EditStatus, Edited, Crash
  <2> QED
    BY <2>1, <2>2, <2>3
<1>3. job.by # job.target => receipt'[job.by] = NoReceipt
  <2>1. Record => job.by = job.target
    BY DEF Record, Jobs
  <2> QED
    BY <1>1, <2>1, ReceiptsComeFrom
<1> QED
  BY <1>2, <1>3

\* A call that goes on for the caller of the call before.
LEMMA JobGoesOn ==
    ASSUME TypeOK, Jobs, Receipts, Next, job.phase # "idle",
           NEW phase \in {"apply", "commit", "calendar", "mark", "remark", "drain",
                          "load", "baseline", "record"},
           job' = [job EXCEPT !.phase = phase],
           phase \in {"apply", "commit"} => receipt'[job.target].state = "applying",
           phase = "commit" => \A r \in Operations(job.target)' : Durable(job.target, r)',
           phase \in {"calendar", "mark", "remark", "drain"} =>
              receipt'[job.target].state = "complete",
           phase \in {"calendar", "mark", "remark"} => change'[job.target] = "owed",
           phase \in {"mark", "remark"} => job.target \in intents',
           phase = "drain" => Unfinished' = {},
           phase \in {"load", "baseline", "record"} =>
              /\ job.by = job.target /\ receipt'[job.target] = NoReceipt /\ Unfinished' = {}
    PROVE  Jobs'
<1>1. job'.by = job.by /\ job'.target = job.target /\ job'.phase = phase
  BY DEF TypeOK
<1>2. job.by # NoCommand /\ job.target \in Commands
  BY DEF Jobs
<1> QED
  BY <1>1, <1>2, CallerStays DEF Jobs

\* A call that ends, or one whose caller's own turn has come.
LEMMA JobEnds ==
    ASSUME job' = Idle
    PROVE  Jobs'
BY CallersAssumption DEF Idle, Jobs

LEMMA JobTurns ==
    ASSUME NEW c \in Commands, job' = Call(c, c, "evaluate"),
           request'[c] # NoCommand, receipt'[c] = NoReceipt, Unfinished' = {}
    PROVE  Jobs'
BY CallersAssumption DEF Call, Jobs

LEMMA JobsStep ==
    ASSUME TypeOK, RowsTyped, Jobs, Receipts, Rows, Next
    PROVE  Jobs'
<1>0. /\ job \in JobType /\ NoReceipt.state = "none"
      /\ change \in [Commands -> {"none", "owed", "enqueued"}]
  BY ReceiptTypes DEF TypeOK, JobType, NoReceipt
<1>1. ASSUME Suspend \/ Throw PROVE Jobs'
  BY <1>1, JobEnds DEF Suspend, Throw
<1>2. ASSUME job' = job, receipt' = receipt, change' = change, intents' = intents PROVE Jobs'
  <2>1. \A c \in Commands : receipt[c].state = "applying" /\ job.phase = "commit"
            /\ c = job.target =>
              \A r \in Operations(c)' : Durable(c, r)'
    <3> SUFFICES ASSUME NEW c \in Commands, receipt[c].state = "applying", job.phase = "commit",
                        c = job.target, NEW r \in Operations(c)'
                 PROVE  Durable(c, r)'
      OBVIOUS
    <3>1. receipt[c] # NoReceipt
      BY <1>0
    <3>2. r \in Operations(c)
      BY <3>1, ReceiptsAreKept, KeptOperations
    <3> QED
      BY <3>1, <3>2, OperationsAreRecords, DurableForGood DEF Jobs
  <2>2. Unfinished' = Unfinished
    BY <1>2 DEF Unfinished, Applying, Owed
  <2>3. job.by \in Commands => request'[job.by] # NoCommand
    BY CallerStays
  <2>4. job.phase = "commit" => \A r \in Operations(job.target)' : Durable(job.target, r)'
    BY <1>2, <2>1 DEF Jobs
  <2> QED
    BY <1>2, <2>2, <2>3, <2>4 DEF Jobs
<1>3. ASSUME NEW c \in Commands, Send(c) PROVE Jobs'
  BY <1>2, <1>3 DEF Send, dbVars
<1>4. ASSUME NEW c \in Commands, Begin(c) PROVE Jobs'
  <2>1. /\ receipt' = receipt /\ change' = change /\ intents' = intents /\ request' = request
        /\ request[c] # NoCommand
    BY <1>4 DEF Begin, dbVars
  <2>2. Unfinished' = Unfinished
    BY <2>1 DEF Unfinished, Applying, Owed
  <2>3. CASE receipt[c].state = "complete" /\ job' = Call(c, c, "repair")
    BY <1>0, <2>1, <2>3, CallersAssumption DEF Call, Jobs
  <2>4. CASE receipt[c].state = "applying" /\ job' = Call(c, c, "apply")
    BY <1>0, <2>1, <2>4, CallersAssumption DEF Call, Jobs
  <2>5. ASSUME receipt[c] = NoReceipt, NEW t \in Applying, job' = Call(c, t, "apply")
        PROVE  Jobs'
    BY <1>0, <2>1, <2>5, CallersAssumption DEF Call, Jobs, Applying
  <2>6. ASSUME receipt[c] = NoReceipt, NEW t \in Owed, job' = Call(c, t, "repair")
        PROVE  Jobs'
    BY <1>0, <2>1, <2>6, CallersAssumption DEF Call, Jobs, Owed
  <2>7. CASE receipt[c] = NoReceipt /\ Unfinished = {} /\ job' = Call(c, c, "evaluate")
    BY <2>1, <2>2, <2>7, JobTurns
  <2> QED
    BY <1>4, <2>3, <2>4, <2>5, <2>6, <2>7, BeginGoes
<1>5. CASE AlarmRuns
  <2>1. receipt' = receipt /\ change' = change /\ intents' = intents
    BY <1>5 DEF AlarmRuns, dbVars
  <2>2. ASSUME NEW t \in Applying, job' = Call(Alarm, t, "apply") PROVE Jobs'
    BY <2>1, <2>2, CallersAssumption DEF Call, Jobs, Applying
  <2>3. ASSUME NEW t \in Owed, job' = Call(Alarm, t, "repair") PROVE Jobs'
    BY <2>1, <2>3, CallersAssumption DEF Call, Jobs, Owed
  <2> QED
    BY <1>5, <2>2, <2>3, AlarmGoes, JobEnds
<1>6. ASSUME NEW r \in Records, Operation(r) \/ Repair(r) PROVE Jobs'
  BY <1>1, <1>2, <1>6 DEF Operation, OperationCommits, OperationCommitsUnprojected,
                          OperationPending, OperationFails, Repair, dbVars
<1>7. CASE OperationsDone
  <2>1. /\ job' = [job EXCEPT !.phase = "commit"] /\ job.phase = "apply"
        /\ receipt' = receipt
        /\ \A r \in Operations(job.target) : Durable(job.target, r)
        /\ request' = request /\ ledger' = ledger /\ proj' = proj
    BY <1>7 DEF OperationsDone, dbVars
  <2>2. job'.target = job.target
    BY <1>0, <2>1 DEF JobType
  <2>3. \A r \in Operations(job.target)' : Durable(job.target, r)'
    BY <2>1, <2>2 DEF Operations, Durable
  <2>4. receipt[job.target].state = "applying"
    BY <2>1 DEF Jobs
  <2>5. receipt'[job.target].state = "applying"
    BY <2>1, <2>4
  <2> QED
    BY <2>1, <2>3, <2>5, JobGoesOn
<1>8. ASSUME CommitPublication \/ CommitDraftChange
      PROVE  /\ receipt'[job.target].state = "complete" /\ change[job.target] = "none"
             /\ job.phase = "commit" /\ job.target \in Commands
             /\ change' = change => Unfinished' = {}
  <2>1. /\ job.phase = "commit" /\ job.target \in Applying
        /\ receipt' = [receipt EXCEPT ![job.target].state = "complete"]
    BY <1>8, CommitsWrite
  <2>2. job.target \in Commands /\ Unfinished = {job.target} /\ receipt[job.target] # NoReceipt
        /\ receipt[job.target].state = "applying"
    BY <2>1, AtWork DEF Applying
  <2>3. receipt'[job.target].state = "complete"
    BY <2>1, <2>2, ReceiptTypes DEF TypeOK
  <2>4. change[job.target] = "none"
    BY <2>2 DEF Receipts
  <2>5. ~Record
    BY <2>1 DEF Record
  <2>6. Unfinished' \subseteq {job.target}
    BY <2>2, <2>5, UnfinishedStep
  <2>7. change' = change => job.target \notin Unfinished'
    BY <2>3, <2>4 DEF Unfinished, Applying, Owed
  <2> QED
    BY <2>1, <2>2, <2>3, <2>4, <2>6, <2>7
<1>9. CASE CommitPublication
  <2>1. job' = [job EXCEPT !.phase = "drain"] /\ change' = change
    BY <1>9 DEF CommitPublication
  <2> QED
    BY <1>8, <1>9, <2>1, JobGoesOn
<1>10. CASE CommitDraftChange
  <2>1. CASE change' = [change EXCEPT ![job.target] = "owed"]
             /\ job' = [job EXCEPT !.phase = "calendar"]
    <3>1. change'[job.target] = "owed"
      BY <1>0, <1>8, <1>10, <2>1
    <3> QED
      BY <1>8, <1>10, <2>1, <3>1, JobGoesOn
  <2>2. CASE change' = change /\ job' = [job EXCEPT !.phase = "drain"]
    BY <1>8, <1>10, <2>2, JobGoesOn
  <2> QED
    BY <1>10, <2>1, <2>2 DEF CommitDraftChange
<1>11. CASE CommitFails \/ CalendarFails \/ DrainFails
  BY <1>1, <1>11 DEF CommitFails, CalendarFails, DrainFails
<1>12. CASE CalendarSettled
  <2>1. job.phase = "repair" /\ change[job.target] # "owed"
        /\ Finish(Call(job.by, job.by, "evaluate"))
    BY <1>12 DEF CalendarSettled
  <2>2. job.by = job.target
    BY <2>1 DEF Jobs
  <2> QED
    BY <2>1, <2>2, FinishGoes, JobEnds
<1>13. CASE CalendarEnqueues
  <2>1. /\ receipt' = receipt /\ change' = change /\ job.target \in intents'
        /\ change[job.target] = "owed" /\ job.phase \in {"calendar", "repair"}
        /\ \/ job' = [job EXCEPT !.phase = "remark"]
           \/ job' = [job EXCEPT !.phase = "mark"]
    BY <1>13 DEF CalendarEnqueues
  <2>2. receipt[job.target].state = "complete"
    BY <2>1 DEF Jobs
  <2> QED
    BY <2>1, <2>2, JobGoesOn
<1>14. CASE CalendarMarks
  <2>1. /\ receipt' = receipt /\ change' = [change EXCEPT ![job.target] = "enqueued"]
        /\ job.phase \in {"mark", "remark"}
    BY <1>14 DEF CalendarMarks
  <2>2. /\ receipt[job.target].state = "complete" /\ change[job.target] = "owed"
        /\ job.target \in Commands
    BY <2>1 DEF Jobs
  <2>3. Unfinished = {job.target}
    BY <2>2 DEF Receipts, Unfinished, Owed
  <2>4. Unfinished' \subseteq {job.target}
    <3>1. ~Record
      BY <2>1 DEF Record
    <3> QED
      BY <2>3, <3>1, UnfinishedStep
  <2>5. job.target \notin Unfinished'
    BY <1>0, <2>1, <2>2 DEF Unfinished, Applying, Owed
  <2>6. Unfinished' = {}
    BY <2>4, <2>5
  <2>7. CASE job.phase = "mark"
    <3>1. job' = [job EXCEPT !.phase = "drain"]
      BY <1>14, <2>7 DEF CalendarMarks
    <3> QED
      BY <2>1, <2>2, <2>6, <2>7, <3>1, JobGoesOn
  <2>8. CASE job.phase = "remark"
    <3>1. Finish(Call(job.by, job.by, "evaluate"))
      BY <1>14, <2>8 DEF CalendarMarks
    <3>2. CASE job' = Idle
      BY <3>2, JobEnds
    <3>3. CASE job' = Call(job.by, job.by, "evaluate") /\ job.by # job.target /\ job.by # Alarm
      <4>1. job.by \in Commands
        BY <1>0, <2>8, <3>3 DEF Jobs, JobType
      <4> QED
        BY <2>6, <3>3, <4>1, CallerStays, JobTurns
    <3> QED
      BY <3>1, <3>2, <3>3, FinishGoes
  <2> QED
    BY <2>1, <2>7, <2>8
<1>15. CASE Drained
  <2>1. /\ job.phase = "drain" /\ Finish(Onward(job.by))
        /\ receipt' = receipt /\ change' = change
    BY <1>15 DEF Drained, dbVars
  <2>2. Unfinished = {} /\ Unfinished' = {}
    BY <2>1 DEF Jobs, Unfinished, Applying, Owed
  <2>3. Onward(job.by) = Call(job.by, job.by, "evaluate")
    BY <2>2, OnwardGoes DEF Unfinished
  <2>4. CASE job' = Idle
    BY <2>4, JobEnds
  <2>5. CASE job' = Call(job.by, job.by, "evaluate") /\ job.by # job.target /\ job.by # Alarm
    <3>1. job.by \in Commands
      BY <1>0, <2>1, <2>5 DEF Jobs, JobType
    <3> QED
      BY <2>2, <2>5, <3>1, CallerStays, JobTurns
  <2> QED
    BY <2>1, <2>3, <2>4, <2>5, FinishGoes
<1>16. CASE Refuse \/ BaselineFails \/ Crash
  BY <1>16, JobEnds DEF Refuse, BaselineFails, Throw, Crash
<1>17. CASE Evaluate \/ Load \/ KeepBaseline
  <2>1. /\ job.phase \in {"evaluate", "load", "baseline"}
        /\ \E phase \in {"load", "baseline", "record"} : job' = [job EXCEPT !.phase = phase]
        /\ receipt' = receipt /\ change' = change
    BY <1>17 DEF Evaluate, Load, KeepBaseline, dbVars
  <2>2. /\ job.by = job.target /\ receipt'[job.target] = NoReceipt /\ Unfinished' = {}
    BY <2>1 DEF Jobs, Unfinished, Applying, Owed
  <2> QED
    BY <2>1, <2>2, JobGoesOn
<1>18. CASE Record
  <2>1. /\ job.phase # "idle" /\ job' = [job EXCEPT !.phase = "apply"]
        /\ job.by = job.target /\ job.by \in Commands /\ receipt[job.by] = NoReceipt
    BY <1>18, RecordWrites DEF Record
  <2> DEFINE new == [state |-> "applying", before |-> draft.before, expected |-> draft.expected]
  <2>2. receipt' = [receipt EXCEPT ![job.by] = new] /\ new.state = "applying"
    BY <1>18, RecordWrites
  <2> HIDE DEF new
  <2>3. receipt'[job.target].state = "applying"
    BY <2>1, <2>2 DEF TypeOK
  <2> QED
    BY <2>1, <2>3, JobGoesOn
<1>19. CASE Edit
  BY <1>2, <1>19, EditFields
<1> QED
  BY <1>3, <1>4, <1>5, <1>6, <1>7, <1>9, <1>10, <1>11, <1>12, <1>13, <1>14, <1>15, <1>16,
     <1>17, <1>18, <1>19 DEF Next, Edit

-----------------------------------------------------------------------------
(* Rows *)

\* A snapshot shows the rows it was read from.
LEMMA SnapshotShows ==
    ASSUME TypeOK, RowsTyped, NEW r \in Records
    PROVE  Shows(Snapshot(proj), r, proj[r].content)
<1>1. CASE r = EventRecord
  <2>1. proj[r].content \in ContentOf(r) /\ ContentOf(r) = [version: Nat, pub: Nat]
    BY <1>1, Kinds DEF RowsTyped, ContentOf
  <2> DEFINE event == proj[r].content
  <2>2. event = [version |-> event.version, pub |-> event.pub]
    <3>1. event \in [version: Nat, pub: Nat]
      BY <2>1
    <3> HIDE DEF event
    <3> QED
      BY <3>1
  <2> QED
    BY <1>1, <2>2, ShowsOf, SnapshotFields
<1>2. ASSUME NEW s \in Sessions, r = SessionRecord(s) \/ r = SlotRecord(s)
      PROVE  Shows(Snapshot(proj), r, proj[r].content)
  <2> DEFINE own == proj[SessionRecord(s)].content
             slot == proj[SlotRecord(s)].content
             view == Snapshot(proj).session[s]
  <2>1. /\ own \in [state: States, public: BOOLEAN, length: Nat]
        /\ slot \in [cell: Cells \cup {NoCell}, pub: Nat]
    BY RowTypes
  <2>2. view = [state |-> own.state, public |-> own.public, length |-> own.length,
                cell |-> IF HasSlot(own) THEN slot.cell ELSE NoCell,
                slotPub |-> IF HasSlot(own) THEN slot.pub ELSE 0]
    BY SnapshotFields DEF RowView
  <2>3. own = [state |-> own.state, public |-> own.public, length |-> own.length]
    BY <2>1
  <2>4. slot = [cell |-> slot.cell, pub |-> slot.pub]
    BY <2>1
  <2> HIDE DEF own, slot, view
  <2>5. view.state = own.state /\ view.public = own.public /\ view.length = own.length
    BY <2>2
  <2>6. HasSlot(view) => view.cell = slot.cell /\ view.slotPub = slot.pub
    BY <2>2 DEF HasSlot
  <2>7. CASE r = SessionRecord(s)
    <3>1. Kin(r, own, [state |-> view.state, public |-> view.public, length |-> view.length])
      BY <2>3, <2>5 DEF Kin
    <3> QED
      BY <2>7, <3>1, ShowsOf DEF own, view
  <2>8. CASE r = SlotRecord(s)
    <3>1. HasSlot(view) => slot = [cell |-> view.cell, pub |-> view.slotPub]
      BY <2>4, <2>6
    <3> QED
      BY <2>8, <3>1, ShowsOf DEF slot, view
  <2> QED
    BY <1>2, <2>7, <2>8
<1> QED
  BY <1>1, <1>2, Kinds

\* One record of the command c being applied, before and after a step.
RowOf(c, r) ==
    /\ ledger[c][r] # "applied" => Untouched(c, r)
    /\ ledger[c][r] = "applied" => r \in Operations(c) /\ (Projected(c, r) \/ Lagging(c, r))

LEMMA RowsByRecord ==
    Rows <=> /\ Applying = {} => proj = air
             /\ \A c \in Applying, r \in Records : RowOf(c, r)
BY DEF Rows, RowOf

\* What a record shows it goes on showing: editing only allows for more.
LEMMA ShowsKept ==
    ASSUME NEW r \in Records, edits \in Nat, edits' \in Nat, edits' >= edits
    PROVE  \A a, x : Shows(a, r, x) => Shows(a, r, x)'
<1> SUFFICES ASSUME NEW a, NEW x, Shows(a, r, x) PROVE Shows(a, r, x)'
  OBVIOUS
<1>1. CASE r[1] = "event"
  BY <1>1 DEF Shows
<1>2. CASE r[1] = "session"
  <2> DEFINE y == [state |-> a.session[r[2]].state, public |-> a.session[r[2]].public,
                   length |-> a.session[r[2]].length]
  <2>1. Shows(a, r, x) = Kin(r, x, y) /\ Shows(a, r, x)' = Kin(r, x, y)'
    BY <1>2 DEF Shows
  <2>2. Kin(r, x, y) => Kin(r, x, y)'
    BY DEF Kin
  <2> QED
    BY <2>1, <2>2
<1>3. CASE r[1] = "slot"
  BY <1>3 DEF Shows
<1> QED
  BY <1>1, <1>2, <1>3, Kinds

\* Nothing about a record changes if its row, its ledger entry and the receipt
\* do not, though flags may be edited elsewhere.
LEMMA RowStays ==
    ASSUME TypeOK, NEW c \in Commands, NEW r \in Records, RowOf(c, r), Kept(c),
           edits \in Nat, edits' \in Nat, edits' >= edits,
           air'[r] = air[r], proj'[r] = proj[r],
           ledger'[c][r] = "applied" <=> ledger[c][r] = "applied"
    PROVE  RowOf(c, r)'
<1>1. /\ Operations(c)' = Operations(c) /\ Fields(c, r)' = Fields(c, r)
      /\ receipt'[c].before = receipt[c].before /\ receipt'[c].expected = receipt[c].expected
  BY KeptOperations DEF Kept
<1>2. \A x, y : Kin(r, x, y) => Kin(r, x, y)'
  BY DEF Kin
<1>3. \A a, x : Shows(a, r, x) => Shows(a, r, x)'
  BY ShowsKept
<1>4. Untouched(c, r) => Untouched(c, r)'
  BY <1>1, <1>3 DEF Untouched
<1>5. Projected(c, r) => Projected(c, r)'
  BY <1>1, <1>2 DEF Projected
<1>6. Lagging(c, r) => Lagging(c, r)'
  BY <1>1 DEF Lagging
<1> QED
  BY <1>1, <1>4, <1>5, <1>6 DEF RowOf

LEMMA EditsGrow ==
    ASSUME TypeOK, Next
    PROVE  edits \in Nat /\ edits' \in Nat /\ edits' >= edits
<1>1. edits \in Nat
  BY BoundsAssumption DEF TypeOK
<1>2. edits' = edits \/ edits' = edits + 1
  BY DEF Next, Send, Begin, AlarmRuns, Operation, OperationCommits, OperationCommitsUnprojected,
         OperationPending, OperationFails, Repair, OperationsDone, CommitPublication,
         CommitDraftChange, CommitFails, CalendarSettled, CalendarEnqueues, CalendarMarks,
         CalendarFails, Drained, DrainFails, Refuse, Evaluate, Load, KeepBaseline, BaselineFails,
         Record, EditPublic, EditStatus, Edited, Crash
<1> QED
  BY <1>1, <1>2

\* An operation's write leaves the record projected, or one version ahead of D1.
LEMMA RowsAfterWrite ==
    ASSUME TypeOK, RowsTyped, Jobs, Receipts, Rows, Next,
           NEW q \in Records, OperationCommits(q) \/ OperationCommitsUnprojected(q),
           NEW c \in Applying, NEW r \in Records
    PROVE  RowOf(c, r)'
<1>1. /\ job.phase = "apply" /\ q \in Operations(job.target) /\ Written(job.target, q)
      /\ proj' = [proj EXCEPT ![q] = air'[q]] \/ proj' = proj
      /\ edits' = edits
  BY DEF OperationCommits, OperationCommitsUnprojected, AtOperation
<1>2. c = job.target /\ c \in Commands /\ receipt[c] # NoReceipt
  BY <1>1, AtWork
<1>3. Kept(c) /\ Operations(c)' = Operations(c) /\ Fields(c, q)' = Fields(c, q)
      /\ receipt'[c].expected = receipt[c].expected
  BY <1>2, ReceiptsAreKept, KeptOperations DEF Kept
<1>4. /\ proj[q] = air[q] /\ air[q].ver = receipt[c].expected[q]
      /\ receipt[c].expected[q] \in Nat
      /\ air'[q] = [ver |-> air[q].ver + 1, content |-> Fields(c, q)]
      /\ \A p \in Records : p # q => air'[p] = air[p] /\ ledger'[c][p] = ledger[c][p]
      /\ ledger'[c][q] = "applied"
  BY <1>1, <1>2, WritesFindAgreement
<1>5. proj \in [Records -> [ver: Nat, content: Contents]]
  BY DEF TypeOK
<1>6. CASE r = q
  <2>1. CASE proj' = proj
    <3>1. Lagging(c, q)'
      BY <1>3, <1>4, <2>1 DEF Lagging
    <3> QED
      BY <1>1, <1>2, <1>3, <1>4, <1>6, <3>1 DEF RowOf
  <2>2. CASE proj' = [proj EXCEPT ![q] = air'[q]]
    <3>1. proj'[q] = air'[q]
      BY <1>5, <2>2
    <3>2. proj'[q].ver > receipt'[c].expected[q] /\ proj'[q].content = Fields(c, q)'
      BY <1>3, <1>4, <3>1
    <3>3. Projected(c, q)'
      BY <3>1, <3>2 DEF Projected, Kin
    <3> QED
      BY <1>1, <1>2, <1>3, <1>4, <1>6, <3>3 DEF RowOf
  <2> QED
    BY <1>1, <2>1, <2>2
<1>7. CASE r # q
  <2>1. RowOf(c, r)
    BY RowsByRecord
  <2>2. proj'[r] = proj[r]
    BY <1>1, <1>5, <1>7
  <2> QED
    BY <1>2, <1>3, <1>4, <1>7, <2>1, <2>2, RowStays, EditsGrow
<1> QED
  BY <1>6, <1>7

\* A repair finds a record of the command being applied, and projects it.
LEMMA RowsAfterRepair ==
    ASSUME TypeOK, RowsTyped, Jobs, Receipts, Rows, Next,
           NEW q \in Records, Repair(q), NEW c \in Applying, NEW r \in Records
    PROVE  RowOf(c, r)'
<1>1. /\ proj[q] # air[q] /\ proj' = [proj EXCEPT ![q] = air[q]]
      /\ air' = air /\ ledger' = ledger /\ receipt' = receipt
  BY DEF Repair
<1>2. c \in Commands /\ receipt[c] # NoReceipt
  BY ReceiptTypes DEF Applying
<1>3. /\ Kept(c) /\ Operations(c)' = Operations(c) /\ Fields(c, q)' = Fields(c, q)
  BY <1>2, ReceiptsAreKept, KeptOperations
<1>4. RowOf(c, r) /\ RowOf(c, q)
  BY RowsByRecord
<1>5. proj \in [Records -> [ver: Nat, content: Contents]]
  BY DEF TypeOK
<1>6. CASE r = q
  <2>1. Lagging(c, q) /\ q \in Operations(c) /\ ledger[c][q] = "applied"
    BY <1>1, <1>4 DEF RowOf, Untouched, Projected
  <2>2. receipt[c].expected[q] \in Nat
    BY <1>2, ReceiptTypes
  <2>3. proj'[q] = air'[q] /\ air'[q] = air[q]
    BY <1>1, <1>5
  <2>4. proj'[q].ver > receipt'[c].expected[q] /\ proj'[q].content = Fields(c, q)'
    BY <1>1, <1>3, <2>1, <2>2, <2>3 DEF Lagging
  <2>5. Projected(c, q)'
    BY <2>3, <2>4 DEF Projected, Kin
  <2> QED
    BY <1>1, <1>3, <1>6, <2>1, <2>5 DEF RowOf
<1>7. CASE r # q
  BY <1>1, <1>2, <1>3, <1>4, <1>5, <1>7, RowStays, EditsGrow
<1> QED
  BY <1>6, <1>7

\* An edited record is akin to whatever it was akin to, and shows what it showed.
LEMMA EditedIsKin ==
    ASSUME TypeOK, Next, Edit, NEW q, NEW new, Edits(q, new), edits' = edits + 1
    PROVE  /\ \A y : Kin(q, proj[q].content, y) => Kin(q, new, y)'
           /\ \A a : Shows(a, q, proj[q].content) => Shows(a, q, new)'
<1>1. edits' # 0
  BY EditsGrow
<1>2. /\ q \in Records /\ proj[q] = air[q]
      /\ \/ new = proj[q].content
         \/ /\ q[1] = "session"
            /\ new.state = proj[q].content.state /\ new.length = proj[q].content.length
  BY DEF Edits
<1>3. \A y : Kin(q, proj[q].content, y) => Kin(q, new, y)'
  BY <1>1, <1>2 DEF Kin
<1>4. ASSUME NEW a, Shows(a, q, proj[q].content) PROVE Shows(a, q, new)'
  <2>1. CASE new = proj[q].content
    BY <1>2, <1>4, <2>1, ShowsKept, EditsGrow
  <2>2. CASE q[1] = "session"
    <3> DEFINE y == [state |-> a.session[q[2]].state, public |-> a.session[q[2]].public,
                     length |-> a.session[q[2]].length]
    <3>1. /\ Shows(a, q, proj[q].content) = Kin(q, proj[q].content, y)
          /\ Shows(a, q, new)' = Kin(q, new, y)'
      BY <2>2 DEF Shows
    <3> QED
      BY <1>3, <1>4, <3>1
  <2> QED
    BY <1>2, <2>1, <2>2
<1> QED
  BY <1>3, <1>4

\* A hand edit changes a version, and at most a flag, where D1 is up to date.
LEMMA RowsAfterEdit ==
    ASSUME TypeOK, RowsTyped, Jobs, Receipts, Rows, Next,
           Edit, NEW c \in Applying, NEW r \in Records
    PROVE  RowOf(c, r)'
<1>1. PICK q, new : q \in Records /\ Edits(q, new)
  BY EditFields DEF Edits
<1> DEFINE row == [ver |-> air[q].ver + 1, content |-> new]
<1>2. /\ proj[q] = air[q] /\ air' = [air EXCEPT ![q] = row] /\ proj' = [proj EXCEPT ![q] = row]
      /\ ledger' = ledger /\ receipt' = receipt /\ edits' = edits + 1
  BY <1>1, EditFields DEF Edits
<1>3. row.ver = air[q].ver + 1 /\ row.content = new
  OBVIOUS
<1> HIDE DEF row
<1>4. c \in Commands /\ receipt[c] # NoReceipt
  BY ReceiptTypes DEF Applying
<1>5. /\ Kept(c) /\ Operations(c)' = Operations(c) /\ Fields(c, q)' = Fields(c, q)
  BY <1>4, ReceiptsAreKept, KeptOperations
<1>6. /\ proj \in [Records -> [ver: Nat, content: Contents]]
      /\ air \in [Records -> [ver: Nat, content: Contents]]
  BY DEF TypeOK
<1>7. RowOf(c, r) /\ RowOf(c, q)
  BY <1>1, RowsByRecord
<1>8. /\ \A y : Kin(q, proj[q].content, y) => Kin(q, new, y)'
      /\ \A a : Shows(a, q, proj[q].content) => Shows(a, q, new)'
  BY <1>1, <1>2, EditedIsKin
<1>9. CASE r = q
  <2>1. air'[q] = row /\ proj'[q] = row
    BY <1>1, <1>2, <1>6
  <2>2. CASE ledger[c][q] # "applied"
    <3>1. Untouched(c, q)
      BY <1>7, <2>2 DEF RowOf
    <3>2. Untouched(c, q)'
      BY <1>2, <1>3, <1>8, <2>1, <3>1 DEF Untouched
    <3> QED
      BY <1>2, <1>9, <2>2, <3>2 DEF RowOf
  <2>3. CASE ledger[c][q] = "applied"
    <3>1. receipt[c].expected[q] \in Nat
      BY <1>1, <1>4, ReceiptTypes
    <3>2. ~Lagging(c, q)
      BY <1>1, <1>2, <1>6, <3>1 DEF Lagging
    <3>3. q \in Operations(c) /\ Projected(c, q)
      BY <1>7, <2>3, <3>2 DEF RowOf
    <3>4. Projected(c, q)'
      <4>1. PICK f : f = Fields(c, q)
        OBVIOUS
      <4>2. f = Fields(c, q)' /\ Kin(q, new, f)'
        BY <1>5, <1>8, <3>3, <4>1 DEF Projected
      <4>3. proj'[q] = air'[q] /\ proj'[q].content = new /\ proj'[q].ver = air[q].ver + 1
        BY <1>3, <2>1
      <4>4. proj'[q].ver > receipt'[c].expected[q]
        <5>1. air[q].ver \in Nat /\ air[q].ver > receipt[c].expected[q]
          BY <1>1, <1>2, <1>6, <3>3 DEF Projected
        <5>2. receipt'[c].expected[q] = receipt[c].expected[q]
          BY <1>2
        <5> QED
          BY <3>1, <4>3, <5>1, <5>2
      <4> QED
        BY <4>2, <4>3, <4>4 DEF Projected
    <3> QED
      BY <1>2, <1>5, <1>9, <2>3, <3>3, <3>4 DEF RowOf
  <2> QED
    BY <2>2, <2>3
<1>10. CASE r # q
  <2>1. air'[r] = air[r] /\ proj'[r] = proj[r]
    BY <1>2, <1>6, <1>10
  <2> QED
    BY <1>2, <1>4, <1>5, <1>7, <2>1, RowStays, EditsGrow
<1> QED
  BY <1>9, <1>10

\* A commit ends the application of the one command there was; D1 is up to date.
LEMMA CommitEnds ==
    ASSUME TypeOK, Jobs, Receipts, Rows, CommitPublication \/ CommitDraftChange
    PROVE  /\ job.target \in Applying /\ \A r \in Operations(job.target) : Durable(job.target, r)
           /\ Applying' = {}
           /\ proj' = proj /\ air' = air /\ proj = air
<1>1. /\ job.phase = "commit" /\ job.target \in Applying
      /\ receipt' = [receipt EXCEPT ![job.target].state = "complete"]
      /\ air' = air /\ proj' = proj
  BY CommitsWrite
<1>2. \A r \in Operations(job.target) : Durable(job.target, r)
  BY <1>1 DEF Jobs
<1>3. proj = air
  BY <1>1, <1>2, DurableRows
<1>4. Applying = {job.target} /\ job.target \in Commands /\ receipt[job.target] # NoReceipt
  BY <1>1, AtWork
<1>5. receipt'[job.target].state = "complete"
  BY <1>1, <1>4, ReceiptTypes DEF TypeOK
<1>6. \A c \in Commands : c # job.target => receipt'[c] = receipt[c]
  BY <1>1 DEF TypeOK
<1>7. Applying' = {}
  BY <1>4, <1>5, <1>6 DEF Applying
<1> QED
  BY <1>1, <1>2, <1>3, <1>7

LEMMA RowsStep ==
    ASSUME TypeOK, RowsTyped, Jobs, Drafts, Receipts, Rows, Next
    PROVE  Rows'
<1>1. CASE CommitPublication \/ CommitDraftChange
  BY <1>1, CommitEnds DEF Rows
<1>2. CASE Record
  <2>1. /\ receipt[job.by] = NoReceipt /\ job.by \in Commands /\ Applying = {}
        /\ air' = air /\ proj' = proj /\ ledger' = ledger /\ edits' = edits
        /\ \A c \in Commands : c # job.by => receipt'[c] = receipt[c]
    BY <1>2, RecordWrites
  <2>2. proj = air
    BY <2>1 DEF Rows
  <2>3. ASSUME NEW c \in Applying', NEW r \in Records PROVE RowOf(c, r)'
    <3>1. c = job.by /\ receipt'[c].before = draft.before
      <4>1. c \in Commands /\ receipt'[c].state = "applying"
        BY <2>3 DEF Applying
      <4>2. c = job.by
        BY <2>1, <4>1 DEF Applying
      <4> QED
        BY <2>1, <4>1, <4>2, ReceiptsComeFrom, ReceiptTypes
    <3>2. ledger'[c][r] = "none"
      BY <2>1, <3>1 DEF Receipts
    <3>3. PICK a, x : a = draft.before /\ x = proj[r].content
      OBVIOUS
    <3>4. Shows(a, r, x)
      BY <1>2, <3>3, RecordWrites DEF Drafts
    <3>5. Shows(a, r, x)'
      BY <2>1, <3>4 DEF Shows, Kin
    <3>6. Untouched(c, r)'
      BY <2>1, <2>2, <3>1, <3>3, <3>5 DEF Untouched
    <3> QED
      BY <3>2, <3>6 DEF RowOf
  <2>4. proj' = air'
    BY <2>1, <2>2
  <2> QED
    BY <2>3, <2>4 DEF Rows, RowOf
<1>3. CASE receipt' = receipt
  <2>1. Applying' = Applying
    BY <1>3 DEF Applying
  <2>2. ASSUME air' = air, proj' = proj,
               \A c \in Applying, r \in Records :
                  ledger'[c][r] = "applied" <=> ledger[c][r] = "applied"
        PROVE  Rows'
    <3>1. ASSUME NEW c \in Applying, NEW r \in Records PROVE RowOf(c, r)'
      <4>1. c \in Commands /\ receipt[c] # NoReceipt
        BY ReceiptTypes DEF Applying
      <4> QED
        BY <2>2, <4>1, RowsByRecord, ReceiptsAreKept, RowStays, EditsGrow
    <3> QED
      BY <2>1, <2>2, <3>1 DEF Rows, RowOf
  <2>3. ASSUME Applying # {}, \A c \in Applying, r \in Records : RowOf(c, r)' PROVE Rows'
    BY <2>1, <2>3 DEF Rows, RowOf
  <2>4. ASSUME NEW q \in Records, OperationCommits(q) \/ OperationCommitsUnprojected(q)
        PROVE  Rows'
    <3>1. Applying # {}
      BY <2>4, AtWork DEF OperationCommits, OperationCommitsUnprojected
    <3> QED
      BY <2>3, <2>4, <3>1, RowsAfterWrite
  <2>5. ASSUME NEW q \in Records, Repair(q) PROVE Rows'
    <3>1. Applying # {}
      BY <2>5 DEF Repair, Rows
    <3> QED
      BY <2>3, <2>5, <3>1, RowsAfterRepair
  <2>6. ASSUME NEW q \in Records, OperationFails(q) PROVE Rows'
    <3>1. /\ ledger[job.target][q] # "applied" /\ air' = air /\ proj' = proj
          /\ ledger' = [ledger EXCEPT ![job.target][q] = "failed"]
      BY <2>6 DEF OperationFails
    <3> QED
      BY <2>2, <3>1 DEF TypeOK, Applying
  <2>7. CASE Edit
    <3>1. CASE Applying # {}
      BY <2>3, <2>7, <3>1, RowsAfterEdit
    <3>2. CASE Applying = {}
      <4>1. proj = air
        BY <3>2 DEF Rows
      <4>2. proj' = air'
        BY <2>7, <4>1, EditFields DEF Edits
      <4> QED
        BY <2>1, <3>2, <4>2 DEF Rows
    <3> QED
      BY <3>1, <3>2
  <2>8. CASE air' = air /\ proj' = proj /\ ledger' = ledger
    BY <2>2, <2>8
  <2>9. \/ \E q \in Records : \/ OperationCommits(q) \/ OperationCommitsUnprojected(q)
                              \/ OperationFails(q) \/ Repair(q)
        \/ Edit
        \/ air' = air /\ proj' = proj /\ ledger' = ledger
    BY DEF Next, Send, Begin, AlarmRuns, Operation, OperationPending, OperationsDone, CommitFails,
           CommitDraftChange, CommitPublication, CalendarSettled, CalendarEnqueues, CalendarMarks,
           CalendarFails, Drained, DrainFails, Refuse, Evaluate, Load, KeepBaseline, BaselineFails,
           Record, Edit, Crash, dbVars
  <2> QED
    BY <2>4, <2>5, <2>6, <2>7, <2>8, <2>9
<1> QED
  BY <1>1, <1>2, <1>3, ReceiptSteps

-----------------------------------------------------------------------------
(* Drafts *)

\* A call comes to a draft by reading one, keeps it, and meanwhile others only
\* send commands and edit by hand: no row lags that could be repaired.
LEMMA DraftingSteps ==
    ASSUME TypeOK, Jobs, Receipts, Rows, Next, Drafting'
    PROVE  \/ Evaluate \/ Load \/ KeepBaseline
           \/ Drafting /\ job' = job /\ ((\E d \in Commands : Send(d)) \/ Edit)
<1>1. job' = Idle => ~Drafting'
  BY DEF Idle, Drafting
<1>2. \A by, target : \A phase \in {"evaluate", "apply", "repair"} :
         job' = Call(by, target, phase) => ~Drafting'
  BY DEF Call, Drafting
<1>3. \A phase \in {"apply", "commit", "calendar", "mark", "remark", "drain"} :
         job' = [job EXCEPT !.phase = phase] => ~Drafting'
  BY DEF Drafting, TypeOK
<1>4. ASSUME NEW c \in Commands, Begin(c) PROVE FALSE
  BY <1>2, <1>4, BeginGoes
<1>5. CASE AlarmRuns
  BY <1>1, <1>2, <1>5, AlarmGoes
<1>6. ASSUME Suspend \/ Throw PROVE FALSE
  BY <1>1, <1>6 DEF Suspend, Throw
<1>7. ASSUME Finish(Call(job.by, job.by, "evaluate")) PROVE FALSE
  BY <1>1, <1>2, <1>7 DEF Finish
<1>8. CASE Drained
  <2>1. \E t, phase : phase \in {"evaluate", "repair"} /\ Onward(job.by) = Call(job.by, t, phase)
    BY OnwardGoes
  <2>2. job' = Idle \/ job' = Onward(job.by)
    BY <1>8 DEF Drained, Finish
  <2> QED
    BY <1>1, <1>2, <2>1, <2>2
<1>9. ASSUME NEW r \in Records, Operation(r) PROVE FALSE
  <2>1. job.phase = "apply" /\ (job' = job \/ Suspend \/ Throw)
    BY <1>9 DEF Operation, OperationCommits, OperationCommitsUnprojected, OperationPending,
                OperationFails
  <2> QED
    BY <1>6, <2>1 DEF Drafting
<1>10. ASSUME NEW r \in Records, Repair(r) PROVE FALSE
  <2>1. Drafting /\ proj[r] # air[r]
    BY <1>10 DEF Repair, Drafting
  <2>2. Applying = {}
    BY <2>1 DEF Drafting, Jobs, Unfinished
  <2> QED
    BY <2>1, <2>2 DEF Rows
<1>11. CASE OperationsDone \/ CommitPublication \/ CommitDraftChange \/ CalendarEnqueues \/ Record
  BY <1>3, <1>11 DEF OperationsDone, CommitPublication, CommitDraftChange, CalendarEnqueues, Record
<1>12. CASE CommitFails \/ CalendarFails \/ DrainFails \/ BaselineFails
  BY <1>6, <1>12 DEF CommitFails, CalendarFails, DrainFails, BaselineFails
<1>13. CASE CalendarSettled \/ CalendarMarks
  BY <1>3, <1>7, <1>13 DEF CalendarSettled, CalendarMarks
<1>14. CASE Refuse \/ Crash
  BY <1>1, <1>14 DEF Refuse, Crash
<1>15. ASSUME (\E d \in Commands : Send(d)) \/ Edit
       PROVE  Drafting /\ job' = job
  BY <1>15 DEF Send, Edit, EditStatus, EditPublic, Edited, Drafting
<1> QED
  BY <1>4, <1>5, <1>8, <1>9, <1>10, <1>11, <1>12, <1>13, <1>14, <1>15 DEF Next, Edit

LEMMA DraftsStep ==
    ASSUME TypeOK, RowsTyped, Jobs, Drafts, Receipts, Rows, Next
    PROVE  Drafts'
<1> SUFFICES ASSUME Drafting'
             PROVE  /\ draft'.before \in Snapshots /\ Tidy(draft.before)'
                    /\ Accepts(draft'.before, request'[job'.by])
                    /\ \A r \in Records : Shows(draft.before, r, proj[r].content)'
  BY DEF Drafts
<1>1. CASE Evaluate
  <2>1. /\ job.phase = "evaluate" /\ Accepts(Read, request[job.by]) /\ request' = request
        /\ draft' = [draft EXCEPT !.before = Read] /\ proj' = proj /\ edits' = edits
        /\ job' = [job EXCEPT !.phase = "load"]
    BY <1>1 DEF Evaluate, dbVars
  <2>2. draft'.before = Read /\ job'.by = job.by
    BY <2>1 DEF TypeOK
  <2>3. Read = Snapshot(proj)
    BY <2>1, ReadOtherwise DEF Jobs, Unfinished
  <2>4. Read \in Snapshots /\ Tidy(Read)
    BY ReadType
  <2>5. PICK a : a = Read
    OBVIOUS
  <2>6. ASSUME NEW r \in Records PROVE Shows(draft.before, r, proj[r].content)'
    <3>1. PICK x : x = proj[r].content
      OBVIOUS
    <3>2. Shows(a, r, x)
      BY <2>3, <2>5, <3>1, SnapshotShows
    <3>3. Shows(a, r, x)'
      BY <2>1, <3>2 DEF Shows, Kin
    <3> QED
      BY <2>1, <2>2, <2>5, <3>1, <3>3
  <2>7. Tidy(draft.before)'
    BY <2>2, <2>4 DEF Tidy
  <2> QED
    BY <2>1, <2>2, <2>4, <2>6, <2>7
<1>2. ASSUME Drafting, draft'.before = draft.before, job'.by = job.by,
             request'[job.by] = request[job.by],
             \A r \in Records : \A a : Shows(a, r, proj[r].content) => Shows(a, r, proj[r].content)'
      PROVE  /\ draft'.before \in Snapshots /\ Tidy(draft.before)'
             /\ Accepts(draft'.before, request'[job'.by])
             /\ \A r \in Records : Shows(draft.before, r, proj[r].content)'
  <2>1. PICK a : a = draft.before
    OBVIOUS
  <2>2. ASSUME NEW r \in Records PROVE Shows(draft.before, r, proj[r].content)'
    <3>1. Shows(a, r, proj[r].content)
      BY <1>2, <2>1 DEF Drafts
    <3>2. Shows(a, r, proj[r].content)'
      BY <1>2, <3>1
    <3> QED
      BY <1>2, <2>1, <3>2
  <2>3. Tidy(draft.before)'
    BY <1>2 DEF Drafts, Tidy
  <2> QED
    BY <1>2, <2>2, <2>3 DEF Drafts
<1>3. ASSUME proj' = proj, edits' = edits
      PROVE  \A r \in Records : \A a : Shows(a, r, proj[r].content) => Shows(a, r, proj[r].content)'
  <2> SUFFICES ASSUME NEW r \in Records, NEW a, Shows(a, r, proj[r].content)
               PROVE  Shows(a, r, proj[r].content)'
    OBVIOUS
  <2>1. PICK x : x = proj[r].content
    OBVIOUS
  <2>2. Shows(a, r, x)'
    BY <1>3, <2>1, ShowsKept, EditsGrow
  <2> QED
    BY <1>3, <2>1, <2>2
<1>4. CASE Load \/ KeepBaseline
  <2>1. /\ Drafting /\ request' = request /\ proj' = proj /\ edits' = edits
        /\ \E phase : job' = [job EXCEPT !.phase = phase]
        /\ draft' = draft \/ \E versions : draft' = [draft EXCEPT !.expected = versions]
    BY <1>4 DEF Load, KeepBaseline, Drafting, dbVars
  <2>2. draft'.before = draft.before /\ job'.by = job.by
    BY <2>1 DEF TypeOK
  <2> QED
    BY <1>2, <1>3, <2>1, <2>2
<1>5. ASSUME Drafting, job' = job, NEW d \in Commands, Send(d)
      PROVE  /\ draft'.before \in Snapshots /\ Tidy(draft.before)'
             /\ Accepts(draft'.before, request'[job'.by])
             /\ \A r \in Records : Shows(draft.before, r, proj[r].content)'
  <2>1. draft' = draft /\ proj' = proj /\ edits' = edits
    BY <1>5 DEF Send, dbVars
  <2>2. job.by \in Commands /\ request[job.by] # NoCommand
    BY <1>5 DEF Drafting, Jobs
  <2>3. PICK command : request' = [request EXCEPT ![d] = command]
    BY <1>5 DEF Send
  <2>4. request'[job.by] = request[job.by]
    BY <1>5, <2>2, <2>3 DEF Send
  <2> QED
    BY <1>2, <1>3, <1>5, <2>1, <2>4
<1>6. CASE Drafting /\ job' = job /\ Edit
  <2>1. PICK q, new : q \in Records /\ Edits(q, new)
    BY <1>6, EditFields DEF Edits
  <2>2. /\ draft' = draft /\ request' = request /\ edits' = edits + 1
    BY <1>6, EditFields
  <2>3. /\ \A p \in Records : p # q => proj'[p] = proj[p]
        /\ proj'[q].content = new
    <3> DEFINE row == [ver |-> air[q].ver + 1, content |-> new]
    <3>1. proj' = [proj EXCEPT ![q] = row] /\ row.content = new
      BY <2>1 DEF Edits
    <3> HIDE DEF row
    <3> QED
      BY <2>1, <3>1 DEF TypeOK
  <2>4. ASSUME NEW r \in Records, NEW a, Shows(a, r, proj[r].content)
        PROVE  Shows(a, r, proj[r].content)'
    <3>1. CASE r = q
      <4>1. Shows(a, q, new)'
        BY <1>6, <2>1, <2>2, <2>4, <3>1, EditedIsKin
      <4> QED
        BY <2>3, <3>1, <4>1
    <3>2. CASE r # q
      <4>1. PICK x : x = proj[r].content
        OBVIOUS
      <4>2. Shows(a, r, x)'
        BY <2>4, <4>1, ShowsKept, EditsGrow
      <4> QED
        BY <2>3, <3>2, <4>1, <4>2
    <3> QED
      BY <3>1, <3>2
  <2> QED
    BY <1>2, <1>6, <2>2, <2>4
<1> QED
  BY <1>1, <1>4, <1>5, <1>6, DraftingSteps

-----------------------------------------------------------------------------
(* What is read *)

\* Readers see another agenda only when a command commits, a receipt freezes what
\* was read, or a record is edited.
LEMMA ReadStays ==
    ASSUME TypeOK, RowsTyped, Jobs, Receipts, Rows, Next,
           ~(CommitPublication \/ CommitDraftChange), ~Edit, ~Record
    PROVE  Read' = Read
<1>1. receipt' = receipt
  BY ReceiptSteps
<1>2. Applying' = Applying
  BY <1>1 DEF Applying
<1>3. CASE Applying # {}
  BY <1>1, <1>2, <1>3 DEF Read
<1>4. CASE Applying = {}
  <2>1. job.phase # "apply"
    BY <1>4, AtWork
  <2>2. proj = air
    BY <1>4 DEF Rows
  <2>3. proj' = proj
    BY <2>1, <2>2 DEF Next, Send, Begin, AlarmRuns, Operation, OperationCommits,
                      OperationCommitsUnprojected, OperationPending, OperationFails, Repair,
                      OperationsDone, CommitFails, CalendarSettled, CalendarEnqueues,
                      CalendarMarks, CalendarFails, Drained, DrainFails, Refuse, Evaluate, Load,
                      KeepBaseline, BaselineFails, Edit, Crash, dbVars
  <2>4. Snapshot(proj)' = Snapshot(proj)
    BY <2>3 DEF Snapshot
  <2> QED
    BY <1>2, <1>4, <2>4 DEF Read
<1> QED
  BY <1>3, <1>4

\* Public flags aside, it is the same agenda.
SameButFlags(a, b) ==
    /\ a \in Snapshots /\ b \in Snapshots
    /\ a.version = b.version /\ a.pub = b.pub
    /\ \A s \in Sessions :
          LET x == a.session[s]
              y == b.session[s]
          IN  /\ x.state = y.state /\ x.length = y.length
              /\ x.cell = y.cell /\ x.slotPub = y.slotPub

LEMMA ReadAfterEdit ==
    ASSUME TypeOK, RowsTyped, Jobs, Receipts, Rows, Next,
           TypeOK', RowsTyped', Receipts', Edit
    PROVE  SameButFlags(Read', Read)
<1>1. PICK q, new : q \in Records /\ Edits(q, new)
  BY EditFields DEF Edits
<1>2. receipt' = receipt
  BY EditFields
<1>3. Applying' = Applying
  BY <1>2 DEF Applying
<1>4. Read \in Snapshots /\ Read' \in Snapshots
  <2>1. (Read \in Snapshots)'
    BY ReadType, PTL
  <2> QED
    BY <2>1, ReadType
<1>5. CASE Applying # {}
  <2>1. Read' = Read
    BY <1>2, <1>3, <1>5 DEF Read
  <2> QED
    BY <1>4, <2>1 DEF SameButFlags
<1>6. CASE Applying = {}
  <2>1. Read = Snapshot(proj) /\ Read' = Snapshot(proj')
    BY <1>3, <1>6 DEF Read, Snapshot
  <2>2. /\ \A p \in Records : p # q => proj'[p] = proj[p]
        /\ proj'[q].content = new
    <3> DEFINE row == [ver |-> air[q].ver + 1, content |-> new]
    <3>1. proj' = [proj EXCEPT ![q] = row] /\ row.content = new
      BY <1>1 DEF Edits
    <3> HIDE DEF row
    <3> QED
      BY <1>1, <3>1 DEF TypeOK
  <2>3. \/ new = proj[q].content
        \/ /\ q[1] = "session"
           /\ new.state = proj[q].content.state /\ new.length = proj[q].content.length
    BY <1>1 DEF Edits
  <2>4. ASSUME NEW t \in Sessions
        PROVE  /\ proj'[SlotRecord(t)].content = proj[SlotRecord(t)].content
               /\ proj'[SessionRecord(t)].content.state = proj[SessionRecord(t)].content.state
               /\ proj'[SessionRecord(t)].content.length = proj[SessionRecord(t)].content.length
    BY <2>2, <2>3, Kinds
  <2>5. proj'[EventRecord].content = proj[EventRecord].content
    BY <2>2, <2>3, Kinds
  <2>6. ASSUME NEW t \in Sessions
        PROVE  LET x == RowView(proj', t)
                   y == RowView(proj, t)
               IN  /\ x.state = y.state /\ x.length = y.length
                   /\ x.cell = y.cell /\ x.slotPub = y.slotPub
    BY <2>4 DEF RowView, HasSlot
  <2> QED
    BY <1>4, <2>1, <2>5, <2>6, SnapshotFields DEF SameButFlags
<1> QED
  BY <1>5, <1>6

\* An agenda that the rows show is the one they hold, flags aside.
LEMMA ShownIsSame ==
    ASSUME TypeOK, RowsTyped, NEW a \in Snapshots, Tidy(a),
           \A r \in Records : Shows(a, r, proj[r].content)
    PROVE  SameButFlags(a, Snapshot(proj))
<1>1. Snapshot(proj) \in Snapshots
  BY SnapshotType
<1>2. a.version = Snapshot(proj).version /\ a.pub = Snapshot(proj).pub
  <2>1. proj[EventRecord].content = [version |-> a.version, pub |-> a.pub]
    BY Kinds, ShowsOf
  <2>2. /\ Snapshot(proj).version = proj[EventRecord].content.version
        /\ Snapshot(proj).pub = proj[EventRecord].content.pub
    BY SnapshotFields
  <2> QED
    BY <2>1, <2>2
<1>3. ASSUME NEW s \in Sessions
      PROVE  LET x == a.session[s]
                 y == Snapshot(proj).session[s]
             IN  /\ x.state = y.state /\ x.length = y.length
                 /\ x.cell = y.cell /\ x.slotPub = y.slotPub
  <2> DEFINE own == proj[SessionRecord(s)].content
             slot == proj[SlotRecord(s)].content
             view == a.session[s]
  <2>1. Kin(SessionRecord(s), own, [state |-> view.state, public |-> view.public,
                                    length |-> view.length])
    BY Kinds, ShowsOf
  <2>2. HasSlot(view) => slot = [cell |-> view.cell, pub |-> view.slotPub]
    <3>1. Shows(a, SlotRecord(s), slot)
      BY Kinds
    <3> QED
      BY <3>1, ShowsOf
  <2>3. HasSlot(view) \/ (view.cell = NoCell /\ view.slotPub = 0)
    BY DEF Tidy
  <2>4. Snapshot(proj).session[s] =
          [state |-> own.state, public |-> own.public, length |-> own.length,
           cell |-> IF HasSlot(own) THEN slot.cell ELSE NoCell,
           slotPub |-> IF HasSlot(own) THEN slot.pub ELSE 0]
    BY SnapshotFields DEF RowView
  <2> HIDE DEF own, slot, view
  <2>5. own.state = view.state /\ own.length = view.length
    BY <2>1 DEF Kin
  <2>6. HasSlot(own) = HasSlot(view)
    BY <2>5 DEF HasSlot
  <2> QED
    BY <2>2, <2>3, <2>4, <2>5, <2>6 DEF view
<1> QED
  BY <1>1, <1>2, <1>3 DEF SameButFlags

\* What a call has read for its receipt is what readers see, flags aside.
LEMMA DraftIsRead ==
    ASSUME TypeOK, RowsTyped, Jobs, Drafts, Drafting
    PROVE  Applying = {} /\ SameButFlags(draft.before, Read)
<1>1. Applying = {}
  BY DEF Drafting, Jobs, Unfinished
<1>2. PICK a : a = draft.before
  OBVIOUS
<1>3. a \in Snapshots /\ Tidy(a) /\ \A r \in Records : Shows(a, r, proj[r].content)
  BY <1>2 DEF Drafts
<1>4. SameButFlags(a, Snapshot(proj))
  BY <1>3, ShownIsSame
<1> QED
  BY <1>1, <1>2, <1>4, ReadOtherwise

LEMMA ReadAfterRecord ==
    ASSUME TypeOK, RowsTyped, Jobs, Drafts, Receipts, Next, Record
    PROVE  SameButFlags(Read', Read)
<1>1. /\ job.by \in Commands /\ Applying = {} /\ Drafting
      /\ \A c \in Commands : c # job.by => receipt'[c] = receipt[c]
  BY RecordWrites
<1> DEFINE new == [state |-> "applying", before |-> draft.before, expected |-> draft.expected]
<1>2. receipt' = [receipt EXCEPT ![job.by] = new]
      /\ new.state = "applying" /\ new.before = draft.before
  BY RecordWrites
<1> HIDE DEF new
<1>3. receipt'[job.by].state = "applying" /\ receipt'[job.by].before = draft.before
  BY <1>1, <1>2 DEF TypeOK
<1>4. Applying' = {job.by}
  BY <1>1, <1>3 DEF Applying
<1>5. (CHOOSE c \in {job.by} : TRUE) = job.by
  BY SomeMember
<1>6. Read' = receipt'[CHOOSE c \in {job.by} : TRUE].before
  BY <1>4 DEF Read
<1>7. Read' = draft.before
  BY <1>3, <1>5, <1>6
<1> QED
  BY <1>1, <1>7, DraftIsRead

\* At a commit readers go from the agenda before the command to the one after.
LEMMA ReadAtCommit ==
    ASSUME TypeOK, RowsTyped, Jobs, Receipts, Rows, Next,
           CommitPublication \/ CommitDraftChange
    PROVE  /\ Read = receipt[job.target].before
           /\ Read' = Snapshot(proj)
           /\ SameButFlags(Read', After(job.target))
<1> DEFINE c == job.target
<1>1. /\ c \in Applying /\ \A r \in Operations(c) : Durable(c, r)
      /\ Applying' = {} /\ proj' = proj
  BY CommitEnds
<1>2. c \in Commands /\ receipt[c] # NoReceipt
  BY <1>1, ReceiptTypes DEF Applying
<1>3. Read = receipt[c].before
  BY <1>1, ReadWhileApplying
<1>4. Read' = Snapshot(proj)
  BY <1>1 DEF Read, Snapshot
<1>5. After(c) \in Snapshots /\ Tidy(After(c))
  BY <1>2, StoredCommands, ResultTidy DEF After
<1>6. ASSUME NEW s \in Sessions
      PROVE  LET x == Snapshot(proj).session[s]
                 y == After(c).session[s]
             IN  /\ x.state = y.state /\ x.length = y.length
                 /\ x.cell = y.cell /\ x.slotPub = y.slotPub
  <2> DEFINE own == proj[SessionRecord(s)].content
             slot == proj[SlotRecord(s)].content
             after == After(c).session[s]
  <2>1. /\ own.state = after.state /\ own.length = after.length
        /\ HasSlot(after) => slot = [cell |-> after.cell, pub |-> after.slotPub]
    BY <1>1, Outcome
  <2>2. HasSlot(after) \/ (after.cell = NoCell /\ after.slotPub = 0)
    BY <1>5 DEF Tidy
  <2>3. Snapshot(proj).session[s] =
          [state |-> own.state, public |-> own.public, length |-> own.length,
           cell |-> IF HasSlot(own) THEN slot.cell ELSE NoCell,
           slotPub |-> IF HasSlot(own) THEN slot.pub ELSE 0]
    BY SnapshotFields DEF RowView
  <2> HIDE DEF own, slot, after
  <2>4. HasSlot(own) = HasSlot(after)
    BY <2>1 DEF HasSlot
  <2> QED
    BY <2>1, <2>2, <2>3, <2>4 DEF after
<1>7. proj[EventRecord].content = [version |-> After(c).version, pub |-> After(c).pub]
  <2>1. Kin(EventRecord, proj[EventRecord].content, Fields(c, EventRecord))
    BY <1>1, <1>2, DurableRows, OperationsOf, Kinds
  <2> QED
    BY <2>1, FieldsOf, Kinds DEF Kin
<1>8. Snapshot(proj).version = After(c).version /\ Snapshot(proj).pub = After(c).pub
  <2>1. /\ Snapshot(proj).version = proj[EventRecord].content.version
        /\ Snapshot(proj).pub = proj[EventRecord].content.pub
    BY SnapshotFields
  <2> QED
    BY <1>7, <2>1
<1>9. Snapshot(proj) \in Snapshots
  BY SnapshotType
<1> QED
  BY <1>3, <1>4, <1>5, <1>6, <1>8, <1>9 DEF SameButFlags

-----------------------------------------------------------------------------
(* Publications *)

LEMMA LiveFields ==
    ASSUME NEW rows
    PROVE  LET event == rows[EventRecord].content
           IN  /\ Live(rows).version =
                     IF status = "published" /\ event.pub > 0 THEN event.pub ELSE 0
               /\ status = "published" /\ event.pub > 0 =>
                     /\ DOMAIN Live(rows).sessions =
                           {s \in Sessions :
                              /\ rows[SessionRecord(s)].content.state = "published"
                              /\ rows[SessionRecord(s)].content.public
                              /\ rows[SlotRecord(s)].content.pub = event.pub}
                     /\ \A s \in DOMAIN Live(rows).sessions :
                           Live(rows).sessions[s] = rows[SlotRecord(s)].content.cell
BY DEF Live, NotFound

\* What a publication captures are its candidates, each in its place; none of
\* them clash.
LEMMA CapturedIsSound ==
    ASSUME TypeOK, RowsTyped, Jobs, Receipts, Rows, CommitPublication
    PROVE  LET c == job.target
               shown == Live(proj).sessions
           IN  /\ \A s, t \in DOMAIN shown : ~Clash(shown, s, t)
               /\ DOMAIN shown \subseteq Candidates(After(c))
               /\ edits = 0 => DOMAIN shown = Candidates(After(c))
               /\ \A s \in DOMAIN shown : shown[s] = After(c).session[s].cell
<1> DEFINE c == job.target
           a == receipt[c].before
           shown == Live(proj).sessions
<1>1. /\ c \in Applying /\ \A r \in Operations(c) : Durable(c, r)
      /\ request[c].type = "publish"
  BY CommitEnds DEF CommitPublication
<1>2. c \in Commands /\ receipt[c] # NoReceipt
  BY <1>1, ReceiptTypes DEF Applying
<1>3. /\ a \in Snapshots /\ request[c] \in CommandsAt(a.version) /\ Accepts(a, request[c])
      /\ After(c) = Result(a, request[c]) /\ After(c) \in Snapshots
  BY <1>2, StoredCommands DEF After
<1>4. Valid(a) /\ CanPublish(a)
  BY <1>1, <1>3 DEF Accepts
<1>11. status = "published" /\ proj[EventRecord].content.pub > 0
  <2>1. Live(proj).version = After(c).pub
    BY DEF CommitPublication
  <2>2. After(c).pub = a.version + 1 /\ a.version \in Nat
    BY <1>1, <1>3, ResultFields DEF Snapshots
  <2>3. ~(status = "published" /\ proj[EventRecord].content.pub > 0) => Live(proj).version = 0
    BY LiveFields
  <2> HIDE DEF c, a
  <2> QED
    BY <2>1, <2>2, <2>3
<1>5. ASSUME NEW s \in Sessions
      PROVE  LET after == After(c).session[s]
                 own == proj[SessionRecord(s)].content
                 slot == proj[SlotRecord(s)].content
             IN  /\ proj[EventRecord].content.pub = After(c).pub
                 /\ own.state = after.state
                 /\ HasSlot(after) => slot.cell = after.cell /\ slot.pub = after.slotPub
                 /\ edits = 0 /\ after.public /\ after.state = "published" => own.public
  <2>1. /\ proj[EventRecord].content = [version |-> After(c).version, pub |-> After(c).pub]
        /\ HasSlot(After(c).session[s]) =>
              proj[SlotRecord(s)].content = [cell |-> After(c).session[s].cell,
                                             pub |-> After(c).session[s].slotPub]
    BY <1>1, Outcome
  <2> QED
    BY <1>1, <2>1, Outcome
<1>6. ASSUME NEW s \in Sessions
      PROVE  /\ s \in Candidates(a) =>
                   /\ After(c).session[s].state = "published"
                   /\ After(c).session[s].slotPub = After(c).pub
                   /\ After(c).session[s].cell = a.session[s].cell
                   /\ After(c).session[s].public
             /\ s \in Candidates(After(c)) <=> s \in Candidates(a)
             /\ After(c).session[s].state = "published"
                  /\ After(c).session[s].slotPub = After(c).pub => s \in Candidates(a)
  BY <1>1, <1>3, PublicationMarksCandidates
<1>7. ASSUME NEW s \in DOMAIN shown
      PROVE  /\ s \in Sessions /\ s \in Candidates(a)
             /\ shown[s] = After(c).session[s].cell /\ shown[s] = a.session[s].cell
  <2>1. /\ s \in Sessions
        /\ proj[SessionRecord(s)].content.state = "published"
        /\ proj[SlotRecord(s)].content.pub = proj[EventRecord].content.pub
        /\ shown[s] = proj[SlotRecord(s)].content.cell
    BY <1>11, LiveFields
  <2>2. After(c).session[s].state = "published" /\ HasSlot(After(c).session[s])
    BY <1>5, <2>1 DEF HasSlot
  <2>3. After(c).session[s].slotPub = After(c).pub /\ shown[s] = After(c).session[s].cell
    BY <1>5, <2>1, <2>2
  <2> QED
    BY <1>6, <2>1, <2>2, <2>3
<1>8. ASSUME edits = 0, NEW s \in Candidates(a) PROVE s \in DOMAIN shown
  <2>1. s \in Sessions
    BY DEF Candidates
  <2>2. HasSlot(After(c).session[s])
    BY <1>6, <1>8, <2>1 DEF HasSlot
  <2>3. /\ proj[SessionRecord(s)].content.state = "published"
        /\ proj[SessionRecord(s)].content.public
        /\ proj[SlotRecord(s)].content.pub = proj[EventRecord].content.pub
    BY <1>5, <1>6, <1>8, <2>1, <2>2
  <2> QED
    BY <1>11, <2>1, <2>3, LiveFields
<1>9. \A s : s \in Candidates(a) <=> s \in Candidates(After(c))
  BY <1>6 DEF Candidates
<1>10. \A s, t \in DOMAIN shown : ~Clash(shown, s, t)
  BY <1>3, <1>4, <1>7, CandidatesDoNotClash
<1> QED
  BY <1>7, <1>8, <1>9, <1>10

LEMMA PublicationsSoundStep ==
    ASSUME TypeOK, RowsTyped, Jobs, Receipts, Rows, PublicationsAreSound, Next
    PROVE  PublicationsAreSound'
<1>1. edits' = 0 => edits = 0
  BY EditsGrow
<1>2. CASE pubs' = pubs
  BY <1>1, <1>2 DEF PublicationsAreSound
<1>3. CASE KeepBaseline
  <2>1. pubs' = {[by |-> NoCommand, agenda |-> draft.before, public |-> Live(proj)]}
    BY <1>3 DEF KeepBaseline
  <2>2. \A p \in pubs' : p.by = NoCommand
    BY <2>1
  <2> QED
    BY <2>2 DEF PublicationsAreSound
<1>4. CASE CommitPublication
  <2> DEFINE new == [by |-> job.target, agenda |-> After(job.target), public |-> Live(proj)]
  <2>1. pubs' = pubs \cup {new} /\ edits' = edits
    BY <1>4 DEF CommitPublication
  <2>2. new.agenda = After(job.target) /\ new.public = Live(proj)
    OBVIOUS
  <2> HIDE DEF new
  <2>3. /\ \A s, t \in DOMAIN new.public.sessions : ~Clash(new.public.sessions, s, t)
        /\ DOMAIN new.public.sessions \subseteq Candidates(new.agenda)
        /\ edits = 0 => DOMAIN new.public.sessions = Candidates(new.agenda)
        /\ \A s \in DOMAIN new.public.sessions :
              new.public.sessions[s] = new.agenda.session[s].cell
    BY <1>4, <2>2, CapturedIsSound
  <2> QED
    BY <2>1, <2>3 DEF PublicationsAreSound
<1>5. CommitPublication \/ KeepBaseline \/ pubs' = pubs
  BY DEF Next, Send, Begin, AlarmRuns, Operation, OperationCommits, OperationCommitsUnprojected,
         OperationPending, OperationFails, Repair, OperationsDone, CommitDraftChange, CommitFails,
         CalendarSettled, CalendarEnqueues, CalendarMarks, CalendarFails, Drained, DrainFails,
         Refuse, Evaluate, Load, BaselineFails, Record, EditPublic, EditStatus, Edited, Crash,
         dbVars
<1> QED
  BY <1>2, <1>3, <1>4, <1>5

\* A commit moves the publication version that is read on exactly when it publishes.
LEMMA PubAtCommit ==
    ASSUME TypeOK, RowsTyped, Jobs, Receipts, Rows, Next,
           CommitPublication \/ CommitDraftChange
    PROVE  /\ Read'.pub = After(job.target).pub
           /\ CommitDraftChange => Read'.pub = Read.pub
           /\ CommitPublication => Read.pub < Read'.pub
           /\ Read.pub \in Nat /\ Read'.pub \in Nat
<1> DEFINE c == job.target
           a == receipt[c].before
<1>1. c \in Commands /\ receipt[c] # NoReceipt
  BY CommitEnds, ReceiptTypes DEF Applying
<1>2. /\ a \in Snapshots /\ request[c] \in CommandsAt(a.version) /\ Accepts(a, request[c])
      /\ After(c) = Result(a, request[c]) /\ After(c) \in Snapshots
  BY <1>1, StoredCommands DEF After
<1>3. Read = a /\ Read'.pub = After(c).pub
  BY ReadAtCommit DEF SameButFlags
<1>4. After(c).pub = IF request[c].type = "publish" THEN a.version + 1 ELSE a.pub
  BY <1>2, ResultFields
<1>5. a.pub <= a.version /\ a.pub \in Nat /\ a.version \in Nat
  BY <1>2 DEF Accepts, Valid, Snapshots
<1>6. /\ CommitPublication => request[c].type = "publish"
      /\ CommitDraftChange => request[c].type # "publish"
  BY DEF CommitPublication, CommitDraftChange
<1> HIDE DEF c, a
<1> QED
  BY <1>3, <1>4, <1>5, <1>6 DEF c

LEMMA PubsCurrentStep ==
    ASSUME TypeOK, RowsTyped, Jobs, Drafts, Receipts, Rows, PubsCurrent, Next,
           TypeOK', RowsTyped', Receipts'
    PROVE  PubsCurrent'
<1>1. CASE CommitPublication
  <2> DEFINE new == [by |-> job.target, agenda |-> After(job.target), public |-> Live(proj)]
  <2>1. pubs' = pubs \cup {new} /\ Live(proj).version = After(job.target).pub
    BY <1>1 DEF CommitPublication
  <2>2. new.public.version = Read'.pub
    BY <1>1, <2>1, PubAtCommit
  <2> HIDE DEF new
  <2>3. /\ Read.pub < Read'.pub /\ Read.pub \in Nat /\ Read'.pub \in Nat
    BY <1>1, PubAtCommit
  <2>4. \A p \in pubs : p.public.version \in Nat /\ p.public.version <= Read.pub
    BY DEF PubsCurrent, RowsTyped
  <2>5. \A p \in pubs' : p.public.version <= Read'.pub
    BY <2>1, <2>2, <2>3, <2>4
  <2> QED
    BY <2>1, <2>2, <2>5 DEF PubsCurrent
<1>2. CASE CommitDraftChange
  <2>1. pubs' = pubs /\ Read'.pub = Read.pub
    BY <1>2, PubAtCommit DEF CommitDraftChange
  <2> QED
    BY <2>1 DEF PubsCurrent
<1>3. CASE KeepBaseline
  <2> DEFINE new == [by |-> NoCommand, agenda |-> draft.before, public |-> Live(proj)]
  <2>1. pubs' = {new} /\ Live(proj).version = draft.before.pub
    BY <1>3 DEF KeepBaseline
  <2>2. new.public.version = draft.before.pub
    BY <2>1
  <2> HIDE DEF new
  <2>3. draft.before.pub = Read.pub
    BY <1>3, DraftIsRead DEF KeepBaseline, Drafting, SameButFlags
  <2>4. Read' = Read
    <3>1. job.phase = "baseline" /\ edits' = edits /\ edits \in Nat
      BY <1>3, EditsGrow DEF KeepBaseline
    <3>2. ~(CommitPublication \/ CommitDraftChange) /\ ~Record
      BY <3>1 DEF CommitPublication, CommitDraftChange, Record
    <3>3. ~Edit
      BY <3>1, EditFields
    <3> QED
      BY <3>2, <3>3, ReadStays
  <2>5. Read.pub \in Nat
    BY ReadType DEF Snapshots
  <2> QED
    BY <2>1, <2>2, <2>3, <2>4, <2>5 DEF PubsCurrent
<1>4. CASE Edit \/ Record
  <2>1. pubs' = pubs /\ Read'.pub = Read.pub
    BY <1>4, EditFields, RecordWrites, ReadAfterEdit, ReadAfterRecord DEF SameButFlags
  <2> QED
    BY <2>1 DEF PubsCurrent
<1>5. CASE pubs' = pubs /\ Read' = Read
  BY <1>5 DEF PubsCurrent
<1>6. CommitPublication \/ KeepBaseline \/ pubs' = pubs
  BY DEF Next, Send, Begin, AlarmRuns, Operation, OperationCommits, OperationCommitsUnprojected,
         OperationPending, OperationFails, Repair, OperationsDone, CommitDraftChange, CommitFails,
         CalendarSettled, CalendarEnqueues, CalendarMarks, CalendarFails, Drained, DrainFails,
         Refuse, Evaluate, Load, BaselineFails, Record, EditPublic, EditStatus, Edited, Crash,
         dbVars
<1> QED
  BY <1>1, <1>2, <1>3, <1>4, <1>5, <1>6, ReadStays

-----------------------------------------------------------------------------
(* Theorems *)

LEMMA RowsOfFields ==
    ASSUME NEW a
    PROVE  /\ RowsOf(a)[EventRecord]
                = [ver |-> 1, content |-> [version |-> a.version, pub |-> a.pub]]
           /\ \A s \in Sessions :
                 /\ RowsOf(a)[SessionRecord(s)]
                      = [ver |-> 1, content |-> [state |-> a.session[s].state,
                                                  public |-> a.session[s].public,
                                                  length |-> a.session[s].length]]
                 /\ RowsOf(a)[SlotRecord(s)]
                      = [ver |-> 1, content |-> [cell |-> a.session[s].cell,
                                                  pub |-> a.session[s].slotPub]]
<1>1. RowsOf(a)[EventRecord] = [ver |-> 1, content |-> [version |-> a.version, pub |-> a.pub]]
  BY Kinds DEF RowsOf
<1>2. ASSUME NEW s \in Sessions
      PROVE  RowsOf(a)[SessionRecord(s)]
               = [ver |-> 1, content |-> [state |-> a.session[s].state,
                                           public |-> a.session[s].public,
                                           length |-> a.session[s].length]]
  BY Kinds DEF RowsOf
<1>3. ASSUME NEW s \in Sessions
      PROVE  RowsOf(a)[SlotRecord(s)]
               = [ver |-> 1, content |-> [cell |-> a.session[s].cell,
                                           pub |-> a.session[s].slotPub]]
  BY Kinds DEF RowsOf
<1> QED
  BY <1>1, <1>2, <1>3

LEMMA RowsOfType ==
    ASSUME NEW a \in Snapshots
    PROVE  /\ RowsOf(a) \in [Records -> [ver: Nat, content: Contents]]
           /\ \A r \in Records : RowsOf(a)[r].content \in ContentOf(r)
<1> SUFFICES ASSUME NEW r \in Records
             PROVE  /\ RowsOf(a)[r].content \in ContentOf(r)
                    /\ RowsOf(a)[r].content \in Contents
                    /\ RowsOf(a)[r] = [ver |-> 1, content |-> RowsOf(a)[r].content]
  <2>1. DOMAIN RowsOf(a) = Records /\ RowsOf(a) = [r \in Records |-> RowsOf(a)[r]]
    BY DEF RowsOf
  <2> QED
    BY <2>1
<1>1. CASE r = EventRecord
  <2>1. ContentOf(r) = [version: Nat, pub: Nat]
    BY <1>1, Kinds DEF ContentOf
  <2>2. RowsOf(a)[r] = [ver |-> 1, content |-> [version |-> a.version, pub |-> a.pub]]
    BY <1>1, RowsOfFields
  <2>3. a.version \in Nat /\ a.pub \in Nat
    BY DEF Snapshots
  <2> QED
    BY <2>1, <2>2, <2>3 DEF Contents
<1>2. ASSUME NEW s \in Sessions, r = SessionRecord(s) \/ r = SlotRecord(s)
      PROVE  /\ RowsOf(a)[r].content \in ContentOf(r)
             /\ RowsOf(a)[r].content \in Contents
             /\ RowsOf(a)[r] = [ver |-> 1, content |-> RowsOf(a)[r].content]
  <2>1. a.session[s] \in SessionView
    BY DEF Snapshots
  <2>2. CASE r = SessionRecord(s)
    <3>1. ContentOf(r) = [state: States, public: BOOLEAN, length: Nat]
      BY <2>2, Kinds DEF ContentOf
    <3>2. RowsOf(a)[r] = [ver |-> 1, content |-> [state |-> a.session[s].state,
                                                   public |-> a.session[s].public,
                                                   length |-> a.session[s].length]]
      <4>1. RowsOf(a)[SessionRecord(s)]
              = [ver |-> 1, content |-> [state |-> a.session[s].state,
                                          public |-> a.session[s].public,
                                          length |-> a.session[s].length]]
        BY RowsOfFields, Zenon
      <4> QED
        BY <2>2, <4>1
    <3> QED
      BY <2>1, <3>1, <3>2 DEF Contents, SessionView
  <2>3. CASE r = SlotRecord(s)
    <3>1. ContentOf(r) = [cell: Cells \cup {NoCell}, pub: Nat]
      BY <2>3, Kinds DEF ContentOf
    <3>2. RowsOf(a)[r] = [ver |-> 1, content |-> [cell |-> a.session[s].cell,
                                                   pub |-> a.session[s].slotPub]]
      BY <2>3, RowsOfFields
    <3> QED
      BY <2>1, <3>1, <3>2 DEF Contents, SessionView
  <2> QED
    BY <1>2, <2>2, <2>3
<1> QED
  BY <1>1, <1>2, Kinds

LEMMA InitEstablishes == Init => IInv
<1> SUFFICES ASSUME Init PROVE IInv
  OBVIOUS
<1>1. PICK a \in InitialAgendas : air = RowsOf(a) /\ proj = RowsOf(a)
  BY DEF Init
<1>2. a \in Snapshots
  BY InitialAgendasAssumption
<1>3. /\ request = [c \in Commands |-> NoCommand]
      /\ receipt = [c \in Commands |-> NoReceipt]
      /\ ledger = [c \in Commands |-> [r \in Records |-> "none"]]
      /\ pubs = {} /\ change = [c \in Commands |-> "none"] /\ intents = {}
      /\ job = Idle /\ alarm = FALSE /\ told = [c \in Commands |-> {}]
      /\ edits = 0 /\ crashes = 0
      /\ status \in InitialStatuses /\ draft = NoDraft
  BY DEF Init
<1>4. RowTypeOK
  BY <1>1, <1>2, <1>3, RowsOfType DEF RowTypeOK, RowsTyped
<1>5. RequestTypes /\ ReceiptTypeOK /\ ChangeTypes
  BY <1>3 DEF RequestTypes, ReceiptTypeOK, ChangeTypes
<1>6. CallTypes /\ DraftTypes /\ LimitTypes
  <2>1. told \in [Commands -> SUBSET {"committed", "pending", "refused"}]
    BY <1>3
  <2>2. edits \in 0 .. MaxEdits /\ crashes \in 0 .. MaxCrashes
    BY <1>3, BoundsAssumption
  <2>3. job \in JobType /\ alarm \in BOOLEAN
    BY <1>3, IdleType
  <2>4. NoDraft \in [before: Snapshots \cup {NoCommand}, expected: [Records -> Nat]]
    BY DEF NoDraft
  <2>5. DraftTypes
    BY <1>3, <2>4, InitialStatusesAssumption DEF DraftTypes
  <2> QED
    BY <2>1, <2>2, <2>3, <2>5 DEF CallTypes, LimitTypes
<1>7. TypeOK /\ RowsTyped
  BY <1>4, <1>5, <1>6, TypeParts
<1>8. Applying = {} /\ Unfinished = {}
  BY <1>3 DEF Unfinished, Applying, Owed, NoReceipt
<1>9. Jobs /\ Drafts
  BY <1>3, CallersAssumption DEF Jobs, Drafts, Drafting, Idle
<1>10. Receipts
  BY <1>3, <1>8 DEF Receipts, NoReceipt
<1>11. Answers /\ Rows /\ PubsCurrent /\ PublicationsAreSound
  BY <1>1, <1>3, <1>8 DEF Answers, Rows, PubsCurrent, PublicationsAreSound
<1> QED
  BY <1>7, <1>9, <1>10, <1>11 DEF IInv

LEMMA StutterKeeps ==
    ASSUME IInv, UNCHANGED vars
    PROVE  IInv'
<1>1. /\ request' = request /\ receipt' = receipt /\ ledger' = ledger /\ air' = air
      /\ proj' = proj /\ pubs' = pubs /\ change' = change /\ intents' = intents
      /\ job' = job /\ alarm' = alarm /\ told' = told /\ edits' = edits /\ crashes' = crashes
      /\ status' = status /\ draft' = draft
  BY DEF vars, dbVars
<1>2. TypeOK' /\ RowsTyped'
  BY <1>1 DEF IInv, TypeOK, RowsTyped, ContentOf
<1>3. Applying' = Applying /\ Owed' = Owed /\ Unfinished' = Unfinished
  BY <1>1 DEF Unfinished, Applying, Owed
<1>4. Snapshot(proj)' = Snapshot(proj)
  BY <1>1 DEF Snapshot
<1>5. Read' = Read
  BY <1>1, <1>3, <1>4 DEF Read
<1>6. \A c : /\ Operations(c)' = Operations(c)
             /\ \A r : /\ Durable(c, r)' <=> Durable(c, r)
                       /\ Fields(c, r)' = Fields(c, r)
  BY <1>1 DEF Operations, Durable, Fields, After
<1>7. Jobs'
  BY <1>1, <1>3, <1>6 DEF IInv, Jobs
<1>8. Receipts' /\ Answers'
  BY <1>1, <1>3, <1>6 DEF IInv, Receipts, Answers
<1>9. Rows'
  <2>1. edits \in Nat /\ TypeOK
    BY BoundsAssumption DEF IInv, TypeOK
  <2>2. ASSUME NEW c \in Applying, NEW r \in Records PROVE RowOf(c, r)'
    <3>1. c \in Commands /\ Kept(c) /\ RowOf(c, r)
      BY <1>1, RowsByRecord DEF IInv, Applying, Kept
    <3> QED
      BY <1>1, <2>1, <3>1, RowStays
  <2>3. Applying = {} => proj = air
    BY DEF IInv, Rows
  <2> QED
    BY <1>1, <1>3, <2>2, <2>3 DEF Rows, RowOf
<1>10. PubsCurrent' /\ PublicationsAreSound'
  BY <1>1, <1>5 DEF IInv, PubsCurrent, PublicationsAreSound
<1>11. Drafts'
  <2>1. Drafting' = Drafting
    BY <1>1 DEF Drafting
  <2>2. PICK a : a = draft.before
    OBVIOUS
  <2>3. ASSUME NEW r \in Records PROVE Shows(a, r, proj[r].content)' = Shows(a, r, proj[r].content)
    BY <1>1 DEF Shows, Kin
  <2>4. Tidy(a)' = Tidy(a)
    BY DEF Tidy
  <2> QED
    BY <1>1, <2>1, <2>2, <2>3, <2>4 DEF IInv, Drafts
<1> QED
  BY <1>2, <1>7, <1>8, <1>9, <1>10, <1>11 DEF IInv

LEMMA StepKeeps ==
    ASSUME IInv, Next
    PROVE  IInv'
<1>1. TypeOK /\ RowsTyped /\ Jobs /\ Drafts /\ Receipts /\ Answers /\ Rows /\ PubsCurrent
      /\ PublicationsAreSound
  BY DEF IInv
<1>2. TypeOK' /\ RowsTyped'
  BY <1>1, TypeStep
<1>3. Receipts'
  BY <1>1, ReceiptsStep
<1>4. Jobs' /\ Drafts' /\ Answers' /\ Rows'
  BY <1>1, JobsStep, DraftsStep, AnswersStep, RowsStep
<1>5. PubsCurrent' /\ PublicationsAreSound'
  BY <1>1, <1>2, <1>3, PubsCurrentStep, PublicationsSoundStep
<1> QED
  BY <1>2, <1>3, <1>4, <1>5 DEF IInv

\* The invariant on which everything below rests holds in every state.
THEOREM Inductive == Spec => []IInv
<1>1. IInv /\ [Next]_vars => IInv'
  BY StepKeeps, StutterKeeps
<1> QED
  BY InitEstablishes, <1>1, PTL DEF Spec

\* Every variable stays within its declared values: each record holds versions
\* and fields, each receipt a snapshot and the versions it expects.
THEOREM TypeCorrect == Spec => []TypeOK
<1>1. IInv => TypeOK
  BY DEF IInv
<1> QED
  BY Inductive, <1>1, PTL

\* However calls fail and are resumed, at most one command is unfinished.
THEOREM OneUnfinishedCommand == Spec => []OneUnfinished
<1>1. IInv => OneUnfinished
  <2> SUFFICES ASSUME IInv PROVE OneUnfinished
    OBVIOUS
  <2>1. \A c, d \in Unfinished : c = d
    BY DEF IInv, Receipts
  <2>2. CASE Unfinished = {}
    BY <2>2, FS_EmptySet DEF Unfinished, OneUnfinished
  <2>3. CASE Unfinished # {}
    <3>1. PICK c : Unfinished = {c}
      BY <2>1, <2>3
    <3>2. Cardinality({c}) = 1
      BY FS_Singleton
    <3> QED
      BY <3>1, <3>2 DEF Unfinished, OneUnfinished
  <2> QED
    BY <2>2, <2>3
<1> QED
  BY Inductive, <1>1, PTL

\* A publication shows its candidates, each in its place, and no two of them
\* clash; only a hand edit of a Public flag may take one out.
THEOREM PublicationsAreAlwaysSound == Spec => []PublicationsAreSound
<1>1. IInv => PublicationsAreSound
  BY DEF IInv
<1> QED
  BY Inductive, <1>1, PTL

\* Whenever no command is half applied, the public is shown the publication that
\* the event record names, and nothing only where the event is not published and
\* no publication of it is kept.
THEOREM LatestIsAlwaysCurrent == Spec => []LatestIsCurrent
<1>1. IInv => LatestIsCurrent
  <2> SUFFICES ASSUME IInv, Applying = {}
               PROVE  PublicSchedule.version =
                        IF pubs # {} \/ status = "published" THEN Snapshot(proj).pub ELSE 0
    BY DEF LatestIsCurrent
  <2>1. Read = Snapshot(proj) /\ Read.pub \in Nat
    BY ReadOtherwise, ReadType DEF IInv, Snapshots
  <2>2. CASE pubs # {}
    <3> DEFINE Newest(p) == \A q \in pubs : q.public.version <= p.public.version
    <3>1. \A p \in pubs : p.public.version \in Nat /\ p.public.version <= Read.pub
      BY <2>2 DEF IInv, PubsCurrent, RowsTyped
    <3>2. PICK p \in pubs : p.public.version = Read.pub
      BY <2>2 DEF IInv, PubsCurrent
    <3>3. \E q \in pubs : Newest(q)
      BY <3>1, <3>2
    <3>4. Latest \in pubs /\ Newest(Latest)
      BY <3>3 DEF Latest
    <3>5. Latest.public.version = Read.pub
      BY <2>1, <3>1, <3>2, <3>4
    <3>6. PublicSchedule = Latest.public
      BY <2>2 DEF PublicSchedule
    <3> QED
      BY <2>1, <2>2, <3>5, <3>6
  <2>3. CASE pubs = {}
    <3>1. PublicSchedule = Live(proj)
      BY <2>3 DEF PublicSchedule
    <3>2. Live(proj).version = IF status = "published" /\ Snapshot(proj).pub > 0
                               THEN Snapshot(proj).pub ELSE 0
      BY LiveFields, SnapshotFields
    <3> QED
      BY <2>1, <2>3, <3>1, <3>2
  <2> QED
    BY <2>2, <2>3
<1> QED
  BY Inductive, <1>1, PTL

\* Whoever is told "committed" can rely on the records of the command being in
\* Airtable and D1, on its receipt and on its calendar intent.
THEOREM CommittedIsAlwaysWhole == Spec => []CommittedIsWhole
<1>1. IInv => CommittedIsWhole
  <2> SUFFICES ASSUME IInv, NEW c \in Commands, "committed" \in told[c]
               PROVE  /\ receipt[c].state = "complete"
                      /\ \A r \in Operations(c) : Durable(c, r)
                      /\ change[c] = "none" \/ (change[c] = "enqueued" /\ c \in intents)
    BY DEF CommittedIsWhole
  <2>1. receipt[c].state = "complete" /\ change[c] # "owed"
    BY DEF IInv, Answers
  <2>2. change[c] \in {"none", "owed", "enqueued"}
    BY DEF IInv, TypeOK
  <2> QED
    BY <2>1, <2>2 DEF IInv, Receipts
<1> QED
  BY Inductive, <1>1, PTL

-----------------------------------------------------------------------------
(* The atomic agenda *)

\* AtomicAgenda has definitions of its own, which say the same.
LEMMA SameWords ==
    /\ Whole!SessionView = SessionView
    /\ \A version : Whole!CommandsAt(version) = CommandsAt(version)
    /\ \A view : Whole!HasSlot(view) <=> HasSlot(view)
    /\ \A a : Whole!Candidates(a) = Candidates(a)
    /\ \A placed : Whole!HardConflicts(placed) = HardConflicts(placed)
<1>1. Whole!SessionView = SessionView
  BY DEF Whole!SessionView, SessionView, Whole!States, States
<1>2. ASSUME NEW version PROVE Whole!CommandsAt(version) = CommandsAt(version)
  BY DEF Whole!CommandsAt, CommandsAt
<1>3. ASSUME NEW view PROVE Whole!HasSlot(view) <=> HasSlot(view)
  BY DEF Whole!HasSlot, HasSlot
<1>4. ASSUME NEW a PROVE Whole!Candidates(a) = Candidates(a)
  BY DEF Whole!Candidates, Candidates
<1>5. ASSUME NEW placed PROVE Whole!HardConflicts(placed) = HardConflicts(placed)
  <2>1. \A s, t : Whole!Before(placed, s, t) <=> Before(placed, s, t)
    BY DEF Whole!Before, Before
  <2>2. \A group, left, right, horizon :
           Whole!Reaches(placed, group, left, right, horizon)
             <=> Reaches(placed, group, left, right, horizon)
    BY <2>1 DEF Whole!Reaches, Reaches
  <2>3. /\ Whole!Pairs(placed) = Pairs(placed)
        /\ \A room : Whole!RoomSessions(placed, room) = RoomSessions(placed, room)
        /\ \A person : Whole!PersonSessions(placed, person) = PersonSessions(placed, person)
    BY DEF Whole!Pairs, Pairs, Whole!RoomSessions, RoomSessions, Whole!PersonSessions,
           PersonSessions
  <2>4. Whole!RoomOverlaps(placed) = RoomOverlaps(placed)
    BY <2>2, <2>3 DEF Whole!RoomOverlaps, RoomOverlaps
  <2>5. Whole!Met(placed) = Met(placed)
    BY <2>2, <2>3 DEF Whole!Met, Met
  <2>6. Whole!ParticipantOverlaps(placed) = ParticipantOverlaps(placed)
    BY <2>5 DEF Whole!ParticipantOverlaps, ParticipantOverlaps
  <2> QED
    BY <2>4, <2>6 DEF Whole!HardConflicts, HardConflicts
<1> QED
  BY <1>1, <1>2, <1>3, <1>4, <1>5

LEMMA SameCommands ==
    ASSUME NEW a, NEW command
    PROVE  /\ Whole!Result(a, command) = Result(a, command)
           /\ Whole!Accepts(a, command) <=> Accepts(a, command)
<1>1. \A b : Whole!Placed(b) = Placed(b)
  BY SameWords DEF Whole!Placed, Placed
<1>2. \A b : Whole!Valid(b) <=> Valid(b)
  BY SameWords DEF Whole!Valid, Valid
<1>3. \A b : Whole!CanPublish(b) <=> CanPublish(b)
  BY <1>1, SameWords DEF Whole!CanPublish, CanPublish
<1>4. \A view : Whole!Taken(view, command) = Taken(view, command)
  BY DEF Whole!Taken, Taken
<1>5. Whole!Result(a, command) = Result(a, command)
  BY <1>4, SameWords DEF Whole!Result, Result
<1>6. \A state : Whole!StartsFrom(command, state) <=> StartsFrom(command, state)
  BY DEF Whole!StartsFrom, StartsFrom
<1>7. Whole!Accepts(a, command) <=> Accepts(a, command)
  BY <1>1, <1>2, <1>3, <1>5, <1>6, SameWords DEF Whole!Accepts, Accepts
<1> QED
  BY <1>5, <1>7

\* Agendas that agree but for Public flags are one reflagging apart.
LEMMA FlagsOnly ==
    ASSUME NEW a, NEW b, SameButFlags(a, b)
    PROVE  Whole!Flagged(a, b)
<1> DEFINE views == [s \in Sessions |-> [b.session[s] EXCEPT !.public = a.session[s].public]]
<1>1. a \in Snapshots /\ b \in Snapshots
  BY DEF SameButFlags
<1>2. \A s \in Sessions : a.session[s].public \in BOOLEAN
  BY <1>1 DEF Snapshots, SessionView
<1>3. ASSUME NEW s \in Sessions
      PROVE  a.session[s] = [b.session[s] EXCEPT !.public = a.session[s].public]
  <2> DEFINE x == a.session[s]
             y == b.session[s]
             z == [y EXCEPT !.public = x.public]
  <2>1. x \in SessionView /\ y \in SessionView
    BY <1>1 DEF Snapshots
  <2>2. /\ x.state = y.state /\ x.length = y.length
        /\ x.cell = y.cell /\ x.slotPub = y.slotPub
    BY DEF SameButFlags
  <2> HIDE DEF x, y
  <2>3. /\ z \in SessionView
        /\ z.state = y.state /\ z.length = y.length /\ z.cell = y.cell
        /\ z.slotPub = y.slotPub /\ z.public = x.public
    BY <2>1 DEF SessionView
  <2> HIDE DEF z
  <2>4. x = z
    BY <2>1, <2>2, <2>3 DEF SessionView
  <2> QED
    BY <2>4 DEF x, y, z
<1>4. a.session = views
  <2>1. a.session \in [Sessions -> SessionView]
    BY <1>1 DEF Snapshots
  <2>2. a.session = [s \in Sessions |-> a.session[s]]
    BY <2>1
  <2> QED
    BY <1>3, <2>2
<1>5. [b EXCEPT !.session = [s \in Sessions |-> [@[s] EXCEPT !.public = a.session[s].public]]]
        = [b EXCEPT !.session = views]
  OBVIOUS
<1>6. a = [b EXCEPT !.session = views]
  <2> DEFINE z == [b EXCEPT !.session = views]
  <2>1. views \in [Sessions -> SessionView]
    BY <1>1, <1>4 DEF Snapshots
  <2> HIDE DEF views
  <2>2. /\ z \in Snapshots /\ z.version = b.version /\ z.pub = b.pub /\ z.session = views
    BY <1>1, <2>1 DEF Snapshots
  <2>3. a.version = b.version /\ a.pub = b.pub
    BY DEF SameButFlags
  <2> HIDE DEF z
  <2>4. a = z
    BY <1>1, <1>4, <2>2, <2>3 DEF Snapshots
  <2> QED
    BY <2>4 DEF z
<1> QED
  BY <1>2, <1>5, <1>6 DEF Whole!Flagged

\* The agenda of the event starts as one of the initial agendas.
LEMMA StartsAtomic ==
    ASSUME Init
    PROVE  Whole!AtomicInit
<1>1. PICK a \in InitialAgendas : proj = RowsOf(a)
  BY DEF Init
<1>2. a \in Snapshots /\ Tidy(a)
  BY <1>1, InitialAgendasAssumption
<1>3. receipt = [c \in Commands |-> NoReceipt]
  BY DEF Init
<1>4. Applying = {} /\ {c \in Commands : receipt[c].state = "complete"} = {}
  BY <1>3 DEF Applying, NoReceipt
<1>5. Read = Snapshot(proj)
  BY <1>4, ReadOtherwise
<1>6. ASSUME NEW s \in Sessions PROVE RowView(proj, s) = a.session[s]
  <2> DEFINE view == a.session[s]
             own == proj[SessionRecord(s)].content
             slot == proj[SlotRecord(s)].content
  <2>1. view \in SessionView
    BY <1>2 DEF Snapshots
  <2>2. HasSlot(view) \/ (view.cell = NoCell /\ view.slotPub = 0)
    BY <1>2 DEF Tidy
  <2>3. own = [state |-> view.state, public |-> view.public, length |-> view.length]
    <3>1. RowsOf(a)[SessionRecord(s)]
            = [ver |-> 1, content |-> [state |-> a.session[s].state,
                                        public |-> a.session[s].public,
                                        length |-> a.session[s].length]]
      BY RowsOfFields, Zenon
    <3> QED
      BY <1>1, <3>1
  <2>4. slot = [cell |-> view.cell, pub |-> view.slotPub]
    <3>1. RowsOf(a)[SlotRecord(s)]
            = [ver |-> 1, content |-> [cell |-> a.session[s].cell,
                                        pub |-> a.session[s].slotPub]]
      BY RowsOfFields, Zenon
    <3> QED
      BY <1>1, <3>1
  <2>5. RowView(proj, s) =
          [state |-> own.state, public |-> own.public, length |-> own.length,
           cell |-> IF HasSlot(own) THEN slot.cell ELSE NoCell,
           slotPub |-> IF HasSlot(own) THEN slot.pub ELSE 0]
    BY DEF RowView
  <2> HIDE DEF own, slot, view
  <2>6. /\ own.state = view.state /\ own.public = view.public /\ own.length = view.length
        /\ slot.cell = view.cell /\ slot.pub = view.slotPub
    BY <2>3, <2>4
  <2>7. HasSlot(own) <=> HasSlot(view)
    BY <2>6 DEF HasSlot
  <2>8. RowView(proj, s) = [state |-> view.state, public |-> view.public,
                            length |-> view.length, cell |-> view.cell,
                            slotPub |-> view.slotPub]
    BY <2>2, <2>5, <2>6, <2>7
  <2>9. view = [state |-> view.state, public |-> view.public, length |-> view.length,
                cell |-> view.cell, slotPub |-> view.slotPub]
    BY <2>1 DEF SessionView
  <2> QED
    BY <2>8, <2>9 DEF view
<1>7. proj[EventRecord].content = [version |-> a.version, pub |-> a.pub]
  <2>1. RowsOf(a)[EventRecord]
          = [ver |-> 1, content |-> [version |-> a.version, pub |-> a.pub]]
    BY RowsOfFields, Zenon
  <2> QED
    BY <1>1, <2>1
<1>8. Snapshot(proj) = a
  <2> DEFINE views == [s \in Sessions |-> RowView(proj, s)]
  <2>1. Snapshot(proj) = [version |-> proj[EventRecord].content.version,
                          pub |-> proj[EventRecord].content.pub, session |-> views]
    BY SnapshotFields
  <2>2. a.session \in [Sessions -> SessionView]
    BY <1>2 DEF Snapshots
  <2>3. views = a.session
    BY <1>6, <2>2
  <2> HIDE DEF views
  <2>4. Snapshot(proj) = [version |-> a.version, pub |-> a.pub, session |-> a.session]
    BY <1>7, <2>1, <2>3
  <2>5. a = [version |-> a.version, pub |-> a.pub, session |-> a.session]
    BY <1>2 DEF Snapshots
  <2> QED
    BY <2>4, <2>5
<1> QED
  BY <1>1, <1>4, <1>5, <1>8 DEF Whole!AtomicInit

\* A commit is the atomic command; a hand edit is a reflagging, and so is a receipt
\* that freezes flags read before one; whatever else happens, readers see nothing of it.
LEMMA StepsAtomic ==
    ASSUME IInv, IInv', Next
    PROVE  [Whole!AtomicNext]_<<Read, {c \in Commands : receipt[c].state = "complete"}>>
<1> DEFINE Finished == {c \in Commands : receipt[c].state = "complete"}
<1>1. /\ TypeOK /\ RowsTyped /\ Jobs /\ Drafts /\ Receipts /\ Rows
      /\ TypeOK' /\ RowsTyped' /\ Receipts'
  BY DEF IInv
<1>2. CASE CommitPublication \/ CommitDraftChange
  <2> DEFINE a == receipt[job.target].before
  <2>0. PICK c \in Applying : c = job.target
    BY <1>1, <1>2, CommitEnds
  <2>1. c \in Commands /\ receipt[c] # NoReceipt /\ receipt[c].state = "applying"
    BY <1>1, ReceiptTypes DEF Applying
  <2>2. receipt' = [receipt EXCEPT ![c].state = "complete"]
    BY <1>1, <1>2, <2>0, CommitsWrite
  <2>3. c \notin Finished /\ Finished' = Finished \cup {c}
    <3>1. receipt'[c].state = "complete"
      BY <1>1, <2>1, <2>2, ReceiptTypes DEF TypeOK
    <3>2. \A d \in Commands : d # c => receipt'[d] = receipt[d]
      BY <1>1, <2>2 DEF TypeOK
    <3> QED
      BY <2>1, <3>1, <3>2
  <2>4. /\ request[c] \in CommandsAt(Read.version) /\ Accepts(Read, request[c])
        /\ After(c) = Result(Read, request[c])
    <3>1. Read = receipt[c].before
      BY <1>1, <1>2, <2>0, ReadAtCommit
    <3> QED
      BY <1>1, <2>1, <3>1, StoredCommands DEF After
  <2>5. Whole!Flagged(Read', Result(Read, request[c]))
    <3>1. SameButFlags(Read', After(c))
      BY <1>1, <1>2, <2>0, ReadAtCommit
    <3> QED
      BY <2>4, <3>1, FlagsOnly
  <2>6. /\ request[c] \in Whole!CommandsAt(Read.version)
        /\ Whole!Accepts(Read, request[c])
        /\ Whole!Flagged(Read', Whole!Result(Read, request[c]))
    BY <2>4, <2>5, SameWords, SameCommands
  <2>7. Whole!Apply(c)
    BY <2>3, <2>6 DEF Whole!Apply
  <2> QED
    BY <2>1, <2>7 DEF Whole!AtomicNext
<1>3. ASSUME ~(CommitPublication \/ CommitDraftChange) PROVE Finished' = Finished
  <2>1. ASSUME NEW c \in Commands
        PROVE  receipt'[c].state = "complete" <=> receipt[c].state = "complete"
    <3>1. CASE receipt' = receipt
      BY <3>1
    <3>2. CASE Record
      <4>1. job.phase # "commit"
        BY <3>2 DEF Record
      <4> QED
        BY <1>1, <3>2, <4>1, ReceiptsComeFrom, ReceiptTypes
    <3> QED
      BY <1>1, <1>3, <3>1, <3>2, ReceiptSteps
  <2> QED
    BY <2>1
<1>4. ASSUME Edit \/ Record, ~(CommitPublication \/ CommitDraftChange)
      PROVE  Whole!Reflag
  <2>1. Whole!Flagged(Read', Read)
    BY <1>1, <1>4, ReadAfterEdit, ReadAfterRecord, FlagsOnly
  <2> QED
    BY <1>3, <1>4, <2>1 DEF Whole!Reflag
<1>5. CASE ~(CommitPublication \/ CommitDraftChange) /\ ~Edit /\ ~Record
  <2>1. Read' = Read
    BY <1>1, <1>5, ReadStays
  <2> QED
    BY <1>3, <1>5, <2>1
<1> QED
  BY <1>2, <1>4, <1>5 DEF Whole!AtomicNext

LEMMA StuttersAtomic ==
    ASSUME UNCHANGED vars
    PROVE  UNCHANGED <<Read, {c \in Commands : receipt[c].state = "complete"}>>
<1>1. receipt' = receipt /\ proj' = proj
  BY DEF vars, dbVars
<1>2. Applying' = Applying /\ Snapshot(proj)' = Snapshot(proj)
  BY <1>1 DEF Applying, Snapshot
<1>3. Read' = Read
  BY <1>1, <1>2 DEF Read
<1> QED
  BY <1>1, <1>3

\* Readers see an agenda that moves by whole commands: what several Airtable
\* writes, D1 rows, retries, alarms and crashes make up is one atomic step, taken
\* at most once per command and on the version it expects.
THEOREM AgendaIsAtomic == Spec => ImplementsAtomicAgenda
<1>1. Init => Whole!AtomicInit
  BY StartsAtomic
<1>2. IInv /\ IInv' /\ [Next]_vars
        => [Whole!AtomicNext]_<<Read, {c \in Commands : receipt[c].state = "complete"}>>
  BY StepsAtomic, StuttersAtomic
<1> QED
  BY Inductive, <1>1, <1>2, PTL DEF Spec, ImplementsAtomicAgenda, Whole!AtomicSpec
=============================================================================
