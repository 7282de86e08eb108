-------------------------- MODULE ScheduleCommands --------------------------
(***************************************************************************)
(* Schedule commands of one event: schedule/coordinator.ts, service.ts,    *)
(* publication-repository.ts and d1-repository.ts.  The coordinator object *)
(* runs one call at a time (commandQueue).  A command becomes several      *)
(* commands of the base authority, one per record it changes; a D1 receipt *)
(* holds them while they are applied, and a call that could not finish     *)
(* leaves the receipt to the next command or to the alarm.                 *)
(*                                                                         *)
(* The authority is used by its contract, which BaseAuthority checks: one  *)
(* of its commands is applied at most once and only to the version it      *)
(* expects, D1 may lag behind until it is repaired, a failure is final.    *)
(***************************************************************************)
EXTENDS Agenda, FiniteSets

CONSTANTS
    Commands,           \* command IDs
    NoCommand,
    Alarm,              \* the caller of an alarm's run
    InitialAgendas,     \* agendas the event may start from
    InitialStatuses,    \* values the event's Status may start from
    Refusals,           \* may Airtable refuse an operation for good?
    MaxEdits,           \* bound on hand edits of a Public flag or of the event's Status
    MaxCrashes          \* bound on evictions of the coordinator

ASSUME CallersAssumption ==
    NoCommand \notin Commands /\ Alarm \notin Commands /\ NoCommand # Alarm

\* Agendas as readSchedule returns them: a session without a slot has no place.
ASSUME InitialAgendasAssumption ==
    /\ InitialAgendas \subseteq Snapshots
    /\ \A a \in InitialAgendas : Tidy(a)
\* Values of the event's Status; the four that are not "published" are one.
EventStatuses == {"published", "other"}

ASSUME InitialStatusesAssumption == InitialStatuses \subseteq EventStatuses
ASSUME BoundsAssumption == MaxEdits \in Nat /\ MaxCrashes \in Nat

VARIABLES
    request,    \* request[c]: the body of command c, NoCommand until it is sent
    receipt,    \* schedule_command_receipts
    ledger,     \* ledger[c][r]: the authority's command of c for record r
    air,        \* Airtable: version and content of each record
    proj,       \* the p_* rows of D1
    status,     \* Status of the event's record, and of its row: an edit reaches both
    pubs,       \* schedule_publications
    change,     \* schedule_public_changes: none, owed (no calendar intent), enqueued
    intents,    \* commands with a row in the calendar outbox
    job,        \* the call behind commandQueue: by whom, for which receipt, where
    draft,      \* what that call has read for a receipt: the snapshot, the versions
    alarm,      \* the object's alarm is set
    told,       \* history: answers given about a command
    edits, crashes

dbVars == <<receipt, ledger, air, proj, status, pubs, change, intents>>
vars == <<request, dbVars, job, draft, alarm, told, edits, crashes>>

-----------------------------------------------------------------------------
(***************************************************************************)
(* Records and what is read from them.                                     *)
(***************************************************************************)
EventRecord == <<"event", 0>>
SessionRecord(s) == <<"session", s>>
SlotRecord(s) == <<"slot", s>>
Records == ({"session", "slot"} \X Sessions) \cup {EventRecord}

Contents == [version: Nat, pub: Nat]
              \cup [state: States, public: BOOLEAN, length: Nat]
              \cup [cell: Cells \cup {NoCell}, pub: Nat]

NoReceipt == [state |-> "none"]

Idle == [by |-> NoCommand, target |-> NoCommand, phase |-> "idle"]

\* The call of by works on target and is about to take the named step; "repair"
\* and "remark" are "calendar" and "mark" for a receipt that was complete already.
Call(by, target, phase) == [by |-> by, target |-> target, phase |-> phase]

\* A call that is not about to record a receipt has read nothing for one.
NoDraft == [before |-> NoCommand, expected |-> [r \in Records |-> 0]]

\* The rows that hold an agenda, every record at version one.
RowsOf(a) ==
    [r \in Records |->
       [ver |-> 1,
        content |->
          CASE r[1] = "event" -> [version |-> a.version, pub |-> a.pub]
            [] r[1] = "session" ->
                 [state |-> a.session[r[2]].state, public |-> a.session[r[2]].public,
                  length |-> a.session[r[2]].length]
            [] r[1] = "slot" ->
                 [cell |-> a.session[r[2]].cell, pub |-> a.session[r[2]].slotPub]]]

\* D1ScheduleProjectionRepository.read over the rows: a slot row counts only
\* for a session that is scheduled or published.
Snapshot(rows) ==
    LET View(s) ==
            LET own == rows[SessionRecord(s)].content
                slot == rows[SlotRecord(s)].content
            IN  [state |-> own.state, public |-> own.public, length |-> own.length,
                 cell |-> IF HasSlot(own) THEN slot.cell ELSE NoCell,
                 slotPub |-> IF HasSlot(own) THEN slot.pub ELSE 0]
    IN  [version |-> rows[EventRecord].content.version,
         pub |-> rows[EventRecord].content.pub,
         session |-> [s \in Sessions |-> View(s)]]

Applying == {c \in Commands : receipt[c].state = "applying"}

\* Receipts that are complete while their calendar intent is still owed.
Owed == {c \in Commands : receipt[c].state = "complete" /\ change[c] = "owed"}

\* Mutant: readers see the rows as they are.
ReadRows == Snapshot(proj)

\* While a command is applied, readers keep the snapshot it started from.
Read ==
    IF Applying # {} THEN receipt[CHOOSE c \in Applying : TRUE].before
                     ELSE Snapshot(proj)

\* What is not found has no sessions, and the version no publication has.
NotFound == [version |-> 0, sessions |-> <<>>]

\* readLiveEvent and buildLiveProjection: an event whose Status is published and
\* that has a publication shows where each of its public sessions takes place.
Live(rows) ==
    LET event == rows[EventRecord].content
        Shown == {s \in Sessions :
                    /\ rows[SessionRecord(s)].content.state = "published"
                    /\ rows[SessionRecord(s)].content.public
                    /\ rows[SlotRecord(s)].content.pub = event.pub}
    IN  IF status = "published" /\ event.pub > 0
        THEN [version |-> event.pub,
              sessions |-> [s \in Shown |-> rows[SlotRecord(s)].content.cell]]
        ELSE NotFound

Latest == CHOOSE p \in pubs : \A q \in pubs : q.public.version <= p.public.version

\* What readBySlug shows: the latest publication, whatever has become of the
\* event's Status since; without one the live schedule, unless it is changing.
PublicSchedule ==
    CASE pubs # {} -> Latest.public
      [] pubs = {} /\ Applying = {} -> Live(proj)
      [] OTHER -> NotFound

-----------------------------------------------------------------------------
(***************************************************************************)
(* The operations of a receipt: per changed session its slot, then the     *)
(* session; the event last.                                                *)
(***************************************************************************)
After(c) == Result(receipt[c].before, request[c])

Operations(c) ==
    {SlotRecord(s) : s \in Rewritten(receipt[c].before, request[c])}
      \cup {SessionRecord(s) : s \in Restated(receipt[c].before, request[c])}
      \cup {EventRecord}

Precedes(r, q) ==
    \/ q = EventRecord /\ r # EventRecord
    \/ r[1] = "slot" /\ q[1] = "session" /\ r[2] = q[2]

\* The fields an operation writes.  Public is written as "is published now"; the
\* event's Status is not written.
Fields(c, r) ==
    LET view == After(c).session[r[2]]
    IN  CASE r[1] = "event" -> [version |-> After(c).version, pub |-> After(c).pub]
          [] r[1] = "session" -> [state |-> view.state, length |-> view.length,
                                  public |-> view.public /\ view.state = "published"]
          [] r[1] = "slot" -> [cell |-> view.cell, pub |-> view.slotPub]

Durable(c, r) == ledger[c][r] = "applied" /\ proj[r].ver > receipt[c].expected[r]

\* The operation executeOperation is at: nothing before it is left to do.
AtOperation(c, r) ==
    /\ r \in Operations(c)
    /\ ~Durable(c, r)
    /\ \A q \in Operations(c) : Precedes(q, r) => Durable(c, q)

-----------------------------------------------------------------------------
TypeOK ==
    /\ DOMAIN request = Commands
    /\ \A c \in Commands :
          request[c] # NoCommand =>
             /\ request[c].expected \in Nat
             /\ request[c] \in CommandsAt(request[c].expected)
    /\ receipt \in [Commands ->
                      {NoReceipt} \cup [state: {"applying", "complete"}, before: Snapshots,
                                        expected: [Records -> Nat]]]
    /\ ledger \in [Commands -> [Records -> {"none", "applied", "failed"}]]
    /\ air \in [Records -> [ver: Nat, content: Contents]]
    /\ proj \in [Records -> [ver: Nat, content: Contents]]
    /\ status \in EventStatuses
    /\ change \in [Commands -> {"none", "owed", "enqueued"}]
    /\ intents \subseteq Commands
    /\ job \in [by: Commands \cup {NoCommand, Alarm}, target: Commands \cup {NoCommand},
                phase: {"idle", "apply", "commit", "calendar", "mark", "drain", "repair",
                        "remark", "evaluate", "load", "baseline", "record"}]
    /\ draft \in [before: Snapshots \cup {NoCommand}, expected: [Records -> Nat]]
    /\ alarm \in BOOLEAN
    /\ told \in [Commands -> SUBSET {"committed", "pending", "refused"}]
    /\ edits \in 0 .. MaxEdits /\ crashes \in 0 .. MaxCrashes

(***************************************************************************)
(* An event starts with an agenda that acceptance, an import or the demo   *)
(* fixture has made; what it had published before publications were kept   *)
(* has no row (ensureLegacyBaseline).                                      *)
(***************************************************************************)
Init ==
    /\ \E a \in InitialAgendas : air = RowsOf(a) /\ proj = RowsOf(a)
    /\ status \in InitialStatuses
    /\ request = [c \in Commands |-> NoCommand]
    /\ receipt = [c \in Commands |-> NoReceipt]
    /\ ledger = [c \in Commands |-> [r \in Records |-> "none"]]
    /\ pubs = {}
    /\ change = [c \in Commands |-> "none"]
    /\ intents = {}
    /\ job = Idle
    /\ draft = NoDraft
    /\ alarm = FALSE
    /\ told = [c \in Commands |-> {}]
    /\ edits = 0 /\ crashes = 0

-----------------------------------------------------------------------------
(***************************************************************************)
(* Clients and calls.                                                      *)
(***************************************************************************)
\* An organizer reads the agenda and makes up a command.
Send(c) ==
    /\ request[c] = NoCommand
    /\ request' \in {[request EXCEPT ![c] = command] : command \in CommandsAt(Read.version)}
    /\ UNCHANGED <<dbVars, job, draft, alarm, told, edits, crashes>>

\* Mutant: a receipt that is complete is out of the way, whatever it owes.
OnwardAtOnce(c) == Call(c, c, "evaluate")

\* Where a call for c goes once another receipt is out of its way.
Onward(c) ==
    IF Owed # {} THEN Call(c, CHOOSE t \in Owed : TRUE, "repair")
                 ELSE Call(c, c, "evaluate")

\* execute reaches the head of the queue, for the first time or as a retry: a
\* receipt of its own is resumed, otherwise those in front of it come first.
Begin(c) ==
    /\ job = Idle
    /\ request[c] # NoCommand
    /\ job' = CASE receipt[c].state = "complete" -> Call(c, c, "repair")
                [] receipt[c].state = "applying" -> Call(c, c, "apply")
                [] receipt[c].state = "none" /\ Applying # {} ->
                     Call(c, CHOOSE t \in Applying : TRUE, "apply")
                [] OTHER -> Onward(c)
    /\ UNCHANGED <<request, dbVars, draft, alarm, told, edits, crashes>>

\* alarm, and its resumePending: an applying receipt, else one owed intent.
AlarmRuns ==
    /\ job = Idle
    /\ alarm
    /\ job' = CASE Applying # {} -> Call(Alarm, CHOOSE t \in Applying : TRUE, "apply")
                [] Applying = {} /\ Owed # {} ->
                     Call(Alarm, CHOOSE t \in Owed : TRUE, "repair")
                [] OTHER -> Idle
    /\ alarm' = (Applying # {} \/ Owed # {})
    /\ UNCHANGED <<request, dbVars, draft, told, edits, crashes>>

\* Mutant: the error is answered and the alarm left as it is.
SuspendUnarmed ==
    /\ job' = Idle
    /\ told' = IF job.by = Alarm THEN told ELSE [told EXCEPT ![job.target] = @ \cup {"pending"}]
    /\ UNCHANGED alarm

\* A ScheduleAuthorityPendingError about the target: the alarm is set, and a
\* caller is told that the command is pending.
Suspend ==
    /\ alarm' = TRUE
    /\ job' = Idle
    /\ told' = IF job.by = Alarm THEN told ELSE [told EXCEPT ![job.target] = @ \cup {"pending"}]

\* Any other error goes to the caller as it is; a failed alarm runs again.
Throw ==
    /\ job' = Idle
    /\ UNCHANGED <<alarm, told>>

\* Mutant: every call goes on to a command of its caller, the alarm's too.
FinishAlways(next) ==
    /\ job' = IF job.by = job.target THEN Idle ELSE next
    /\ alarm' = (alarm /\ job.by # Alarm)
    /\ told' = IF job.by = job.target
               THEN [told EXCEPT ![job.target] = @ \cup {"committed"}] ELSE told

\* The target is finished: answer, or go on to the caller's own command.
Finish(next) ==
    /\ job' = IF job.by \in {job.target, Alarm} THEN Idle ELSE next
    /\ alarm' = (alarm /\ job.by # Alarm)
    /\ told' = IF job.by = job.target
               THEN [told EXCEPT ![job.target] = @ \cup {"committed"}] ELSE told

-----------------------------------------------------------------------------
(***************************************************************************)
(* executeOperation.  Airtable takes the write and D1 follows at once,     *)
(* later, or the answer is lost; or the operation fails for good.          *)
(***************************************************************************)
Written(c, r) ==
    /\ ledger[c][r] = "none"
    /\ air[r].ver = receipt[c].expected[r]
    /\ air' = [air EXCEPT ![r] = [ver |-> @.ver + 1, content |-> Fields(c, r)]]
    /\ ledger' = [ledger EXCEPT ![c][r] = "applied"]

OperationCommits(r) ==
    /\ job.phase = "apply"
    /\ AtOperation(job.target, r)
    /\ Written(job.target, r)
    /\ proj' = [proj EXCEPT ![r] = air'[r]]
    /\ UNCHANGED <<request, receipt, status, pubs, change, intents, job, draft, alarm, told, edits,
                   crashes>>

OperationCommitsUnprojected(r) ==
    /\ job.phase = "apply"
    /\ AtOperation(job.target, r)
    /\ Written(job.target, r)
    /\ Suspend
    /\ UNCHANGED <<request, receipt, proj, status, pubs, change, intents, draft, edits, crashes>>

\* The answer is unknown and nothing was written, or what was written before is
\* not projected yet.
OperationPending(r) ==
    /\ job.phase = "apply"
    /\ AtOperation(job.target, r)
    /\ ledger[job.target][r] # "failed"
    /\ Suspend
    /\ UNCHANGED <<request, dbVars, draft, edits, crashes>>

\* A version conflict or a refusal: the authority keeps the failure and repeats
\* it to every later attempt.
OperationFails(r) ==
    /\ job.phase = "apply"
    /\ AtOperation(job.target, r)
    /\ \/ ledger[job.target][r] = "failed"
       \/ /\ ledger[job.target][r] = "none"
          /\ Refusals \/ air[r].ver # receipt[job.target].expected[r]
    /\ ledger' = [ledger EXCEPT ![job.target][r] = "failed"]
    /\ Throw
    /\ UNCHANGED <<request, receipt, air, proj, status, pubs, change, intents, draft, edits,
                   crashes>>

\* The authority's own recovery brings a lagging row up to date.
Repair(r) ==
    /\ proj[r] # air[r]
    /\ proj' = [proj EXCEPT ![r] = air[r]]
    /\ UNCHANGED <<request, receipt, ledger, air, status, pubs, change, intents, job, draft, alarm,
                   told, edits, crashes>>

\* Mutant: an operation Airtable took counts as done before D1 shows it.
OperationsWritten ==
    /\ job.phase = "apply"
    /\ \A r \in Operations(job.target) : ledger[job.target][r] = "applied"
    /\ job' = [job EXCEPT !.phase = "commit"]
    /\ UNCHANGED <<request, dbVars, draft, alarm, told, edits, crashes>>

OperationsDone ==
    /\ job.phase = "apply"
    /\ \A r \in Operations(job.target) : Durable(job.target, r)
    /\ job' = [job EXCEPT !.phase = "commit"]
    /\ UNCHANGED <<request, dbVars, draft, alarm, told, edits, crashes>>

-----------------------------------------------------------------------------
(***************************************************************************)
(* commit: one D1 batch completes the receipt together with what the       *)
(* command adds to the public record.                                      *)
(***************************************************************************)
Complete(c) == receipt' = [receipt EXCEPT ![c].state = "complete"]

\* Mutant: a publication completes like any other command.
CommitUncaptured ==
    /\ job.phase = "commit"
    /\ request[job.target].type = "publish"
    /\ Complete(job.target)
    /\ job' = [job EXCEPT !.phase = "drain"]
    /\ UNCHANGED <<request, ledger, air, proj, status, pubs, change, intents, draft, alarm, told,
                   edits, crashes>>

\* A publication captures the live projection; versions and commands are unique.
CommitPublication ==
    /\ job.phase = "commit"
    /\ LET c == job.target
       IN  /\ request[c].type = "publish"
           /\ Live(proj).version = After(c).pub
           /\ \A p \in pubs : p.public.version # After(c).pub /\ p.by # c
           /\ pubs' = pubs \cup {[by |-> c, agenda |-> After(c), public |-> Live(proj)]}
           /\ Complete(c)
    /\ job' = [job EXCEPT !.phase = "drain"]
    /\ UNCHANGED <<request, ledger, air, proj, status, change, intents, draft, alarm, told, edits,
                   crashes>>

CommitDraftChange ==
    /\ job.phase = "commit"
    /\ LET c == job.target
       IN  /\ request[c].type # "publish"
           /\ Complete(c)
           /\ IF ChangesPublic(receipt[c].before, request[c])
              THEN /\ change' = [change EXCEPT ![c] = "owed"]
                   /\ job' = [job EXCEPT !.phase = "calendar"]
              ELSE /\ job' = [job EXCEPT !.phase = "drain"]
                   /\ UNCHANGED change
    /\ UNCHANGED <<request, ledger, air, proj, status, pubs, intents, draft, alarm, told, edits,
                   crashes>>

CommitFails ==
    /\ job.phase = "commit"
    /\ Suspend
    /\ UNCHANGED <<request, dbVars, draft, edits, crashes>>

\* repairCalendarChange: enqueueChange is idempotent by key, then the fact is
\* marked.  A call for a receipt that owes nothing returns its stored result.
CalendarSettled ==
    /\ job.phase = "repair"
    /\ change[job.target] # "owed"
    /\ Finish(Call(job.by, job.by, "evaluate"))
    /\ UNCHANGED <<request, dbVars, draft, edits, crashes>>

CalendarEnqueues ==
    /\ job.phase \in {"calendar", "repair"}
    /\ change[job.target] = "owed"
    /\ intents' = intents \cup {job.target}
    /\ job' = [job EXCEPT !.phase = IF @ = "repair" THEN "remark" ELSE "mark"]
    /\ UNCHANGED <<request, receipt, ledger, air, proj, status, pubs, change, draft, alarm, told,
                   edits, crashes>>

CalendarMarks ==
    /\ job.phase \in {"mark", "remark"}
    /\ change' = [change EXCEPT ![job.target] = "enqueued"]
    /\ IF job.phase = "mark"
       THEN job' = [job EXCEPT !.phase = "drain"] /\ UNCHANGED <<alarm, told>>
       ELSE Finish(Call(job.by, job.by, "evaluate"))
    /\ UNCHANGED <<request, receipt, ledger, air, proj, status, pubs, intents, draft, edits,
                   crashes>>

CalendarFails ==
    /\ job.phase \in {"calendar", "mark", "repair", "remark"}
    /\ change[job.target] = "owed"
    /\ Suspend
    /\ UNCHANGED <<request, dbVars, draft, edits, crashes>>

\* The command is broadcast; then the authority's recoverPending succeeds...
Drained ==
    /\ job.phase = "drain"
    /\ Finish(Onward(job.by))
    /\ UNCHANGED <<request, dbVars, draft, edits, crashes>>

\* ... or its failure is what the caller hears of a command that is complete.
DrainFails ==
    /\ job.phase = "drain"
    /\ Throw
    /\ UNCHANGED <<request, dbVars, draft, edits, crashes>>

-----------------------------------------------------------------------------
(***************************************************************************)
(* A new command: it is applied to the snapshot that is read; the versions *)
(* of the records are read after that; a first publication under this      *)
(* scheme keeps the schedule that was public; then the receipt is stored.  *)
(***************************************************************************)
Refuse ==
    /\ job.phase = "evaluate"
    /\ ~Accepts(Read, request[job.by])
    /\ told' = [told EXCEPT ![job.by] = @ \cup {"refused"}]
    /\ job' = Idle
    /\ UNCHANGED <<request, dbVars, draft, alarm, edits, crashes>>

Evaluate ==
    /\ job.phase = "evaluate"
    /\ Accepts(Read, request[job.by])
    /\ draft' = [draft EXCEPT !.before = Read]
    /\ job' = [job EXCEPT !.phase = "load"]
    /\ UNCHANGED <<request, dbVars, alarm, told, edits, crashes>>

NeedsBaseline == request[job.by].type = "publish" /\ draft.before.pub > 0 /\ pubs = {}

\* loadPersistenceContext: the source versions D1 holds by now.
Load ==
    /\ job.phase = "load"
    /\ draft' = [draft EXCEPT !.expected = [r \in Records |-> proj[r].ver]]
    /\ job' = [job EXCEPT !.phase = IF NeedsBaseline THEN "baseline" ELSE "record"]
    /\ UNCHANGED <<request, dbVars, alarm, told, edits, crashes>>

\* ensureLegacyBaseline keeps what is public ...
KeepBaseline ==
    /\ job.phase = "baseline"
    /\ Live(proj).version = draft.before.pub
    /\ pubs' = {[by |-> NoCommand, agenda |-> draft.before, public |-> Live(proj)]}
    /\ job' = [job EXCEPT !.phase = "record"]
    /\ UNCHANGED <<request, receipt, ledger, air, proj, status, change, intents, draft, alarm, told,
                   edits, crashes>>

\* ... and fails when nothing is: the call ends before there is a receipt.
BaselineFails ==
    /\ job.phase = "baseline"
    /\ Live(proj).version # draft.before.pub
    /\ draft' = NoDraft
    /\ Throw
    /\ UNCHANGED <<request, dbVars, edits, crashes>>

\* The receipt freezes the snapshot and the record versions that were read.
Record ==
    /\ job.phase = "record"
    /\ receipt' = [receipt EXCEPT ![job.by] =
                     [state |-> "applying", before |-> draft.before,
                      expected |-> draft.expected]]
    /\ draft' = NoDraft
    /\ job' = [job EXCEPT !.phase = "apply"]
    /\ UNCHANGED <<request, ledger, air, proj, status, pubs, change, intents, alarm, told, edits,
                   crashes>>

-----------------------------------------------------------------------------
(***************************************************************************)
(* External: somebody edits a record in Airtable, and the edit is          *)
(* reconciled as a new version of the record.                              *)
(***************************************************************************)
Edited(r, content) ==
    /\ edits < MaxEdits
    /\ proj[r] = air[r]
    /\ air' = [air EXCEPT ![r] = [ver |-> @.ver + 1, content |-> content]]
    /\ proj' = [proj EXCEPT ![r] = air'[r]]
    /\ edits' = edits + 1
    /\ UNCHANGED <<request, receipt, ledger, pubs, change, intents, job, draft, alarm, told,
                   crashes>>

EditPublic(s) ==
    LET content == air[SessionRecord(s)].content
    IN  /\ Edited(SessionRecord(s), [content EXCEPT !.public = ~@])
        /\ UNCHANGED status

EditStatus ==
    /\ Edited(EventRecord, air[EventRecord].content)
    /\ status' \in EventStatuses \ {status}

\* The object is evicted in the middle of a call; a running alarm runs again.
Crash ==
    /\ crashes < MaxCrashes
    /\ job # Idle
    /\ job' = Idle
    /\ draft' = NoDraft
    /\ crashes' = crashes + 1
    /\ UNCHANGED <<request, dbVars, alarm, told, edits>>

Operation(r) ==
    \/ OperationCommits(r)
    \/ OperationCommitsUnprojected(r)
    \/ OperationPending(r)
    \/ OperationFails(r)

Next ==
    \/ \E c \in Commands : Send(c) \/ Begin(c)
    \/ AlarmRuns
    \/ \E r \in Records : Operation(r) \/ Repair(r)
    \/ OperationsDone \/ CommitPublication \/ CommitDraftChange \/ CommitFails
    \/ CalendarSettled \/ CalendarEnqueues \/ CalendarMarks \/ CalendarFails
    \/ Drained \/ DrainFails
    \/ Refuse \/ Evaluate \/ Load \/ KeepBaseline \/ BaselineFails \/ Record
    \/ \E s \in Sessions : EditPublic(s)
    \/ EditStatus
    \/ Crash

Spec == Init /\ [][Next]_vars

(***************************************************************************)
(* Calls run to their end and commandQueue serves everyone in turn, the    *)
(* platform runs a set alarm, and Airtable and D1 answer if they are asked *)
(* again and again.  Organizers owe nothing.                               *)
(***************************************************************************)
Proceed ==
    \/ OperationsDone \/ CalendarSettled
    \/ Refuse \/ Evaluate \/ Load \/ KeepBaseline \/ BaselineFails \/ Record

Fairness ==
    /\ WF_vars(Proceed)
    /\ SF_vars(AlarmRuns)
    /\ SF_vars(\E r \in Records : OperationCommits(r) \/ OperationFails(r))
    /\ WF_vars(\E r \in Records : Repair(r))
    /\ SF_vars(CommitPublication \/ CommitDraftChange)
    /\ SF_vars(CalendarEnqueues) /\ SF_vars(CalendarMarks) /\ SF_vars(Drained)

FairSpec == Spec /\ Fairness

-----------------------------------------------------------------------------
(***************************************************************************)
(* Properties.                                                             *)
(***************************************************************************)
\* However calls fail and are resumed, at most one command is unfinished:
\* being applied, or complete with its calendar intent still owed.  One alarm
\* that resumes one receipt per run therefore suffices (service.ts:410).
OneUnfinished == Cardinality(Applying \cup Owed) <= 1

\* A publication never shows two sessions that clash, and shows exactly the
\* candidates of the agenda it publishes, each in its place; a hand edit of a
\* Public flag that overtakes the publication may only take sessions out.
PublicationsAreSound ==
    \A p \in pubs :
       p.by # NoCommand =>
          LET shown == p.public.sessions
          IN  /\ \A s, t \in DOMAIN shown : ~Clash(shown, s, t)
              /\ DOMAIN shown \subseteq Candidates(p.agenda)
              /\ edits = 0 => DOMAIN shown = Candidates(p.agenda)
              /\ \A s \in DOMAIN shown : shown[s] = p.agenda.session[s].cell

\* Whenever no command is half applied the public is shown the publication that
\* the event record names, though the publication is another row of another
\* table, written after the record by whichever call got that far.  Only an event
\* that is not published and of which no publication is kept shows nothing.
LatestIsCurrent ==
    Applying = {} =>
       PublicSchedule.version =
          IF pubs # {} \/ status = "published"
          THEN Snapshot(proj).pub ELSE 0

\* Whoever is told "committed" can rely on it: every record of the command is in
\* Airtable and in D1, its receipt is complete and its calendar intent queued.
CommittedIsWhole ==
    \A c \in Commands :
       "committed" \in told[c] =>
          /\ receipt[c].state = "complete"
          /\ \A r \in Operations(c) : Durable(c, r)
          /\ change[c] = "none" \/ (change[c] = "enqueued" /\ c \in intents)

\* Organizers read an agenda that moves by whole commands only, each applied at
\* most once and on the version it expects, whatever is half done underneath.
Whole == INSTANCE AtomicAgenda WITH
            agenda <- Read,
            applied <- {c \in Commands : receipt[c].state = "complete"}

ImplementsAtomicAgenda == Whole!AtomicSpec

\* A command that was answered as pending is finished without anybody's help,
\* unless the authority refused one of its operations for good, or it publishes
\* an event whose Status is not, and does not become, published.
PendingIsFinished ==
    \A c \in Commands :
       "pending" \in told[c] ~>
          \/ receipt[c].state = "complete" /\ change[c] # "owed"
          \/ \E r \in Records : ledger[c][r] = "failed"
          \/ /\ request[c] # NoCommand /\ request[c].type = "publish"
             /\ [](status # "published")

\* A session that was public and has since been moved, not taken out, is public
\* again once the schedule is republished (AgendaBuilder.tsx:889).
MovedSessionsArePublished ==
    \A p, q \in pubs :
       /\ p.public.version < q.public.version
       /\ ~\E c \in Commands : request[c] # NoCommand /\ request[c].type \in {"unassign", "cancel"}
       => DOMAIN p.public.sessions \subseteq DOMAIN q.public.sessions

=============================================================================
