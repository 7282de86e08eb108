---------------------------- MODULE BaseAuthority ----------------------------
(***************************************************************************)
(* The command ledger of the BaseAuthority Durable Object: the single      *)
(* writer of the Airtable base.  A command is received, attempted against  *)
(* Airtable, and projected to D1; Airtable, D1 and the object itself can   *)
(* fail between any two of these steps, and the object's alarm, the repair *)
(* queue and the clients' own retries all drive the same command again.    *)
(*                                                                         *)
(* The module keeps every await of the code apart as a step of its own     *)
(* (everything between two awaits is one step: the object is single        *)
(* threaded and its storage calls are input-gated).                        *)
(***************************************************************************)
EXTENDS Naturals, Sequences, FiniteSets

CONSTANTS
    Command,            \* the command keys (organization, operation, command ID)
    Entity,             \* the Airtable records the commands write
    EntityOf,           \* the record of each command
    ExpectedVersion,    \* the expectedVersion each command carries
    Hash,               \* request hashes: payloads sent under one command key
    Wake,               \* concurrent recoverPending() calls not made by the alarm
    Side,               \* concurrent waitUntil(...) projections
    Landing,            \* when a write nobody answered may still take effect
    MaxCrashes,         \* bound: evictions of the object
    NoCommand,          \* an Airtable record no command has written
    NoHash

ASSUME CommandAssumption == IsFiniteSet(Command)
ASSUME EntityOfAssumption == EntityOf \in [Command -> Entity]
ASSUME VersionAssumption == ExpectedVersion \in [Command -> Nat]
ASSUME NamesAssumption ==
    /\ NoCommand \notin Command
    /\ NoHash \notin Hash
    /\ "base" \notin Side
    /\ "alarm" \notin Wake
    /\ "client" \notin Wake
    /\ "none" \notin Wake
ASSUME BoundAssumption == MaxCrashes \in Nat
\* "prompt": an unanswered write has taken effect, or never will, when its error
\* is seen; "leased": it may until the lease of its attempt ends; "late": always.
ASSUME LandingAssumption == Landing \in {"prompt", "leased", "late"}

VARIABLES
    rec,        \* Airtable: version (0 = no record) and last command of each record
    wire,       \* Airtable: unanswered writes of each command that may yet land
    landed,     \* history: how often a write of each command took effect
    stray,      \* history: records an unanswered write has changed out of turn
    row,        \* object storage: authority_commands
    alarm,      \* object storage: an alarm is set
    queue,      \* object memory: jobs serialised behind baseQueue
    task,       \* object memory: the running job ("base") and waitUntil tasks
    worker,     \* object memory: recoverPending() calls in progress
    waiting,    \* object memory: request hashes of callers awaiting a command
    idem,       \* D1: idempotency_keys.status of each command
    proj,       \* D1: projected source version of each record
    repair,     \* D1: projection_repairs.status of each command
    told,       \* history: the answers given, with the payload they answered
    crashes

airtableVars == <<rec, wire, landed, stray>>
storageVars == <<row, alarm>>
memoryVars == <<queue, task, worker, waiting>>
d1Vars == <<idem, proj, repair>>
vars == <<airtableVars, storageVars, memoryVars, d1Vars, told, crashes>>

RowState == {"none", "received", "leased", "outcome_unknown",
             "airtable_committed", "projection_pending", "complete", "failed"}
Response == {"none", "committed", "repair"}
Timer == {"due", "lease", "backoff"}
Answer == {"committed", "repair", "failed"}

\* A row of authority_commands.  timer abstracts lease_until_ms and
\* next_recovery_at_ms: in the future ("lease", "backoff") or not ("due").
Row == [state : RowState, hash : Hash \cup {NoHash}, attempts : Nat,
        timer : Timer, result : BOOLEAN, failure : BOOLEAN,
        failureProjected : BOOLEAN, response : Response]

BlankRow == [state |-> "none", hash |-> NoHash, attempts |-> 0,
             timer |-> "due", result |-> FALSE, failure |-> FALSE,
             failureProjected |-> FALSE, response |-> "none"]

Worker == {"alarm"} \cup Wake
Slot == {"base"} \cup Side
Phase == {"idle", "respond", "attempting", "reading", "writing",
          "recovering", "projecting", "finishing", "reporting", "failing"}
Kind == {"execute", "recover", "failure", "side"}

Job == [kind : Kind, cmd : Command, copy : Row, by : {"client"} \cup Worker,
        hash : Hash \cup {NoHash}]
Idle == [phase |-> "idle", kind |-> "side", cmd |-> NoCommand,
         copy |-> BlankRow, by |-> "client"]
Task == {Idle} \cup [phase : Phase \ {"idle"}, kind : Kind, cmd : Command,
                     copy : Row, by : {"client"} \cup Worker]

Init ==
    /\ rec = [e \in Entity |-> [version |-> 0, last |-> NoCommand]]
    /\ wire = [c \in Command |-> 0]
    /\ landed = [c \in Command |-> 0]
    /\ stray = {}
    /\ row = [c \in Command |-> BlankRow]
    /\ alarm = FALSE
    /\ queue = <<>>
    /\ task = [s \in Slot |-> Idle]
    /\ worker = [w \in Worker |-> [run |-> FALSE, busy |-> FALSE, rows |-> <<>>]]
    /\ waiting = [c \in Command |-> {}]
    /\ idem = [c \in Command |-> "none"]
    /\ proj = [e \in Entity |-> [version |-> 0, by |-> NoCommand]]
    /\ repair = [c \in Command |-> "none"]
    /\ told = [c \in Command |-> {}]
    /\ crashes = 0

-----------------------------------------------------------------------------
(* The ledger row and its updates *)

WrittenVersion(c) == ExpectedVersion[c] + 1

Inserted(r, h) == IF r.state = "none"
                  THEN [r EXCEPT !.state = "received", !.hash = h] ELSE r
Leased(r) == [r EXCEPT !.state = "leased", !.attempts = @ + 1, !.timer = "lease"]
OutcomeUnknown(r) == [r EXCEPT !.state = "outcome_unknown"]
Deferred(r) == [r EXCEPT !.state = "outcome_unknown", !.timer = "backoff"]
AuthorityResult(r) == [r EXCEPT !.state = "airtable_committed", !.timer = "due",
                                !.result = TRUE]
Failure(r) == [r EXCEPT !.state = "failed", !.timer = "due", !.failure = TRUE]
\* Mutant: the last response wins.
PersistedAnew(r, state, response) ==
    [r EXCEPT !.state = state, !.response = response]
\* COALESCE(original_response_json, ?): the first response stays.
Persisted(r, state, response) ==
    [r EXCEPT !.state = state,
              !.response = IF @ = "none" THEN response ELSE @]

\* Mutant: failures are not kept for their audit.
PendingButFailures(r) == r.state \in {"leased", "outcome_unknown",
                                      "airtable_committed", "projection_pending"}
\* What schedulePendingRecovery counts, and what recoverPending selects.
Pending(r) == \/ r.state \in {"leased", "outcome_unknown",
                              "airtable_committed", "projection_pending"}
              \/ r.state = "failed" /\ ~r.failureProjected
\* Mutant: recoverPending overlooks rows that only lack their projection.
DueBeforeProjection(r) ==
    /\ Pending(r) /\ r.state # "projection_pending"
    /\ r.state \in {"leased", "outcome_unknown"} => r.timer = "due"
\* Mutant: recoverPending overlooks rows whose outcome is unknown.
DueButUnknown(r) ==
    /\ Pending(r) /\ r.state # "outcome_unknown"
    /\ r.state = "leased" => r.timer = "due"
Due(r) == Pending(r) /\ (r.state \in {"leased", "outcome_unknown"} => r.timer = "due")

base == task["base"]

\* attemptProvider awaits only storage before it leases the row: the input gate
\* delivers no other event to the object in between.
GateOpen == base.phase # "attempting"

InFlight(c) ==
    \/ base.cmd = c /\ base.kind # "failure"
    \/ \E i \in 1..Len(queue) : queue[i].cmd = c /\ queue[i].kind # "failure"

-----------------------------------------------------------------------------
(* execute(): its early returns, in their order *)

Tell(c, hashes, answer) ==
    told' = [told EXCEPT ![c] = @ \cup {<<h, answer>> : h \in hashes}]

\* waitUntil(...): the task starts in a free slot (bound: Cardinality(Side)).
Spawn(phase, c, copy) ==
    \E s \in Side :
        /\ task[s] = Idle
        /\ task' = [task EXCEPT ![s] = [phase |-> phase, kind |-> "side",
                        cmd |-> c, copy |-> copy, by |-> "client"]]

Accepts(c, h) == GateOpen /\ (row[c].state # "none" => row[c].hash = h)

ExecuteReplaysFailure(c, h) ==
    /\ Accepts(c, h)
    /\ row[c].state = "failed"
    /\ Tell(c, {h}, "failed")
    /\ IF row[c].failureProjected THEN UNCHANGED task
       ELSE Spawn("failing", c, row[c])
    /\ UNCHANGED <<airtableVars, storageVars, queue, worker, waiting, d1Vars, crashes>>

\* Mutant: the early return looks at the result, stored before the response.
ExecuteReplaysResult(c, h) ==
    /\ Accepts(c, h)
    /\ row[c].state # "failed"
    /\ row[c].result
    /\ Tell(c, {h}, row[c].response)
    /\ UNCHANGED <<airtableVars, storageVars, memoryVars, d1Vars, crashes>>

ExecuteReplaysResponse(c, h) ==
    /\ Accepts(c, h)
    /\ row[c].state # "failed"
    /\ row[c].response # "none"
    /\ Tell(c, {h}, row[c].response)
    /\ UNCHANGED <<airtableVars, storageVars, memoryVars, d1Vars, crashes>>

Unanswered(c, h) ==
    /\ Accepts(c, h)
    /\ row[c].state # "failed"
    /\ row[c].response = "none"

ExecuteJoins(c, h) ==
    /\ Unanswered(c, h)
    /\ InFlight(c)
    /\ waiting' = [waiting EXCEPT ![c] = @ \cup {h}]
    /\ UNCHANGED <<airtableVars, storageVars, queue, task, worker, d1Vars, told, crashes>>

ExecuteEnqueues(c, h) ==
    /\ Unanswered(c, h)
    /\ ~InFlight(c)
    /\ queue' = Append(queue, [kind |-> "execute", cmd |-> c, copy |-> BlankRow,
                               by |-> "client", hash |-> h])
    /\ waiting' = [waiting EXCEPT ![c] = @ \cup {h}]
    /\ UNCHANGED <<airtableVars, storageVars, task, worker, d1Vars, told, crashes>>

-----------------------------------------------------------------------------
(* The serialised job: executeDurably / recoverRow *)

\* recoverRow's cases, in order, on the row it is handed.  Its last early return,
\* for a failed row, is met by no job of this module: execute() answers such a
\* row itself and recoverPending() hands it to finishFailureProjection.
FirstPhase(r) ==
    IF r.response # "none" THEN "respond"
    ELSE IF r.result THEN "projecting"
    ELSE IF r.state \in {"leased", "outcome_unknown"} THEN "recovering"
    ELSE "attempting"

\* executeDurably inserts the row and re-reads it; recoverPending hands over
\* the row it selected, however old.
StartJob ==
    /\ base.phase = "idle"
    /\ queue # <<>>
    /\ LET j == Head(queue)
           c == j.cmd
           subject == IF j.kind = "execute" THEN Inserted(row[c], j.hash) ELSE j.copy
       IN  /\ row' = IF j.kind = "execute" THEN [row EXCEPT ![c] = subject] ELSE row
           /\ task' = [task EXCEPT !["base"] =
                 [phase |-> IF j.kind = "failure" THEN "failing" ELSE FirstPhase(subject),
                  kind |-> j.kind, cmd |-> c, copy |-> subject, by |-> j.by]]
    /\ queue' = Tail(queue)
    /\ UNCHANGED <<airtableVars, alarm, worker, waiting, d1Vars, told, crashes>>

\* The base task moves on to another phase, working from row r.
Continue(phase, r) ==
    task' = [task EXCEPT !["base"].phase = phase, !["base"].copy = r]

\* Mutant: a job that ends in an error forgets its callers.
SettleAnswersOnly(answer) ==
    /\ IF base.kind # "failure" /\ answer \in Answer
       THEN /\ waiting' = [waiting EXCEPT ![base.cmd] = {}]
            /\ Tell(base.cmd, waiting[base.cmd], answer)
       ELSE UNCHANGED <<waiting, told>>
    /\ worker' = IF base.by \in Worker
                 THEN [worker EXCEPT ![base.by].busy = FALSE] ELSE worker

\* The job's promise settles: its callers are answered (an error they may retry
\* is not recorded), the recoverPending() that queued it goes on.
Settle(answer) ==
    /\ waiting' = IF base.kind = "failure" THEN waiting
                  ELSE [waiting EXCEPT ![base.cmd] = {}]
    /\ IF base.kind # "failure" /\ answer \in Answer
       THEN Tell(base.cmd, waiting[base.cmd], answer) ELSE told' = told
    /\ worker' = IF base.by \in Worker
                 THEN [worker EXCEPT ![base.by].busy = FALSE] ELSE worker

\* recoverPending's catch: schedulePendingRecovery.
RearmIfPending ==
    alarm' = (alarm \/ \E c \in Command : Pending(row'[c]))
RearmAfterError ==
    IF base.by \in Worker THEN RearmIfPending ELSE alarm' = alarm

\* The row already has a response: its projection, if unfinished, goes on
\* outside the queue and the job answers at once.
Respond ==
    /\ base.phase = "respond"
    /\ Settle(base.copy.response)
    /\ IF base.copy.state = "complete"
       THEN task' = [task EXCEPT !["base"] = Idle]
       ELSE \E s \in Side :
               /\ task[s] = Idle
               /\ task' = [task EXCEPT !["base"] = Idle,
                     ![s] = [phase |-> "projecting", kind |-> "side",
                             cmd |-> base.cmd, copy |-> base.copy, by |-> "client"]]
    /\ UNCHANGED <<airtableVars, storageVars, queue, d1Vars, crashes>>

-----------------------------------------------------------------------------
(* attemptProvider: alarm, lease, then one read and one write of Airtable *)

BeginAttempt ==
    /\ base.phase = "attempting"
    /\ alarm' = TRUE
    /\ row' = [row EXCEPT ![base.cmd] = Leased(@)]
    /\ Continue("reading", BlankRow)
    /\ UNCHANGED <<airtableVars, queue, worker, waiting, d1Vars, told, crashes>>

\* Mutant: the record is read from the projection, which is behind.
CurrentProjected(c) == [version |-> proj[EntityOf[c]].version, last |-> proj[EntityOf[c]].by]
Current(c) == rec[EntityOf[c]]
Written(c) == [rec EXCEPT ![EntityOf[c]] = [version |-> WrittenVersion(c), last |-> c]]

\* persistAuthorityResult, then finishProjection on the re-read row.
ResultPersisted ==
    /\ row' = [row EXCEPT ![base.cmd] = AuthorityResult(@)]
    /\ Continue("projecting", row'[base.cmd])
    /\ UNCHANGED <<alarm, queue, worker, waiting, d1Vars, told, crashes>>

\* persistFailure, then finishFailureProjection on the re-read row.
FailurePersisted ==
    /\ row' = [row EXCEPT ![base.cmd] = Failure(@)]
    /\ Continue("failing", row'[base.cmd])
    /\ UNCHANGED <<alarm, queue, worker, waiting, d1Vars, told, crashes>>

StoreReplays ==
    /\ base.phase = "reading"
    /\ Current(base.cmd).last = base.cmd
    /\ ResultPersisted
    /\ UNCHANGED airtableVars

\* A read that fails after its retries is an answer too: the command fails.
StoreReadFails ==
    /\ base.phase = "reading"
    /\ FailurePersisted
    /\ UNCHANGED airtableVars

StoreConflicts ==
    /\ base.phase = "reading"
    /\ Current(base.cmd).last # base.cmd
    /\ Current(base.cmd).version # ExpectedVersion[base.cmd]
    /\ FailurePersisted
    /\ UNCHANGED airtableVars

StoreSends ==
    /\ base.phase = "reading"
    /\ Current(base.cmd).last # base.cmd
    /\ Current(base.cmd).version = ExpectedVersion[base.cmd]
    /\ Continue("writing", BlankRow)
    /\ UNCHANGED <<airtableVars, storageVars, queue, worker, waiting, d1Vars, told, crashes>>

\* Airtable's update is unconditional: it does not look at the version again.
WriteAnswered ==
    /\ base.phase = "writing"
    /\ rec' = Written(base.cmd)
    /\ landed' = [landed EXCEPT ![base.cmd] = @ + 1]
    /\ UNCHANGED <<wire, stray>>
    /\ ResultPersisted

\* Mutant: a refused write is not told from an answered one.
WriteRefusedSucceeds ==
    /\ base.phase = "writing"
    /\ ResultPersisted
    /\ UNCHANGED airtableVars

WriteRefused ==
    /\ base.phase = "writing"
    /\ FailurePersisted
    /\ UNCHANGED airtableVars

\* What became of the write whose answer was lost.
LostWrite(c) ==
    \/ /\ rec' = Written(c)
       /\ landed' = [landed EXCEPT ![c] = @ + 1]
       /\ UNCHANGED <<wire, stray>>
    \/ UNCHANGED airtableVars
    \/ /\ Landing # "prompt"
       /\ wire' = [wire EXCEPT ![c] = @ + 1]
       /\ UNCHANGED <<rec, landed, stray>>

\* Mutant: a lost answer is taken for a success.
WriteUnansweredSucceeds ==
    /\ base.phase = "writing"
    /\ LostWrite(base.cmd)
    /\ ResultPersisted

\* AirtableAmbiguousWriteError: markOutcomeUnknown keeps the lease.
WriteUnanswered ==
    /\ base.phase = "writing"
    /\ LostWrite(base.cmd)
    /\ row' = [row EXCEPT ![base.cmd] = OutcomeUnknown(@)]
    /\ Continue("recovering", row'[base.cmd])
    /\ UNCHANGED <<alarm, queue, worker, waiting, d1Vars, told, crashes>>

-----------------------------------------------------------------------------
(* recoverProviderOutcome: read back, then decide on the row handed over *)

EndBase == task' = [task EXCEPT !["base"] = Idle]

RecoverReadFails ==
    /\ base.phase = "recovering"
    /\ Settle("error")
    /\ EndBase
    /\ UNCHANGED row
    /\ RearmAfterError
    /\ UNCHANGED <<airtableVars, queue, d1Vars, crashes>>

RecoverApplied ==
    /\ base.phase = "recovering"
    /\ Current(base.cmd).last = base.cmd
    /\ ResultPersisted
    /\ UNCHANGED airtableVars

\* A lease still running in the row handed over is the lease of the stored row:
\* recoverPending never selects a row whose lease is running.
LeaseRunning == base.copy.timer = "lease" /\ row[base.cmd].timer = "lease"

NotApplied(c) == Current(c).last # c /\ Current(c).version \in {0, ExpectedVersion[c]}

RecoverWaits ==
    /\ base.phase = "recovering"
    /\ Current(base.cmd).last # base.cmd
    /\ LeaseRunning
    /\ alarm' = TRUE
    /\ Settle("outcome_unknown")
    /\ EndBase
    /\ UNCHANGED <<airtableVars, row, queue, d1Vars, crashes>>

RecoverRetries ==
    /\ base.phase = "recovering"
    /\ NotApplied(base.cmd)
    /\ ~LeaseRunning
    /\ base.copy.attempts < 2
    /\ Continue("attempting", base.copy)
    /\ UNCHANGED <<airtableVars, storageVars, queue, worker, waiting, d1Vars, told, crashes>>

RecoverDefers ==
    /\ base.phase = "recovering"
    /\ Current(base.cmd).last # base.cmd
    /\ ~LeaseRunning
    /\ ~(NotApplied(base.cmd) /\ base.copy.attempts < 2)
    /\ row' = [row EXCEPT ![base.cmd] = Deferred(@)]
    /\ alarm' = TRUE
    /\ Settle("outcome_unknown")
    /\ EndBase
    /\ UNCHANGED <<airtableVars, queue, d1Vars, crashes>>

-----------------------------------------------------------------------------
(* finishProjection, in the queue (s = "base") or in a waitUntil task *)

\* existingResponse of the row handed over, else the one just computed.
Reply(s, computed) ==
    IF task[s].copy.response # "none" THEN task[s].copy.response ELSE computed

SettleTask(s, answer) ==
    /\ task' = [task EXCEPT ![s] = Idle]
    /\ IF s = "base" THEN Settle(answer) ELSE UNCHANGED <<waiting, told, worker>>

ToReporting(s) ==
    /\ row' = [row EXCEPT ![task[s].cmd] =
                  Persisted(@, "projection_pending", Reply(s, "repair"))]
    /\ task' = [task EXCEPT ![s].phase = "reporting"]

\* Mutant: the batch overwrites whatever version D1 holds.
ProjectionBatchUnguarded(c, reply) ==
    IF idem[c] # "none" THEN UNCHANGED <<idem, proj>>
    ELSE /\ idem' = [idem EXCEPT ![c] = IF reply = "repair"
                                        THEN "repaired" ELSE "committed"]
         /\ proj' = [proj EXCEPT ![EntityOf[c]] =
                        [version |-> WrittenVersion(c), by |-> c]]

\* projector.commit's batch: the projection is written with the idempotency
\* row, or not at all when that row exists; an older version never wins.
ProjectionBatch(c, reply) ==
    IF idem[c] # "none" THEN UNCHANGED <<idem, proj>>
    ELSE /\ idem' = [idem EXCEPT ![c] = IF reply = "repair"
                                        THEN "repaired" ELSE "committed"]
         /\ proj' = IF proj[EntityOf[c]].version <= WrittenVersion(c)
                    THEN [proj EXCEPT ![EntityOf[c]] =
                             [version |-> WrittenVersion(c), by |-> c]]
                    ELSE proj

ProjectCommits(s) ==
    /\ GateOpen /\ task[s].phase = "projecting"
    /\ ProjectionBatch(task[s].cmd, Reply(s, "committed"))
    /\ task' = [task EXCEPT ![s].phase = "finishing"]
    /\ UNCHANGED <<airtableVars, storageVars, queue, worker, waiting, repair, told, crashes>>

\* The batch is in, but draining the cache invalidations threw.
ProjectDrainFails(s) ==
    /\ GateOpen /\ task[s].phase = "projecting"
    /\ ProjectionBatch(task[s].cmd, Reply(s, "committed"))
    /\ ToReporting(s)
    /\ UNCHANGED <<airtableVars, alarm, queue, worker, waiting, repair, told, crashes>>

\* D1 failed in the batch ("projecting") or in markRepairComplete ("finishing").
ProjectFails(s) ==
    /\ GateOpen /\ task[s].phase \in {"projecting", "finishing"}
    /\ ToReporting(s)
    /\ UNCHANGED <<airtableVars, alarm, queue, worker, waiting, d1Vars, told, crashes>>

\* markRepairComplete, schedulePendingRecovery, persistResponse("complete").
FinishProjection(s) ==
    /\ GateOpen /\ task[s].phase = "finishing"
    /\ repair' = [repair EXCEPT ![task[s].cmd] = IF @ = "none" THEN @ ELSE "complete"]
    /\ alarm' = (alarm \/ \E c \in Command : Pending(row[c]))
    /\ row' = [row EXCEPT ![task[s].cmd] =
                  Persisted(@, "complete", Reply(s, "committed"))]
    /\ SettleTask(s, Reply(s, "committed"))
    /\ UNCHANGED <<airtableVars, queue, idem, proj, crashes>>

\* recordRepairPending (its own failure is swallowed), then scheduleRecovery.
ReportRepair(s) ==
    /\ GateOpen /\ task[s].phase = "reporting"
    /\ \/ UNCHANGED repair
       \/ repair' = [repair EXCEPT ![task[s].cmd] =
                        IF @ = "complete" THEN @ ELSE "pending"]
    /\ alarm' = TRUE
    /\ SettleTask(s, Reply(s, "repair"))
    /\ UNCHANGED <<airtableVars, row, queue, idem, proj, crashes>>

-----------------------------------------------------------------------------
(* finishFailureProjection *)

FailureProjects(s) ==
    /\ GateOpen /\ task[s].phase = "failing"
    /\ idem' = [idem EXCEPT ![task[s].cmd] = IF @ = "none" THEN "failed" ELSE @]
    /\ row' = [row EXCEPT ![task[s].cmd].failureProjected = TRUE]
    /\ SettleTask(s, "failed")
    /\ UNCHANGED <<airtableVars, alarm, queue, proj, repair, crashes>>

FailureProjectionFails(s) ==
    /\ GateOpen /\ task[s].phase = "failing"
    /\ SettleTask(s, "failed")
    /\ UNCHANGED row
    /\ IF s # "base" THEN UNCHANGED alarm
       ELSE IF base.kind = "failure" THEN RearmIfPending
       ELSE alarm' = TRUE
    /\ UNCHANGED <<airtableVars, queue, d1Vars, crashes>>

-----------------------------------------------------------------------------
(* recoverPending() and alarm() *)

\* The loop body from one await to the next: rows in flight are skipped, the
\* first other one is queued with the copy selected at the start.
Advance(w, rows) ==
    LET ready == {i \in 1..Len(rows) : ~InFlight(rows[i].cmd)}
    IN  IF ready = {}
        THEN /\ worker' = [worker EXCEPT ![w] = [run |-> TRUE, busy |-> FALSE, rows |-> <<>>]]
             /\ UNCHANGED queue
        ELSE \E i \in ready :
                /\ \A k \in ready : i <= k
                /\ queue' = Append(queue,
                      [kind |-> IF rows[i].copy.state = "failed"
                                THEN "failure" ELSE "recover",
                       cmd |-> rows[i].cmd, copy |-> rows[i].copy,
                       by |-> w, hash |-> NoHash])
                /\ worker' = [worker EXCEPT ![w] =
                      [run |-> TRUE, busy |-> TRUE,
                       rows |-> SubSeq(rows, i + 1, Len(rows))]]

\* The selected rows, in updated_at order: any order here.
Selections ==
    LET due == {c \in Command : Due(row[c])}
    IN  {f \in [1..Cardinality(due) -> [cmd : due, copy : {row[c] : c \in due}]] :
            /\ \A i \in DOMAIN f : f[i].copy = row[f[i].cmd]
            /\ \A i, k \in DOMAIN f : i # k => f[i].cmd # f[k].cmd}

\* The queue consumer of repair messages, the schedule service and execute()
\* itself call recoverPending(): at any time here.
RecoverPending(w) ==
    /\ GateOpen
    /\ w \in Wake
    /\ ~worker[w].run
    /\ \E c \in Command : Due(row[c])
    /\ \E rows \in Selections : Advance(w, rows)
    /\ UNCHANGED <<airtableVars, storageVars, task, waiting, d1Vars, told, crashes>>

AlarmFires ==
    /\ GateOpen
    /\ alarm
    /\ ~worker["alarm"].run
    /\ alarm' = FALSE
    /\ \E rows \in Selections : Advance("alarm", rows)
    /\ UNCHANGED <<airtableVars, row, task, waiting, d1Vars, told, crashes>>

RecoverNext(w) ==
    /\ GateOpen /\ worker[w].run
    /\ ~worker[w].busy
    /\ worker[w].rows # <<>>
    /\ Advance(w, worker[w].rows)
    /\ UNCHANGED <<airtableVars, storageVars, task, waiting, d1Vars, told, crashes>>

\* Mutant: alarm() does not look for work that is left.
RecoverEndsUnarmed(w) ==
    /\ GateOpen /\ worker[w].run
    /\ ~worker[w].busy
    /\ worker[w].rows = <<>>
    /\ worker' = [worker EXCEPT ![w].run = FALSE]
    /\ UNCHANGED <<airtableVars, storageVars, queue, task, waiting, d1Vars, told, crashes>>

\* alarm() ends with schedulePendingRecovery.
RecoverEnds(w) ==
    /\ GateOpen /\ worker[w].run
    /\ ~worker[w].busy
    /\ worker[w].rows = <<>>
    /\ worker' = [worker EXCEPT ![w].run = FALSE]
    /\ UNCHANGED row
    /\ IF w = "alarm" THEN RearmIfPending ELSE UNCHANGED alarm
    /\ UNCHANGED <<airtableVars, queue, task, waiting, d1Vars, told, crashes>>

-----------------------------------------------------------------------------
(* Time, the network and evictions *)

\* A lease or a backoff ends.  Unless writes may land late, a lease outlives
\* every write sent under it.
TimerElapses(c) ==
    /\ row[c].timer # "due"
    /\ row[c].timer = "lease" /\ Landing # "late" =>
           /\ wire[c] = 0
           /\ ~(base.phase \in {"reading", "writing"} /\ base.cmd = c)
    /\ row' = [row EXCEPT ![c].timer = "due"]
    /\ UNCHANGED <<airtableVars, alarm, memoryVars, d1Vars, told, crashes>>

\* An unanswered write lands in turn when it finds the version it expects and no
\* job is between its version check and its write of the record.
InTurn(c) ==
    /\ rec[EntityOf[c]].version = ExpectedVersion[c]
    /\ ~(base.phase = "writing" /\ EntityOf[base.cmd] = EntityOf[c])

WriteLands(c) ==
    /\ wire[c] > 0
    /\ wire' = [wire EXCEPT ![c] = @ - 1]
    /\ rec' = Written(c)
    /\ landed' = [landed EXCEPT ![c] = @ + 1]
    /\ stray' = IF InTurn(c) THEN stray ELSE stray \cup {EntityOf[c]}
    /\ UNCHANGED <<storageVars, memoryVars, d1Vars, told, crashes>>

WriteIsLost(c) ==
    /\ wire[c] > 0
    /\ wire' = [wire EXCEPT ![c] = @ - 1]
    /\ UNCHANGED <<rec, landed, stray, storageVars, memoryVars, d1Vars, told, crashes>>

\* Eviction: memory is lost, the callers get an error, the constructor rearms
\* the alarm and an interrupted alarm handler is run again.
Crash ==
    /\ crashes < MaxCrashes
    /\ crashes' = crashes + 1
    /\ IF base.phase = "writing" THEN LostWrite(base.cmd) ELSE UNCHANGED airtableVars
    /\ alarm' = (alarm \/ worker["alarm"].run \/ \E c \in Command : Pending(row[c]))
    /\ queue' = <<>>
    /\ task' = [s \in Slot |-> Idle]
    /\ worker' = [w \in Worker |-> [run |-> FALSE, busy |-> FALSE, rows |-> <<>>]]
    /\ waiting' = [c \in Command |-> {}]
    /\ UNCHANGED <<row, d1Vars, told>>

-----------------------------------------------------------------------------

Execute ==
    \E c \in Command, h \in Hash :
        \/ ExecuteReplaysFailure(c, h)
        \/ ExecuteReplaysResponse(c, h)
        \/ ExecuteJoins(c, h)
        \/ ExecuteEnqueues(c, h)

Provider ==
    \/ StoreReplays
    \/ StoreReadFails
    \/ StoreConflicts
    \/ StoreSends
    \/ WriteAnswered
    \/ WriteRefused
    \/ WriteUnanswered

Recover ==
    \/ RecoverReadFails
    \/ RecoverApplied
    \/ RecoverWaits
    \/ RecoverRetries
    \/ RecoverDefers

Projection(s) ==
    \/ ProjectCommits(s)
    \/ ProjectDrainFails(s)
    \/ ProjectFails(s)
    \/ FinishProjection(s)
    \/ ReportRepair(s)
    \/ FailureProjects(s)
    \/ FailureProjectionFails(s)

Pass(w) == RecoverPending(w) \/ RecoverNext(w) \/ RecoverEnds(w)

Environment ==
    \/ \E c \in Command : TimerElapses(c) \/ WriteLands(c) \/ WriteIsLost(c)
    \/ Crash

Next ==
    \/ BeginAttempt
    \/ StartJob
    \/ Respond
    \/ Provider
    \/ Recover
    \/ Execute
    \/ \E s \in Slot : Projection(s)
    \/ AlarmFires
    \/ \E w \in Worker : Pass(w)
    \/ Environment

Spec == Init /\ [][Next]_vars

\* The object runs its jobs; Airtable and D1 answer or fail every request and do
\* not fail every request for ever.  Clients, evictions and the network owe nothing.
Fairness ==
    /\ WF_vars(StartJob) /\ WF_vars(Respond)
    /\ WF_vars(BeginAttempt) /\ WF_vars(Provider) /\ WF_vars(Recover)
    /\ SF_vars(RecoverApplied) /\ SF_vars(RecoverRetries) /\ SF_vars(RecoverDefers)
    /\ WF_vars(AlarmFires)
    /\ \A w \in Worker : /\ WF_vars(RecoverNext(w))
                         /\ WF_vars(RecoverEnds(w))
    /\ \A s \in Slot : /\ WF_vars(Projection(s))
                       /\ SF_vars(ProjectCommits(s))
                       /\ SF_vars(FinishProjection(s))
                       /\ SF_vars(FailureProjects(s))
    /\ \A c \in Command : WF_vars(TimerElapses(c))

FairSpec == Spec /\ Fairness

-----------------------------------------------------------------------------
(* Properties *)

TypeOK ==
    /\ rec \in [Entity -> [version : Nat, last : Command \cup {NoCommand}]]
    /\ wire \in [Command -> Nat]
    /\ landed \in [Command -> Nat]
    /\ stray \subseteq Entity
    /\ row \in [Command -> Row]
    /\ alarm \in BOOLEAN
    /\ queue \in Seq(Job)
    /\ task \in [Slot -> Task]
    /\ worker \in [Worker -> [run : BOOLEAN, busy : BOOLEAN,
                              rows : Seq([cmd : Command, copy : Row])]]
    /\ waiting \in [Command -> SUBSET Hash]
    /\ idem \in [Command -> {"none", "committed", "repaired", "failed"}]
    /\ proj \in [Entity -> [version : Nat, by : Command \cup {NoCommand}]]
    /\ repair \in [Command -> {"none", "pending", "complete"}]
    /\ told \in [Command -> SUBSET (Hash \X Answer)]
    /\ crashes \in Nat

Told(c, answer) == \E h \in Hash : <<h, answer>> \in told[c]
Acknowledged(c) == Told(c, "committed") \/ Told(c, "repair")

\* No caller, no ledger row and no D1 idempotency row ever calls a command
\* committed unless a write of it has taken effect in Airtable: across evictions,
\* lost answers, readbacks and rows handed over stale (execute, recoverRow,
\* finishProjection, projector.commit).
CommittedIsApplied ==
    \A c \in Command :
        Acknowledged(c) \/ row[c].result \/ idem[c] \in {"committed", "repaired"}
        => landed[c] > 0

\* However often its clients, the alarm, the repair queue and the readback retry a
\* command, and whenever its unanswered writes land, it takes effect at most once,
\* unless one of those writes has changed the record out of turn.
AtMostOnceUnlessStray ==
    \A c \in Command : EntityOf[c] \notin stray => landed[c] <= 1

\* The object, Airtable and D1 together are a compare-and-swap store: every step is
\* one of the store, or an unconditional write to a record that an unanswered write
\* changes, or has changed, out of turn.  Not even such a write harms another record
\* or lets a command be acknowledged that was not applied.
Store == INSTANCE VersionedStore WITH
    version <- [e \in Entity |-> rec[e].version],
    applied <- {c \in Command : landed[c] > 0},
    acknowledged <- {c \in Command : Acknowledged(c)}
ImplementsStoreUnlessStray ==
    /\ Store!StoreInit
    /\ [][Store!StoreNext \/ \E c \in Command :
              EntityOf[c] \in stray' /\ Store!Overwrite(c)]_(Store!storeVars)

\* A command acknowledged as durable is never acknowledged as awaiting repair,
\* nor the reverse: the first stored response is the one every caller gets.
SuccessRepliesAgree ==
    \A c \in Command : ~(Told(c, "committed") /\ Told(c, "repair"))

\* A row that says complete is in D1, at its version or a later one; rows that
\* also carry a failure are the subject of FailureIsFinal below.
CompleteIsProjected ==
    \A c \in Command :
        row[c].state = "complete" /\ ~row[c].failure
        => proj[EntityOf[c]].version >= WrittenVersion(c)

\* What looks after a pending row: the alarm, its handler (which rearms it), a
\* task about to finish the row or to rearm the alarm, or a job of recoverPending
\* that will rearm it if it fails.
Projecting == {"projecting", "finishing", "reporting"}
Arranged(c) ==
    \/ alarm \/ worker["alarm"].run
    \/ \E s \in Slot : task[s].cmd = c /\ task[s].phase \in Projecting
    \/ base.cmd = c /\ base.phase = "failing" /\ row[c].state = "failed"
    \/ base.cmd = c /\ base.phase \in {"attempting", "recovering"} /\ base.by # "client"

\* Unfinished work is never forgotten: while a row is pending, something that
\* does not depend on its client looks after it (scheduleRecovery,
\* schedulePendingRecovery, the constructor and alarm()).
RecoveryIsScheduled == \A c \in Command : Pending(row[c]) => Arranged(c)

\* Every caller that waits is answered or gets an error.
EveryCallIsAnswered == \A c \in Command : waiting[c] # {} ~> waiting[c] = {}

\* A result recorded in the object reaches D1 once D1 answers again.
ResultIsProjected == \A c \in Command : row[c].result ~> row[c].state = "complete"

\* A recorded failure reaches the D1 idempotency ledger.
FailureIsAudited == \A c \in Command : row[c].state = "failed" ~> idem[c] # "none"

\* A write that took effect, however late, is eventually known to have done so,
\* or meets a command that is recorded as failed; it is not deferred for ever.
AcceptedWriteIsReconciled ==
    \A c \in Command : landed[c] > 0 ~> row[c].result \/ row[c].state = "failed"

-----------------------------------------------------------------------------
(* Why CommittedIsApplied holds: the evidence is carried from hand to hand *)

Claims(r) == r.result \/ r.response # "none"
Backed(r, c) == Claims(r) => landed[c] > 0
AppliedPhase == {"respond", "projecting", "finishing", "reporting"}

RowsBacked == \A c \in Command : Backed(row[c], c)
AnswersBacked ==
    \A c \in Command :
        Acknowledged(c) \/ idem[c] \in {"committed", "repaired"} => landed[c] > 0
RecordsBacked ==
    \A e \in Entity : rec[e].last # NoCommand => landed[rec[e].last] > 0
TasksBacked ==
    \A s \in Slot : task[s].phase # "idle" =>
        /\ Backed(task[s].copy, task[s].cmd)
        /\ task[s].phase \in AppliedPhase => landed[task[s].cmd] > 0
QueueBacked ==
    \A i \in 1..Len(queue) : Backed(queue[i].copy, queue[i].cmd)
SelectionsBacked ==
    \A w \in Worker : \A i \in 1..Len(worker[w].rows) :
        Backed(worker[w].rows[i].copy, worker[w].rows[i].cmd)

\* Every copy of a row, wherever it waits, and every phase of a job past the
\* provider is backed by a write that took effect; so is Airtable's own marker.
AppliedInv ==
    /\ RowsBacked
    /\ AnswersBacked
    /\ RecordsBacked
    /\ TasksBacked
    /\ QueueBacked
    /\ SelectionsBacked

-----------------------------------------------------------------------------
(* Why a record no stray write has reached behaves as a compare-and-swap:  *)
(* the queue lets one read-check-write through at a time                   *)

LandedIsPast ==
    \A c \in Command : EntityOf[c] \notin stray /\ landed[c] > 0
                       => Current(c).version > ExpectedVersion[c]
ReadIsFresh ==
    base.phase = "writing" /\ EntityOf[base.cmd] \notin stray
    => Current(base.cmd).version = ExpectedVersion[base.cmd]

\* No source version of such a record is written by two commands: the read, the
\* version check and the unconditional write of command-store.ts act as one.
VersionHasOneWriter ==
    \A c, d \in Command :
        c # d /\ landed[c] > 0 /\ landed[d] > 0 /\ EntityOf[c] = EntityOf[d]
        /\ EntityOf[c] \notin stray
        => ExpectedVersion[c] # ExpectedVersion[d]

\* Between the read of command-store.ts and its unconditional write nothing else
\* writes the record, unless an unanswered write lands out of turn.
StoreInv ==
    /\ LandedIsPast
    /\ ReadIsFresh
    /\ AtMostOnceUnlessStray
    /\ VersionHasOneWriter

-----------------------------------------------------------------------------
(* What the docs and tests say and TLC refutes on the instances named in the *)
(* README: none of these is a theorem                                        *)

\* A command answered as failed is never answered as committed.
FailureIsFinal ==
    \A c \in Command : Told(c, "failed") => ~Acknowledged(c)

\* A command's write takes effect at most once, wherever unanswered writes land.
AtMostOnce == \A c \in Command : landed[c] <= 1

\* One command key answers one payload: callers who reuse it are refused.
OnePayloadPerCommand ==
    \A c \in Command : \A answer \in told[c] : answer[1] = row[c].hash

\* A write that took effect is recognised by the readback: recovery does not
\* defer its command as one whose outcome is unknown (deferOutcomeRecovery).
AppliedIsNotDeferred ==
    \A c \in Command : landed[c] > 0 =>
        ~(row[c].state = "outcome_unknown" /\ row[c].timer = "backoff")

=============================================================================
