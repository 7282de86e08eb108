# OpenSession in TLA+

OpenSession is a conference-program system that runs as one Cloudflare Worker.
This directory holds TLA+ models of the parts of it whose correctness depends on
the order of events (failures, retries, overlapping invocations), the TLC runs
that check them on small instances, and TLAPS proofs of the theorems that hold
for every value of the constants. Paths below are relative to the repository.

## 1. The system

| Component (source) | State | Operations | What makes it hard |
|---|---|---|---|
| **BaseAuthority** ledger (`workers/app/src/authority/base-authority.ts`, `provider.ts`) | Durable Object: `authority_commands` rows, an alarm; memory: `baseQueue`, `inFlight`, `waitUntil` tasks | `execute`, `recoverPending`, `alarm`, `inspect`, snapshot plans, webhook ingest | every step can fail or be cut by an eviction; four drivers (client, client's retry, alarm, repair queue) work on the same row |
| **Airtable store** (`packages/data/src/airtable/command-store.ts`, `client.ts`) | one record per entity: version, last command marker | read, version check, unconditional write | no compare-and-swap; answers are lost; late writes |
| **D1 projection** (`authority/projector.ts`, `projection-spec.ts`) | `p_*` tables, idempotency keys, repair and cache-invalidation rows | `commit` (version-guarded batch), `recordRepair`, `publishRepairs` | partial failure, repairs out of order |
| **Reconciliation** (`authority/reconciliation.ts`, `provider.ts`, `snapshot.ts`) | webhook cursors, tenant readiness, scan marks, snapshots | `configureWebhook`, `synchronize`, scans, adoption, tombstones, capture | manual edits during a scan, lost answers to a patch, repairs beside a scan |
| **Campaign e-mail** (`email/delivery.ts`) | D1 `provider_messages`, `email_suppressions`; Cloudflare queue and its DLQ | `enqueue`, `drainPendingHandoffs`, `replay`, `#campaign`, prune | at-least-once queue, two leases, lost provider answers, deployments |
| **Provider events** (`email/webhook.ts`) | `email_provider_events`, receipts | `apply`, quarantine | duplicates, any order, concurrent calls |
| **Agenda coordinator** (`schedule/coordinator.ts`, `service.ts`, `publication-repository.ts`, `packages/domain/src/schedule.ts`) | one Durable Object per event: serial queue, alarm; D1 receipts, publications, public changes | `execute`, `resumePending`, publish, calendar repair | one command is several authority commands; resumption after partial failure |
| **Conflicts** (`packages/domain/src/conflicts.ts`) | none (pure) | hard and soft conflict analysis | boundary times, travel buffers |
| **CFP** (`cfp/*`) | form versions, submission reservations, plan ledger | form plans, submit, edit, withdraw | multi-record plans, limits per speaker |
| **Authentication** (`auth/service.ts`, the magic-link half of `email/delivery.ts`) | magic-link tokens, portal grants, sessions, audit | request, deliver, exchange, rotate, revoke | single use under concurrency, one link superseding another while either is on its way |
| **Uploads** (`uploads/service.ts`) | D1 rows, R2 objects | createIntent, store, finalize, download, cleanup | two stores that do not change together, leases, late puts, abandoned uploads |
| **Tasks and reminders** (`tasks/service.ts`, `lifecycle/*`) | tasks, assignments, outbox rows, a Workflow per reminder | assign, complete, remind | leases, repeated triggers |
| **Reviews, decisions, acceptance** | review rows, decision batches, accepted sessions | score, decide, convert | several records change as one |
| **Public API** (`public-api/*`) | keys, rate windows | rotate, revoke, one guarded mutation | key overlap windows, limits |
| **Public schedule, calendar outbox** | cache generation, outbox rows | publish, invalidate, dispatch | stale caches, repeated delivery |
| **Demo, privacy, campaigns, readiness, abuse limits** | D1 rows | operator and read operations | resets in mid-flight |
| Web app, contracts, UI, scripts | - | - | not modelled: presentation, schemas, provisioning |

How they interact: HTTP handlers and the agenda coordinator call
`BaseAuthority.execute`; the object writes Airtable, then projects to D1 and
enqueues cache invalidations and repairs; the `projection-repair` consumer, the
agenda coordinator and `execute` itself call `recoverPending`. Campaigns and
lifecycle triggers call `CampaignEmailCoordinator.enqueue`; the hourly cron calls
`drainPendingHandoffs` and the daily one the prune; the `email-send` consumer
calls `EmailQueueDeliveryService.process`; Resend calls the webhook.

What each must get right:

* *BaseAuthority*: a command takes effect at most once and on the version it
  expects; nobody is told "committed" otherwise; answers of one command agree;
  pending work is never forgotten; D1 follows Airtable and never goes back.
* *E-mail*: one text per key, whoever calls and retries; attempts are fenced;
  "sent" is true; nothing is stranded; suppressions only get stronger.
* *Schedule*: an agenda moves by whole commands, each once and on the version it
  expects; what is published is free of conflicts; a pending command is finished.
* *Reconciliation*: a committed cursor means that D1 is what Airtable is.
* *Authentication*: a link becomes one session, is superseded only by one that is on
  its way, and is given back if its session cannot be created.
* *Uploads*: no ready row without its object, no object left of a file that is not
  ready, no upload open for ever.
* *CFP, decisions, acceptance*: a plan over several records is applied whole.

PROJECT.json lists the hazards at their lines, with the properties that catch them.

## 2. Modules

| Module | Contents |
|---|---|
| `BaseAuthority` | the ledger, its queue, tasks and workers, over Airtable, D1 and the alarm |
| `VersionedStore` | abstract specification: a store of versioned records with atomic, once-only commands |
| `EmailDelivery` | one e-mail: D1 row, queue, coordinator calls, consumers, Resend, webhook calls |
| `Conflicts` | the conflict analysis of an agenda, and the reference definition of a clash |
| `Agenda` | `applyScheduleCommand`: what each organizer command does to a snapshot (extends `Conflicts`) |
| `AtomicAgenda` | abstract specification: an agenda that moves by whole commands, each once |
| `ScheduleCommands` | the coordinator, its receipts, operations, publications, calendar facts and alarm (extends `Agenda`, uses the authority by its contract) |
| `MagicLinks` | the request, delivery and exchange of the magic links of one recipient |
| `Uploads` | one file: its two D1 rows, its R2 object, stores, readers and the cleanup |
| `Reconciliation` | one record edited by hand, the scans, the cursor, and commands and repairs beside them |
| `MCBaseAuthority`, `MCEmailDelivery`, `MCScheduleCommands`, `MCMagicLinks` | the instances for TLC (the constants of `Uploads` and `Reconciliation` are plain sets and numbers, given in their .cfg) |
| `BaseAuthorityProofs`, `BaseAuthorityStoreProofs`, `EmailDeliveryProofs`, `ConflictsProofs`, `ScheduleCommandsProofs`, `MagicLinksProofs`, `UploadsProofs`, `ReconciliationProofs` | theorems, section 4 |

Definitions preceded by a comment that starts with *Mutant* are deliberate bugs;
no specification uses them. PROJECT.json says which definition each replaces, and a
property is kept only if a run refutes it under such a bug.

### 2.1 BaseAuthority

The object is single threaded and its storage calls are input-gated, so everything
between two `await`s of an external call is one step. State:

* `rec`, `wire`, `landed`, `stray`: Airtable's records (version and latest-command marker),
  writes whose answer was lost and that may still land, and two histories: how often each
  command took effect, and which records an unanswered write has changed out of turn (it
  found another version than it expects, or landed between a job's version check and its write: `InTurn`);
* `row`, `alarm`: the object's storage. `timer` stands for `lease_until_ms` and
  `next_recovery_at_ms`: in the future or due;
* `queue`, `task`, `worker`, `waiting`: memory, lost by `Crash`. `task["base"]` is the
  job running behind `baseQueue`; the other slots are `waitUntil` projections;
  a `worker` is a `recoverPending` call with the *copies* of the rows it selected;
* `idem`, `proj`, `repair`: D1;
* `told`: history of the answers given.

`execute` is `ExecuteReplaysFailure`, `ExecuteReplaysResponse`, `ExecuteJoins`,
`ExecuteEnqueues` (its early returns and its queued path); `executeDurably` and `recoverRow` are
`StartJob` with `FirstPhase`; `attemptProvider` is `BeginAttempt` and the store steps
(`StoreReplays`, `StoreConflicts`, `StoreSends`, `WriteAnswered`, `WriteRefused`,
`WriteUnanswered`, `StoreReadFails`); `recoverProviderOutcome` is the `Recover...`
actions; `finishProjection` is `ProjectCommits`, `ProjectFails`,
`ProjectDrainFails`, `FinishProjection`, `ReportRepair`;
`finishFailureProjection` is `FailureProjects` and `FailureProjectionFails`;
`recoverPending` and `alarm` are `RecoverPending`, `AlarmFires`, `RecoverNext`,
`RecoverEnds`. A row handed over by a worker is the row as it was selected, as in
the code: two of the remarks in section 3 are about that.

Abstractions: field values are left out (a payload is its request hash); the order
in which `recoverPending` visits rows is any order, and its LIMIT of 25 is above
the instances; the drain of cache invalidations only succeeds or fails; the D1 batch is
atomic. `Landing` says when an unanswered write may still take effect:
`"prompt"` (by the time its error is seen it has landed or never will), `"leased"`
(until the 180 s lease of its attempt ends, which is what the lease is for) or
`"late"` (any time).

`recoverRow`'s last early return, for a failed row, is met by no job here: `execute`
answers such a row itself and `recoverPending` hands it to `finishFailureProjection`.

Not in this module: `executeSnapshotCommand` and the CFP form plans it carries,
`cfpForms.recoverPending`, `publishRepairs`; manual edits and ingestion are in `Reconciliation`.

### 2.2 EmailDelivery

One idempotency key. `row` is the `provider_messages` row; the lease and handoff
columns become booleans that `LeaseLapses` and `HandoffLapses` set, so a lease may run out under a
holder that is still running. `queue` counts waiting copies by delivery count and
text; `prod`, `cons`, `hook` are the invocations, each D1 statement or batch one
step; `accepted` is Resend's memory of the key; `config` the deployed delivery mode
("live" is "allowlist" with every recipient in it; "closed" an allowlist without this one).

`enqueue` is `EnqueueCalled`, `Insert`, `FindExisting`, `SuppressQueued` and `#handoff`
(`ClaimHandoff`, `HandoffPending`, `QueueSend`, `QueueSendFails`, `ConfirmSent`,
`ReleaseHandoff`); the drain and a replay start it with `DrainSelects` and
`ReplayCalled` (`SuppressFailed`, `ResetFailed`); `#campaign` is `Deliver` to
`FinishAttempt`; `apply` is `HookCalled` (its reads) and `HookApply` (its batch).
`ProducerEnds` and `ConsumerEnds` stop an invocation anywhere; `ConsumerEnds` also
stands for a consumer that throws and for batches retried while the feature is off.

Assumptions: a coordinator call starts at its read of the suppression (what a drain or
replay read before, the row keeps); clocks of two workers differ by less than the
queue's 30 s retry delay, so only a first delivery can look early; nothing is
left in the queue thirty days after it was due; nobody in the code writes a
'manual' suppression, an operator may; Resend's idempotency window (24 h) outlasts
the retries. Receipts and quarantine of events that precede the provider id are left out: such an event changes no row and is sent again.

### 2.3 Conflicts, Agenda, AtomicAgenda

`Conflicts` follows the walk of `conflicts.ts`: `RoomSessions` and `PersonSessions` are the groups, `Before`
their order, `Reaches` the loop that breaks off at the first session that starts
too late (after the end for rooms, after the end plus the transition buffer for
people). `RoomOverlaps`, `ParticipantOverlaps` and `TransitionWarnings` are what it reports;
`Clash` is what the hard conflicts are meant to be. Capacity and readiness warnings are left out.

`Agenda` is `applyScheduleCommand`: `Accepts` is when it does not throw (version, lifecycle state, validity
before and after, no hard conflict of the moved session; for a publication
`CanPublish`), `Result` what it returns, `Rewritten` and `Restated` the
records `#buildOperations` writes for it, `ChangesPublic` what `changedPublicSession` finds. `AtomicAgenda`
says what organizers may rely on: the agenda they read moves by `Apply` of one command, each
once, or by `Reflag`, a change of Public flags, which belong to the Airtable record.

### 2.4 ScheduleCommands

`job` is the call behind `commandQueue`: who called (a command or the alarm), whose receipt
it works on, and where. `request`, `receipt`, `pubs`, `change`, `intents` are the D1 tables of the
schedule; `air` and `proj` the records in Airtable and D1; `ledger` the authority's answer per
operation; `alarm` the object's.

`execute` is `Begin` (resume one's own receipt, else what is in front), `Refuse` or `Evaluate` (the command on
the snapshot that is read), `Load` (the record versions, a later read: a hand edit may fall between the two),
`KeepBaseline` or `BaselineFails` (`ensureLegacyBaseline`), `Record`; `draft` is what it holds meanwhile. `applyReceipt` is `Operation` (commits; commits without
projection; answer unknown; fails for good), `OperationsDone`, `CommitPublication`, `CommitDraftChange`,
`CommitFails`, `Drained`, `DrainFails`; the calendar repair is the `Calendar...` actions; `alarm` is
`AlarmRuns`. `Suspend` is a `ScheduleAuthorityPendingError` (alarm set, caller told
"pending"), `Throw` any other error. `Read`, `Live`, `Latest`, `PublicSchedule` are what
organizers and the public are shown: the live schedule is there only while the event's `status` is "published"
(one value stands for the four others), a stored publication whatever its Status. The commit of a
publication and the legacy baseline read the live schedule too, so under another Status the one
throws (`CommitFails`) as long as it stays so, and the other ends the call before there is a
receipt (`BaselineFails`). `Crash` evicts the object in the middle of a call.

The authority is used by its contract (an operation is applied at most once and only on the version
it expects; D1 may lag until `Repair`), which `BaseAuthority` implements. `EditPublic` and
`EditStatus` are hand edits that were reconciled; a command does not write the Status. Left out: slot versions, bulk previews, broadcasts,
override reasons and acknowledged warnings (a client that did not acknowledge is refused
and nothing changes).

### 2.5 MagicLinks

Links of one recipient and scope; a link's ID stands for its token. `token` and `grant` are the rows of
`magic_link_tokens` and `portal_grants`; `revoked` keeps *why* `revoked_at` was set. Every D1 statement or batch is
one step. `requestMagicLink` is `Insert`, `Send`, `SendFails`, `Fail`, `Mark`, `Check`,
`Finalize`; the consumer's `#magicLink` is `Deliver` to `GiveUp`, with `WorkerDies` for an invocation that ends
anywhere; `exchangeMagicLink` is `Present`, `RepairFinalization`, `ReadCandidate`, `Vet` (`#scopeRemainsEligible`,
before and after the link is consumed), `Consume`, `CreateSession`, `CreateFails`, `Rollback`,
`Withdraw`. Once the link is consumed only a session that cannot be created is handled: `Breaks` is every other
error, or the death of the call, in the second check, the withdrawal, the session or the rollback batch; and a `Rollback` that meets
the unique index on active grants leaves the call `Barred` by the grants that became active since (`rivals` remembers
which were active before). Neither releases the link. `Superseded` and `GrantsAfter` are the supersession and finalization statements, with their tie break
by (`created_at`, `id`); `Clock` lets requests read the time in any order.

Left out: the throttle (a request that is turned away leaves no trace), expiry during a call,
the requesting browser's binding (others are refused at once), the session's own life,
`issuePortalInvitation`. A queue may deliver an acknowledged message again; a retried
one comes again: both ends look alike here.

### 2.6 Uploads

One file: `file` and `intent` are its rows, `timer` the age of the capability, the rest of the lease and of the reconciliation
interval in units of five minutes (`Tick`), `bucket` the R2 object by the store that put it, `put` what became of
each put, which may land late or never (`PutLands`). `store` is `StoreClaims` to
`StoreRequeues`; `finalize` is `FinalizeReads`, `FinalizeHeads`, `FinalizeSamples`, `FinalizeCommits`; `download` is
`DownloadReads`, `DownloadGets`; `#quarantine` the `Reader...` actions; `cleanupExpired` the `Cleaner...`
actions, `#reconcileTerminalObjects` among them. `StoreDies`, `ReaderDies`, `CleanerFails` end a
call anywhere; `Lose` is the disappearance of an object that `download` guards against. The
content either matches its declared type or not (`good`); R2 itself checks the checksum.

Left out: quotas and the number of open intents (`Init` is a granted intent), replacement
lineages, the policy of accepted types, audit rows.

### 2.7 Reconciliation

One Airtable record (`record`: fields, lifecycle version and command, and the content hash written with
them) and its D1 row. `changes` counts the provider's log; `webhook` is the committed cursor and the
request for a full scan. `Edit`, `Rename`, `Delete`, `Restore` are people; `ConfigureWebhook` the operator. `synchronize` is
`Synchronize`, `FetchPage`; `fullScan` is `ListRecords`, the inspection (`Inspect`, `InspectRefuses`,
`TombstoneRenamed`), the adoption patch (`PatchAnswered`, `PatchNotFound`, `PatchUnanswered`), `ProjectSource`,
`FindMissing`, `TombstoneMissing`; then `RestoreReady`, `CommitFull`, `CommitPage`. A command is its read, its write and its
projection; `RepairProjects` is the projection that `recoverRow` hands to `waitUntil`, the one
thing that runs beside a scan. `RequestFails` and `Evict` stop a scan at any step, with
and without its error handler. `row.by` is not stored: it names who wrote the row last, and
`Late` says when a repair undoes what a scan, or a late repair before it, has done.

Left out: the roster of tenants and its change checks (constant here), snapshot capture and
preview, cache invalidations, several records (a record's scan does not depend on others, but for
a failure, which `RequestFails` covers).

## 3. Runs

| Run | Question | Instance (distinct states) |
|---|---|---|
| `AuthorityOneCommand` | one command against all failures, safety and liveness | 1 command, late landing, 1 eviction, 1 concurrent `recoverPending` (25 k) |
| `AuthoritySuccessive` | is it a store of versions, when a command builds on one whose projection is still under repair? | 2 commands, landing within the lease (2 M) |
| `EmailDelivery` | one text, fenced attempts, nothing forgotten | 2 coordinator calls, 2 consumers, 2 texts, a failure event, a replay, a death (2 M, with symmetry) |
| `EmailEvents` | suppression strength, settling under fairness, changes of mode | 2 webhook calls, bounce and complaint, one deployment |
| `ScheduleCommands` | do two commands behave as `AtomicAgenda`, and is what is published sound? | 2 sessions, 2 cells, 2 commands, refusals, 1 hand edit of a Public flag or the Status, 1 eviction (1.4 M, with symmetry) |
| `ScheduleRecovery` | does a pending command finish by itself? | 1 session, 2 commands, an event not yet published, 1 edit, 1 eviction, fairness (118 k) |
| `MagicLinks` | one session per link, no link given up in vain | 2 links in either order of time, 1 consumer, 2 exchanges, both purposes (3.1 M, with symmetry) |
| `Uploads` | do rows and object agree, and do files settle? | 2 stores, 2 readers, 1 cleanup, 2 attempts, fairness (156 k) |
| `Reconciliation` | does a committed cursor mean D1 is Airtable, and does every change arrive? | 3 changes by hand, 2 commands, 2 faults, 2 webhooks, fairness (1.5 M) |
| `EmailStatusRegresses` | *violated*: a weaker, older event overwrites a stronger one | 2 webhook calls |
| `ScheduleRepublished` | *violated*: a moved session is left out of the next publication | 3 commands, no failures |
| `ReconciliationRepair` | *violated*: a repair beside a scan, and a cursor that is committed all the same | 1 command, 1 fault |

Why the bounds are enough. A hazard here needs at most two invocations of a kind on one
row (the stale copy and the one that made it stale; the lapsed holder and its successor; the two
links of which one supersedes the other), one failure of each store, and one eviction or
death; all of these fit. `MaxAttempts`, `MaxRetries`, `MaximumAttempts` and `maxUploadAttempts` are 1 or 2 for five (or three): the
cases are "one more is allowed" and "exhausted". `MaxClaims` 1 lets a link's message be sent once; a
second claim is the same step with a higher number, and the fence it tests is checked for e-mails. Three changes
by hand are one before, one during and one after a scan. The other bounds are `Side`
(waitUntil tasks), `Wake` (`recoverPending` calls beside the alarm), `MaxCopies`, `MaxReplays`, `MaxEnds`, `MaxDeploys`, `MaxCrashes`,
`MaxEdits`, `MaxChanges`, `MaxCommands`, `MaxFaults`, `MaxWebhooks`, `TerminalInterval`. Two authority commands with an eviction, or
without the lease's bound on landing, do not fit in the time a run may take; the theorems cover them. Runs
with fairness use no symmetry.

`CHECK_DEADLOCK FALSE` everywhere but in the authority's runs: an e-mail, a link, a file that is settled rests; with
every command answered, or every change by hand made, nothing is left to happen.

### Fairness

* BaseAuthority: weak fairness of the object's own jobs, workers and alarm
  (Cloudflare runs a set alarm and its handler to the end), of timers, and strong
  fairness of the steps that need Airtable or D1 to answer (they answer if asked
  again and again). Clients, evictions and lost answers owe nothing.
* EmailDelivery: weak fairness of started invocations and of clocks; strong fairness
  of the hourly drain's selection and of the queue's accepting a message. Nobody
  owes an enqueue, a replay or an event.
* ScheduleCommands: strong fairness of the alarm's turn (`commandQueue` is served in order),
  of an operation's and a commit's final outcome (a publication's can only come while the event is published), weak
  fairness of the rest of a call. Organizers, and whoever edits the Status, owe nothing.
* Uploads: time passes and the hourly cleanup is started; strong fairness of its steps, so that R2
  and D1 are not out for ever. Stores, readers and late puts owe nothing.
* Reconciliation: weak fairness of ingestion, of a command under way and of repairs (cron and alarm);
  faults and changes by hand are bounded.

### Findings and remarks

Three runs end in a violation of what a doc, or the program's own message, says; PROJECT.json quotes both sides: the
e-mail status is written without rechecking what the decision was based on; a moved session
loses its Public flag, so that the republication the user is asked for leaves it out;
a projection repair beside a scan revives a deleted record, or makes the scan tombstone a live one.

Four statements about the authority are in `BaseAuthority` as properties that TLC refutes on small
instances of `MCBaseAuthority` (`Spec`, `MaxCrashes = 0`, one record); the code may mean them otherwise, so they are
remarks:

* `FailureIsFinal` (2 commands that create, prompt, no `Wake`): `recoverPending` hands a failed command over as it
  was selected, still accepted; it is sent again and may be committed.
* `AtMostOnce` (2 commands, `Landing = "leased"`, as in `AuthoritySuccessive`): the lease check reads the selected row, so
  a write can be replayed inside its lease. The write that is still on the wire then lands out of turn: `AtMostOnceUnlessStray`
  and `ImplementsStoreUnlessStray` say that there is no other way.
* `OnePayloadPerCommand` (2 hashes): `execute` joins a promise by key before any hash is compared.
* `AppliedIsNotDeferred` (as in `AuthoritySuccessive`): an accepted, unacknowledged write is not recognised once a later
  command has replaced the record's only marker.

Under late landing a failed command's write may land after its failure was recorded: that is why
`AcceptedWriteIsReconciled` ends in "or failed". Further facts that no doc contradicts, stated in the
properties' own conditions or seen in their counterexamples:

* overlapping replays of an e-mail can reset a failure of a later attempt; a crash while "sending" followed
  by a change of mode leaves the row sending (`email-delivery.test.ts` expects it); dead-lettered
  copies leave their row as it is;
* a schedule operation that is refused for good leaves its receipt in front of every later command of the
  event, and so does the publication of an event whose Status is not "published", whose records are
  written all the same, until somebody edits the Status (`PendingIsFinished` excludes exactly these two);
* a link that was consumed stays consumed, without a session, when its call broke off outside the one
  `try` (`auth/service.ts:857`, `:900`), or when it is a portal link and a grant became active since, so that the
  rollback batch violates `ux_portal_grants_active`: `ConsumedIsUsedOrReleased` names the two cases and admits no other;
* an object that is to be removed is queued by setting the file back to 'pending', where it counts against
  the quota until the cleanup ran; the branch of `store` that takes over a lapsed lease is never taken,
  since the lease (20 minutes) outlives the capability (5 minutes): `LeaseOutlivesCapability` in `UploadsProofs` is that fact;
* a record that was edited between an adoption that reached Airtable and the projection that did
  not follow, or whose stable ID was edited, is refused by every synchronization until an operator
  repairs it (`Refused` in `EditsConverge`).

## 4. Proofs

All theorems hold for every value of the constants that satisfies their named assumptions.

* `BaseAuthorityProofs!TypeCorrect`: one lemma per action.
* `EvidenceIsReal`, `CommitsAreApplied`: `CommittedIsApplied` is not inductive, since an
  answer is given from a row copied long before. `AppliedInv` says that every copy
  wherever it waits (row, queue, task, selection), every phase past the provider,
  and Airtable's own marker are backed by a write that took effect. For every
  `Landing`, with any number of commands, workers and evictions.
* `LedgerIsFaithful`, `CompletedIsProjected`, `AcknowledgementsAgree`, `RecoveryIsAlwaysScheduled`, for every `Landing` too. They
  say what may be relied on although rows are handed over stale. `LedgerInv`: a copy is `Faithful` (a response or a failure
  it shows is still in the row) and a task has what its phase says (`TaskFits`: "finishing" has a D1 row, "reporting" a stored
  response, a task outside the queue a response in its copy). So only a task behind its batch completes a row, and D1
  versions never fall (`AuditFits`). `RepliesInv` adds that an acknowledgement is the stored response, and that nobody waits once it
  is stored, but for the job about to say "repair"; thus a job that computes "committed" from a stale copy has nobody to tell.
  `RecoveryInv` adds that a client's job has its leased row to itself (`ClientsJob`); a step that makes a row pending then either
  finds the alarm set, sets it, or leaves a task that will (`Rearmed`, `ProjectionGoesOn`). The last two disjuncts of `Arranged`
  are there because of a behaviour too long for the runs, which the proof brought up: a recovery holds a copy of a row since then
  completed, a late write replaces Airtable's marker, the row is leased again from that copy, completed again by a waitUntil task
  while the alarm finds nothing, and then fails or stays unknown: with no alarm, but with the recovery's own job, which rearms it.
* `BaseAuthorityStoreProofs`, for every `Landing`: `StoreInv` says of every record outside `stray` that what landed is
  below its version and that the job in phase "writing" holds a fresh read, which only the serial queue guarantees. From it
  `WritesHappenOnce`, and the refinement `ImplementsStore`: the initial states map to initial states, a step
  that writes maps to `Apply`, one that answers to `Acknowledge`, every other to a stutter, except that a
  write to a record in `stray` maps to `Overwrite`, which looks at nothing. So a write that lands late but in turn is harmless
  (its command applies then), and one out of turn harms its own record only; that the code cannot
  prevent it is the remark on `AtMostOnce` above. With `Landing = "prompt"` nothing is ever on the wire and `stray` stays empty.
* `EmailDeliveryProofs`: the invariant `IInv` = type correctness, `Begun` (nothing
  exists before the row), `OneText` (what every call, copy and consumer holds is the
  row's text), `Fenced` (no attempt above the counter) and `Told` (a result "sent" has
  been accepted; a webhook call found the provider id). One lemma per action; then
  `TextIsDurable`, `AttemptsFenced`, `SentWasAccepted`.
  `SuppressionStrongest` is inductive by itself. `KnownStaysSettled` needs
  `Settled`: a row the provider knows keeps no envelope, so nobody can start to replay it, and the only replay under
  way is of a failure the provider never knew.
  `NothingIsStranded` needs to know which copy it is that carries an unsettled row on, since another consumer may well
  acknowledge its own. Behind a queued row that was handed off, or is about to be by the call whose lease it carries,
  any copy before its claim will do (`HandoffsCarried`). Behind one being sent it is the copy of the row's latest attempt (`AttemptsResumed`): the
  consumer whose attempt number the row shows, or, when that died, a copy delivered before, which
  `SeemsEarly` never gives back and a mode refuses only after a deployment (`OneMode`). `Claimed` says that the latest attempt
  is under way only while the row is "sending", so the result of any other is not written, and `Enveloped` that the row the drain
  is left with still has its text, which is where overlapping replays and the prune come in.
* `ConflictsProofs!HardConflictsAreClashes`: the walk with its early break reports exactly the clashes of
  the reference definition, for agendas of any size. A session between the two in order starts no later than the
  second, so the walk cannot have broken off before it.
* `ScheduleCommandsProofs`, for any numbers of sessions, cells, commands, hand edits and evictions, and any
  agenda to start from. `Inductive` establishes `IInv`: `Receipts` (one
  command is unfinished at most; what a receipt holds is a command accepted on a tidy snapshot; if it is complete, all
  its operations are durable), `Jobs` (how far a call has come tells what became of its receipt: a new receipt is only
  evaluated when nothing is unfinished, and a publication commits when every operation is durable), `Answers`, and
  `Rows`: while a command is applied each record is as the snapshot in the receipt has it (`Untouched`), as the command
  leaves it (`Projected`), or so in Airtable with D1 one version behind (`Lagging`), in each case up to a Public flag
  edited by hand (`Kin`). When the receipt is completed, `Rows` and `Jobs` together say that what is read is `Result`, up to
  those flags: so `CommitPublication` and `CommitDraftChange` map to `Apply` of `AtomicAgenda`, `EditPublic` to `Reflag`
  and every other step to a stutter (`AgendaIsAtomic`). `PubsCurrent` says that
  the newest publication is the one the event record names (`LatestIsAlwaysCurrent`, whatever the event's Status). `PublicationsAreAlwaysSound` rests on
  `HardConflictsAreClashes`: the walk refuses a publication whose candidates clash.
* `MagicLinksProofs`: `SessionsAreUnique` and `PresentedLinkWins` need to know who holds a link between
  statements. `IInv` adds `Inserted` (nothing refers to a link without a row), `Held` (an exchange past its
  consumption is named in the row as its consumer, and the links given up for it are unconsumed and
  revoked) and `Remembers` (an exchange that may release its link knows the state to give back). Most steps only
  revoke rows or leave `consumed` alone (`Keeps`), so they share one lemma; `Consume` and `Rollback` have their own.
  What becomes of rows needs more, `JInv`: `Taken` (whatever is queued, mailed, presented or granted went through the
  queue), `Grants` (one grant is active, never of a link given up; a grant and its link are consumed and released
  together) and `Used` (who consumed a link is in a phase that will settle it, has its session, broke off, or is barred by a
  grant that became active since; `Alone`: when a link is consumed no other grant is active). From it `RecipientKeepsALink`,
  `GrantsFollowLinks` and `ConsumedIsAccountedFor`. The step that needs care is finalization: a new grant is unique
  because any two rows have an order of age (`Ages`), so an active grant is either older, and revoked in the same
  batch, or newer, and keeps the new one from being made.
* `UploadsProofs`: `RowsStayInStep` is inductive once types are known. `AnsweredFilesAreStored` is not: `Safe` says that a store at work holds
  the lease or the intent is closed for good (`StoresHold`), what it is about to report is in
  R2 (`StoredIsThere`), a reader saw the present object or has a reason to discard it
  (`ReadersSaw`), and a cleanup removes only what is closed (`CleanersRemove`).
  `LeaseOutlivesCapability` is what keeps two stores from working on one file.
* `ReconciliationProofs!CommittedCursorsMatch`: the property speaks of rest, so `IInv` says what holds on
  the way there. `Kept`: with the cursor at the last change the row is the record, but for one result that may still
  be ahead of it. `Repairs`: there is at most one such result, the one that made the present version; the rest are late.
  `Scans`: how far a scan has got, as long as nothing was changed since it began (`Fresh`); any change
  by hand ends that, and the cursor is behind it from then on. `Jobs`: only the queue writes versions, so a
  job about to write holds the present one. `Cursors`: a scan starts at the cursor with the tenant unready. The type
  invariant, whose last conjunct says that the row is never ahead, needs `Counted`: a version is a command's or an
  adoption's, and every adoption but the first takes an edit.

The only assumptions are the named ones on the constants. Of the agendas `ScheduleCommands` starts from they say that
they are snapshots as `readSchedule` returns them: a session without a slot has no place (`Tidy`). Every invariant and
refinement the passing runs check is a theorem. Only model-checked: all
liveness (fairness and ENABLED are out of the prover's reach). Induction over data (what a
recursive definition computes for every input) is out of reach too; no module needs it.

## 5. Not modelled, and plan

Not modelled yet: the persistent rate limiter and the limits of abuse and of the public API (counters in
windows of time); CFP submissions and form plans; tasks and reminders; the lifecycle e-mail outbox; reviews,
decisions, acceptance, organizer submissions; campaigns and templates; the public schedule cache and the calendar
outbox's dispatcher; privacy and demo resets. Of modelled components: snapshot commands and plans of the
authority, the quarantine of provider events, upload quotas and lineages, `issuePortalInvitation`, sessions and their
rotation, snapshot capture and preview. Not to be modelled: the web application, contracts, UI and scripts, which hold
no state that outlives a request.

Next:

1. `FormPlan`, `SubmissionAuthority`: reservations and the plan ledger over `VersionedStore`; all-or-nothing plans.
2. `TaskReminders`, `LifecycleOutbox`: at most one e-mail per trigger, over `EmailDelivery`; `CalendarOutbox` behind `ScheduleCommands`.
3. `Sessions` (rotation, revocation) behind `MagicLinks`; `ProviderReceipts` (quarantine) behind `EmailDelivery`.
4. `Decisions`, `Acceptance`, `Reviews`; 5. `ApiKeys`, `RateWindows`.

Theorems worth proving next: that `EmailDelivery` and `Uploads` implement abstract specifications of their own (one text
under a key, handed out, then settled; a file that is granted, stored, served and removed), stated the way `AtomicAgenda` is;
and the invariants of the modules above, `VersionedStore` being the one to build on.
