---------------------------- MODULE Reconciliation ----------------------------
(***************************************************************************)
(* The way of one Airtable record into its D1 row while people edit the    *)
(* record by hand: synchronize of authority/base-authority.ts, fullScan of *)
(* authority/reconciliation.ts, the inspection of a record by              *)
(* authority/provider.ts, and the writes of authority/projector.ts.        *)
(*                                                                         *)
(* A webhook is configured and the roster of tenants is constant.  Scans   *)
(* and commands run one at a time in the authority's queue; only the       *)
(* repair of a projection that failed runs beside them.  A command is here *)
(* its read, its write and its projection: BaseAuthority has the rest.     *)
(***************************************************************************)
EXTENDS Naturals

CONSTANTS
    Text,           \* what people type into the managed fields of the record
    MaxChanges,     \* bound on the changes by hand
    MaxCommands,    \* bound on the commands
    MaxFaults,      \* bound on failures, lost answers and evictions
    MaxWebhooks     \* bound on webhooks created in turn

ASSUME TextAssumption == Text # {}
ASSUME BoundsAssumption ==
    /\ MaxChanges \in Nat /\ MaxCommands \in Nat
    /\ MaxFaults \in Nat /\ MaxWebhooks \in Nat \ {0}

VARIABLES
    record,         \* the Airtable record
    row,            \* its row in D1: the typed row and authority_source_records
    ready,          \* authority_ready_at of the tenant is set
    webhook,        \* airtable_cursor_state
    changes,        \* the number of changes the provider's log holds
    job,            \* what the queue of the authority is running
    unprojected,    \* results of commands whose projection is still to be made
    faults

vars == <<record, row, ready, webhook, changes, job, unprojected, faults>>

Name == {"own", "other"}        \* the stable ID field
Version == 0 .. MaxChanges + MaxCommands + 1
NoMark == [version |-> 0]
Mark == [id: Name, text: Text, command: 0 .. MaxCommands, version: Version]

\* hashAirtableContent of the managed fields, the ID among them.
Hash(r, version) ==
    [id |-> r.id, text |-> r.text, command |-> r.command, version |-> version]
Applied(r) == r.mark = Hash(r, r.version)

Record == [live: BOOLEAN, id: Name, text: Text, command: 0 .. MaxCommands,
           version: Version, mark: Mark \cup {NoMark}]

\* by names the last writer of the row; it is not stored.
Row == [known: BOOLEAN, deleted: BOOLEAN, id: Name, text: Text,
        command: 0 .. MaxCommands, version: Version, mark: Mark \cup {NoMark},
        seen: BOOLEAN, by: {"none", "scan", "command", "late"}]

Idle == [phase |-> "idle"]
ScanPhases == {"fetch", "list", "inspect", "patch", "project", "missing",
               "tombstone", "restore", "commit"}
CommandJob == [phase: {"write", "finish"}, found: Record]
ScanJob == [phase: ScanPhases, kind: {"full", "page"}, upto: 0 .. MaxChanges,
            more: BOOLEAN, found: Record, id: Name, missing: BOOLEAN]
Job == {Idle} \cup CommandJob \cup ScanJob

TypeOK ==
    /\ record \in Record
    /\ row \in Row
    /\ ready \in BOOLEAN
    /\ webhook \in [cursor: 0 .. MaxChanges, full: BOOLEAN, id: 1 .. MaxWebhooks]
    /\ changes \in 0 .. MaxChanges
    /\ job \in Job
    /\ unprojected \subseteq Record
    /\ faults \in 0 .. MaxFaults
    /\ webhook.cursor <= changes
    /\ row.version <= record.version

\* Typed in by hand, and never seen by the program.
Init ==
    /\ \E t \in Text :
        /\ record = [live |-> TRUE, id |-> "own", text |-> t, command |-> 0,
                     version |-> 0, mark |-> NoMark]
        /\ row = [known |-> FALSE, deleted |-> FALSE, id |-> "own", text |-> t,
                  command |-> 0, version |-> 0, mark |-> NoMark, seen |-> FALSE,
                  by |-> "none"]
    /\ ready = FALSE
    /\ webhook = [cursor |-> 0, full |-> TRUE, id |-> 1]
    /\ changes = 0
    /\ job = Idle
    /\ unprojected = {}
    /\ faults = 0

-----------------------------------------------------------------------------
(***************************************************************************)
(* People at the Airtable base, and the provider's log of what they do.    *)
(***************************************************************************)
ByHand(r) ==
    /\ changes < MaxChanges
    /\ changes' = changes + 1
    /\ record' = r
    /\ UNCHANGED <<row, ready, webhook, job, unprojected, faults>>

Edit == record.live /\ \E t \in Text \ {record.text} : ByHand([record EXCEPT !.text = t])
Rename == record.live /\ \E n \in Name \ {record.id} : ByHand([record EXCEPT !.id = n])
Delete == record.live /\ ByHand([record EXCEPT !.live = FALSE])
Restore == ~record.live /\ ByHand([record EXCEPT !.live = TRUE])

\* The operator registers a new webhook, whose log starts somewhere after the
\* committed cursor: configureWebhook asks for a full scan.
ConfigureWebhook ==
    /\ job = Idle
    /\ webhook.id < MaxWebhooks
    /\ \E c \in webhook.cursor .. changes :
        webhook' = [cursor |-> c, full |-> TRUE, id |-> webhook.id + 1]
    /\ UNCHANGED <<record, row, ready, changes, job, unprojected, faults>>

-----------------------------------------------------------------------------
(***************************************************************************)
(* The upserts and updates of the projection, each one D1 batch.           *)
(***************************************************************************)
Upsert(r, version, mark, seen, by) ==
    row' = IF row.version <= version
           THEN [known |-> TRUE, deleted |-> FALSE, id |-> r.id, text |-> r.text,
                 command |-> r.command, version |-> version, mark |-> mark,
                 seen |-> seen, by |-> by]
           ELSE row

Tombstoned == [row EXCEPT !.deleted = row.known]

-----------------------------------------------------------------------------
(***************************************************************************)
(* A command.  Its caller read the version it expects in D1.               *)
(***************************************************************************)
StoreReads ==
    /\ job = Idle
    /\ record.command < MaxCommands
    /\ row.known /\ record.live /\ record.id = row.id
    /\ Applied(record)
    /\ record.version = row.version
    /\ job' = [phase |-> "write", found |-> record]
    /\ UNCHANGED <<record, row, ready, webhook, changes, unprojected, faults>>

StoreWrites ==
    /\ job.phase = "write"
    /\ LET hashed == [job.found EXCEPT !.command = @ + 1, !.version = @ + 1]
           written == [hashed EXCEPT !.text = record.text,
                                     !.mark = Hash(hashed, hashed.version)]
       IN  IF record.live
           THEN /\ record' = written
                /\ unprojected' = unprojected \cup {written}
                /\ job' = [phase |-> "finish", found |-> written]
           ELSE /\ job' = Idle
                /\ UNCHANGED <<record, unprojected>>
    /\ UNCHANGED <<row, ready, webhook, changes, faults>>

CommandProjects ==
    /\ job.phase = "finish"
    /\ Upsert(job.found, job.found.version, job.found.mark, FALSE, "command")
    /\ unprojected' = unprojected \ {job.found}
    /\ job' = Idle
    /\ UNCHANGED <<record, ready, webhook, changes, faults>>

\* A scan has already dealt with the record at this version, or a repair that
\* was late has undone what it did.
Late(r) ==
    \/ row.deleted
    \/ row.by = "scan" /\ row.version = r.version
    \/ row.by = "late"

\* recoverRow hands finishProjection to waitUntil, so it waits for no scan.
RepairProjects ==
    \E r \in unprojected :
        /\ job.phase # "finish"
        /\ Upsert(r, r.version, r.mark, FALSE, IF Late(r) THEN "late" ELSE "command")
        /\ unprojected' = unprojected \ {r}
        /\ UNCHANGED <<record, ready, webhook, changes, job, faults>>

-----------------------------------------------------------------------------
(***************************************************************************)
(* The hourly synchronize.  It scans everything when it must, and else the *)
(* tables the pages of the webhook's log name.                             *)
(***************************************************************************)
Scanning == job # Idle /\ job.phase \in ScanPhases

Scan(phase, kind) ==
    [phase |-> phase, kind |-> kind, upto |-> webhook.cursor, more |-> FALSE,
     found |-> record, id |-> record.id, missing |-> FALSE]

\* loadCompleteTenantRoster, then invalidateCompleteTenantRoster.
Synchronize ==
    /\ job = Idle
    /\ job' = IF webhook.full \/ ~ready THEN Scan("list", "full") ELSE Scan("fetch", "page")
    /\ ready' = FALSE
    /\ UNCHANGED <<record, row, webhook, changes, unprojected, faults>>

\* A page that names no table is committed without a scan.
FetchPage ==
    /\ job.phase = "fetch"
    /\ \E upto \in webhook.cursor .. changes :
        /\ upto = webhook.cursor => changes = webhook.cursor
        /\ job' = [job EXCEPT !.upto = upto, !.more = upto < changes,
                              !.phase = IF upto = webhook.cursor THEN "restore" ELSE "list"]
    /\ UNCHANGED <<record, row, ready, webhook, changes, unprojected, faults>>

\* The rows carry the id of an older scan from here on.
ListRecords ==
    /\ job.phase = "list"
    /\ row' = [row EXCEPT !.seen = FALSE]
    /\ job' = [job EXCEPT !.found = record, !.id = record.id,
                          !.phase = IF record.live THEN "inspect" ELSE "missing"]
    /\ UNCHANGED <<record, ready, webhook, changes, unprojected, faults>>

LifecycleEmpty == job.found.version = 0
BaselineMarkersMatch ==
    /\ row.known
    /\ row.version = job.found.version
    /\ row.mark = job.found.mark
    /\ row.command = job.found.command

Unchanged == ~LifecycleEmpty /\ job.found.version >= row.version /\ Applied(job.found)
Adoptable == IF LifecycleEmpty THEN ~row.known
             ELSE ~Applied(job.found) /\ BaselineMarkersMatch

Inspect ==
    /\ job.phase = "inspect"
    /\ row.known => row.id = job.found.id
    /\ Unchanged \/ Adoptable
    /\ job' = [job EXCEPT !.phase = IF Unchanged THEN "project" ELSE "patch"]
    /\ UNCHANGED <<record, row, ready, webhook, changes, unprojected, faults>>

-----------------------------------------------------------------------------
\* A failed ingestion asks for a full scan; a failed full scan left ready unset.
Fail ==
    /\ job' = Idle
    /\ webhook' = [webhook EXCEPT !.full = @ \/ job.kind = "page"]
    /\ UNCHANGED <<ready, changes, unprojected>>

\* AirtableManualEditError.
InspectRefuses ==
    /\ job.phase = "inspect"
    /\ row.known => row.id = job.found.id
    /\ ~(Unchanged \/ Adoptable)
    /\ Fail
    /\ UNCHANGED <<record, row, faults>>

\* The stable ID differs from the baseline's, or changed since the list.
TombstoneRenamed ==
    /\ \/ job.phase = "inspect" /\ row.known /\ row.id # job.found.id
       \/ job.phase = "project" /\ job.found.id # job.id
    /\ row' = Tombstoned
    /\ Fail
    /\ UNCHANGED <<record, faults>>

\* The response has the fields as they are now; version and hash are those of
\* the list.
PatchedFrom(found, now) ==
    [now EXCEPT !.version = found.version + 1, !.mark = Hash(found, found.version + 1)]

PatchAnswered ==
    /\ job.phase = "patch" /\ record.live
    /\ record' = PatchedFrom(job.found, record)
    /\ job' = [job EXCEPT !.phase = "project", !.found = record']
    /\ UNCHANGED <<row, ready, webhook, changes, unprojected, faults>>

PatchNotFoundIgnored ==
    /\ job.phase = "patch" /\ ~record.live
    /\ job' = [job EXCEPT !.phase = "project", !.found = PatchedFrom(job.found, job.found)]
    /\ UNCHANGED <<record, row, ready, webhook, changes, unprojected, faults>>

PatchNotFound ==
    /\ job.phase = "patch" /\ ~record.live
    /\ Fail
    /\ UNCHANGED <<record, row, faults>>

PatchUnanswered ==
    /\ job.phase = "patch" /\ record.live
    /\ faults < MaxFaults /\ faults' = faults + 1
    /\ record' = PatchedFrom(job.found, record)
    /\ Fail
    /\ UNCHANGED row

\* The hash of the response instead of the hash that was written.
ProjectSourceRehashed ==
    /\ job.phase = "project" /\ job.found.id = job.id
    /\ Upsert(job.found, job.found.version, Hash(job.found, job.found.version), TRUE, "scan")
    /\ job' = [job EXCEPT !.phase = "missing"]
    /\ UNCHANGED <<record, ready, webhook, changes, unprojected, faults>>

ProjectSource ==
    /\ job.phase = "project" /\ job.found.id = job.id
    /\ Upsert(job.found, job.found.version, job.found.mark, TRUE, "scan")
    /\ job' = [job EXCEPT !.phase = "missing"]
    /\ UNCHANGED <<record, ready, webhook, changes, unprojected, faults>>

\* finishScan: a select, then an update that does not look again.
FindMissing ==
    /\ job.phase = "missing"
    /\ job' = [job EXCEPT !.phase = "tombstone",
                          !.missing = row.known /\ ~row.deleted /\ ~row.seen]
    /\ UNCHANGED <<record, row, ready, webhook, changes, unprojected, faults>>

TombstoneMissing ==
    /\ job.phase = "tombstone"
    /\ row' = IF job.missing THEN Tombstoned ELSE row
    /\ job' = [job EXCEPT !.phase = "restore"]
    /\ UNCHANGED <<record, ready, webhook, changes, unprojected, faults>>

\* After a page that is not the last the tenant stays unready.
RestoreReady ==
    /\ job.phase = "restore"
    /\ ready' = ~job.more
    /\ job' = [job EXCEPT !.phase = "commit"]
    /\ UNCHANGED <<record, row, webhook, changes, unprojected, faults>>

CommitFull ==
    /\ job.phase = "commit" /\ job.kind = "full"
    /\ webhook' = [webhook EXCEPT !.full = FALSE]
    /\ job' = Idle
    /\ UNCHANGED <<record, row, ready, changes, unprojected, faults>>

CommitPageLatest ==
    /\ job.phase = "commit" /\ job.kind = "page"
    /\ webhook' = [webhook EXCEPT !.cursor = changes]
    /\ job' = IF job.more THEN [job EXCEPT !.phase = "fetch"] ELSE Idle
    /\ ready' = (ready /\ ~job.more)
    /\ UNCHANGED <<record, row, changes, unprojected, faults>>

\* The next page starts by invalidating the roster again.
CommitPage ==
    /\ job.phase = "commit" /\ job.kind = "page"
    /\ webhook' = [webhook EXCEPT !.cursor = job.upto]
    /\ job' = IF job.more THEN [job EXCEPT !.phase = "fetch"] ELSE Idle
    /\ ready' = (ready /\ ~job.more)
    /\ UNCHANGED <<record, row, changes, unprojected, faults>>

\* A request to D1 or to Airtable fails; after the commit of a page this is the
\* copy of the cursor in D1.
RequestFails ==
    /\ Scanning
    /\ faults < MaxFaults /\ faults' = faults + 1
    /\ \/ Fail
       \/ /\ job.phase = "commit" /\ job.kind = "page"
          /\ webhook' = [webhook EXCEPT !.cursor = job.upto, !.full = TRUE]
          /\ job' = Idle
          /\ UNCHANGED <<ready, changes, unprojected>>
    /\ UNCHANGED <<record, row>>

\* The command's projection fails, or the object is evicted: no catch runs.
Evict ==
    /\ job # Idle
    /\ faults < MaxFaults /\ faults' = faults + 1
    /\ job' = Idle
    /\ UNCHANGED <<record, row, ready, webhook, changes, unprojected>>

-----------------------------------------------------------------------------
Environment == Edit \/ Rename \/ Delete \/ Restore \/ ConfigureWebhook
Command == StoreReads \/ StoreWrites \/ CommandProjects
Ingest ==
    \/ Synchronize \/ FetchPage \/ ListRecords
    \/ Inspect \/ InspectRefuses \/ TombstoneRenamed
    \/ PatchAnswered \/ PatchNotFound
    \/ ProjectSource \/ FindMissing \/ TombstoneMissing
    \/ RestoreReady \/ CommitFull \/ CommitPage
Faults == PatchUnanswered \/ RequestFails \/ Evict

Next == Environment \/ Command \/ RepairProjects \/ Ingest \/ Faults

Spec == Init /\ [][Next]_vars

\* The cron triggers synchronize every hour, and the alarm every repair.
FairSpec ==
    Spec /\ WF_vars(Ingest) /\ WF_vars(StoreWrites \/ CommandProjects)
         /\ WF_vars(RepairProjects)

-----------------------------------------------------------------------------
Matches ==
    IF record.live
    THEN row.known /\ ~row.deleted /\ row.text = record.text /\ row.id = record.id
         /\ row.command = record.command /\ row.version = record.version
    ELSE row.known => row.deleted

\* What the program takes for "D1 is up to date": the tenant is ready, no full
\* scan is asked for, and no change is past the cursor nor in the queue.
Committed ==
    /\ ready /\ ~webhook.full /\ webhook.cursor = changes
    /\ job = Idle /\ unprojected = {}

(***************************************************************************)
(* When the cursor is committed up to the last change and the tenant is    *)
(* ready, the D1 row is the Airtable record: no edit, deletion or renaming *)
(* was skipped, and no record a scan listed was tombstoned by it - however *)
(* edits, evictions and lost answers fell between its steps - unless a     *)
(* late repair wrote the row.                                              *)
(***************************************************************************)
CommittedMatches == Committed /\ row.by # "late" => Matches

(***************************************************************************)
(* The same with repairs: docs/12-airtable-operations.md:80, "A base-wide  *)
(* webhook cursor advances only after every active tenant converges".      *)
(***************************************************************************)
CommittedConverges == Committed => Matches

\* The record of which synchronize reports AirtableManualEditError, or a changed
\* stable ID, hour after hour: one that was edited between an adoption that
\* reached Airtable and the projection that did not follow, or renamed.
Refused ==
    /\ record.live
    /\ \/ record.version > row.version /\ ~Applied(record)
       \/ row.known /\ record.id # row.id

(***************************************************************************)
(* Once people stop changing the record and requests succeed, every change *)
(* reaches D1 and stays there, except for the records synchronize refuses  *)
(* and the rows a late repair wrote.                                       *)
(***************************************************************************)
EditsConverge == <>[](Matches \/ Refused \/ row.by = "late")
===============================================================================
