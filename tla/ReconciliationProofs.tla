------------------------- MODULE ReconciliationProofs -------------------------
(***************************************************************************)
(* Theorems about Reconciliation for any text, and every number of changes *)
(* by hand, commands, failures and webhooks.                               *)
(***************************************************************************)
EXTENDS Reconciliation, TLAPS

Differs(r, q) == r.id # q.id \/ r.text # q.text

\* The lifecycle version counts commands and adoptions, and each adoption but the
\* first takes a change by hand: what was edited leaves room for one.
Counted ==
    /\ record.version <= record.command + changes + 1
    /\ record.version > 0 /\ ~Applied(record) => record.version <= record.command + changes
    /\ /\ job.phase \in {"inspect", "patch"}
       /\ job.found.version = 0 \/ ~Applied(job.found)
       /\ Differs(record, job.found)
       => job.found.version + 1 <= record.command + changes

\* The queue of the authority alone writes versions, so a job that is about to
\* write has read the present one, whatever else was edited meanwhile.
Jobs ==
    /\ job # Idle => job.found.version <= record.version
    /\ job.phase \in {"inspect", "patch", "project", "write"} => job.found.live
    /\ job.phase \in {"inspect", "patch", "write"} =>
          /\ job.found.version = record.version
          /\ job.found.command = record.command
          /\ job.found.mark = record.mark
    /\ job.phase = "patch" =>
          /\ row.version = record.version
          /\ job.found.version = 0 \/ ~Applied(job.found)
    /\ job.phase = "write" =>
          /\ Applied(job.found) /\ job.found.command < MaxCommands
          /\ row.known /\ row.version = record.version
          /\ row.by # "late" => row.id = job.found.id
    /\ job.phase = "finish" =>
          /\ job.found \in unprojected /\ job.found.version = record.version
          /\ webhook.cursor = changes => record = job.found

\* A scan starts at the cursor, and the tenant is not ready until it is through.
Cursors ==
    /\ Scanning =>
          /\ webhook.cursor <= job.upto /\ job.upto <= changes
          /\ job.kind = "page" => ~webhook.full
          /\ job.kind = "full" => job.upto = webhook.cursor /\ ~job.more
          /\ job.more => job.upto < changes
          /\ job.phase # "commit" => ~ready
    /\ job.phase = "fetch" => job.kind = "page" /\ job.upto = webhook.cursor

\* At most one result is ahead of the row: the one that made the present version.
Repairs ==
    /\ row.known => row.by # "none"
    /\ ~row.known => row.version = 0 /\ unprojected = {} /\ ~row.deleted
    /\ \A r \in unprojected :
          /\ r.live
          /\ r.version <= record.version
          /\ r.version > row.version => r.version = record.version
          /\ row.by = "command" => r.version # row.version
          /\ \A q \in unprojected : r.version = q.version => r = q

Same == row.known /\ ~row.deleted /\ row.text = record.text /\ row.id = record.id
Current == row.command = record.command /\ row.version = record.version

\* The row is the record, once the result that may be ahead of it is projected.
Follows ==
    IF record.live THEN Same /\ (Current \/ record \in unprojected)
                   ELSE row.known => row.deleted

Kept ==
    ready /\ ~webhook.full /\ webhook.cursor = changes /\ row.by # "late" => Follows

\* Nothing was changed since the scan began: how far it has got.
Fresh == Scanning /\ job.upto = changes
Scans ==
    Fresh =>
      /\ job.phase \in {"inspect", "patch", "project"} =>
            job.found = record /\ job.id = record.id
      /\ row.by # "late" =>
            /\ job.phase \in {"fetch", "restore", "commit"} => Follows
            /\ job.phase = "missing" =>
                 IF record.live THEN Same /\ Current /\ row.seen ELSE ~row.seen
            /\ job.phase = "tombstone" =>
                 IF record.live THEN Same /\ Current /\ ~job.missing
                                ELSE job.missing \/ (row.known => row.deleted)

IInv == TypeOK /\ Counted /\ Jobs /\ Cursors /\ Repairs /\ Kept /\ Scans

-----------------------------------------------------------------------------
(* Types *)

LEMMA Kinds ==
    ASSUME TypeOK
    PROVE  /\ job = Idle \/ job \in CommandJob \/ job \in ScanJob
           /\ job = Idle <=> job.phase = "idle"
           /\ Scanning <=> job.phase \in ScanPhases
           /\ Scanning => job \in ScanJob
           /\ job.phase \in {"write", "finish"} => job \in CommandJob
           /\ job # Idle => job.found \in Record
BY DEF TypeOK, Job, CommandJob, ScanJob, Idle, ScanPhases, Scanning

LEMMA Hashes ==
    ASSUME NEW r \in Record, NEW version \in Version
    PROVE  Hash(r, version) \in Mark
BY DEF Hash, Record, Mark

LEMMA UpsertTypes ==
    ASSUME row \in Row, NEW r \in Record, NEW version \in Version,
           NEW mark \in Mark \cup {NoMark}, NEW seen \in BOOLEAN,
           NEW by \in {"scan", "command", "late"},
           Upsert(r, version, mark, seen, by)
    PROVE  row' \in Row
<1>1. r.id \in Name /\ r.text \in Text /\ r.command \in 0 .. MaxCommands
  BY DEF Record
<1>2. CASE row.version <= version
  <2>1. row' = [known |-> TRUE, deleted |-> FALSE, id |-> r.id, text |-> r.text,
                command |-> r.command, version |-> version, mark |-> mark,
                seen |-> seen, by |-> by]
    BY <1>2 DEF Upsert
  <2> QED
    BY <1>1, <2>1 DEF Row
<1>3. CASE ~(row.version <= version)
  BY <1>3 DEF Upsert
<1> QED
  BY <1>2, <1>3

LEMMA TombstoneTypes ==
    ASSUME row \in Row
    PROVE  /\ Tombstoned \in Row
           /\ Tombstoned.known = row.known /\ Tombstoned.deleted = row.known
           /\ Tombstoned.version = row.version /\ Tombstoned.by = row.by
           /\ Tombstoned.id = row.id /\ Tombstoned.seen = row.seen
           /\ Tombstoned.text = row.text /\ Tombstoned.command = row.command
BY DEF Tombstoned, Row

\* What a scan does to its own job.
LEMMA ScanMoves ==
    ASSUME NEW j \in ScanJob
    PROVE  /\ \A phase \in ScanPhases :
                 /\ [j EXCEPT !.phase = phase] \in ScanJob
                 /\ \A r \in Record : [j EXCEPT !.phase = phase, !.found = r] \in ScanJob
                 /\ \A r \in Record, id \in Name :
                       [j EXCEPT !.phase = phase, !.found = r, !.id = id] \in ScanJob
                 /\ \A m \in BOOLEAN : [j EXCEPT !.phase = phase, !.missing = m] \in ScanJob
                 /\ \A m \in BOOLEAN, u \in 0 .. MaxChanges :
                       [j EXCEPT !.phase = phase, !.more = m, !.upto = u] \in ScanJob
BY DEF ScanJob

-----------------------------------------------------------------------------
(* Steps *)

LEMMA Initially == Init => IInv
<1> SUFFICES ASSUME Init PROVE IInv
  OBVIOUS
<1>1. PICK t \in Text :
        /\ record = [live |-> TRUE, id |-> "own", text |-> t, command |-> 0,
                     version |-> 0, mark |-> NoMark]
        /\ row = [known |-> FALSE, deleted |-> FALSE, id |-> "own", text |-> t,
                  command |-> 0, version |-> 0, mark |-> NoMark, seen |-> FALSE,
                  by |-> "none"]
  BY DEF Init
<1>2. 0 \in Version /\ 0 \in 0 .. MaxCommands /\ 0 \in 0 .. MaxChanges /\ 0 \in 0 .. MaxFaults
      /\ 1 \in 1 .. MaxWebhooks
  BY BoundsAssumption DEF Version
<1>3. record \in Record /\ row \in Row
  BY <1>1, <1>2 DEF Record, Row, Name
<1>4. TypeOK
  <2>1. /\ ready = FALSE /\ changes = 0 /\ job = Idle /\ unprojected = {} /\ faults = 0
        /\ webhook = [cursor |-> 0, full |-> TRUE, id |-> 1]
    BY DEF Init
  <2>2. webhook \in [cursor: 0 .. MaxChanges, full: BOOLEAN, id: 1 .. MaxWebhooks]
    BY <1>2, <2>1
  <2>3. webhook.cursor <= changes /\ row.version <= record.version
    BY <1>1, <2>1
  <2>4. job \in Job
    BY <2>1 DEF Job
  <2> QED
    BY <1>2, <1>3, <2>1, <2>2, <2>3, <2>4 DEF TypeOK
<1>5. Counted /\ Jobs /\ Cursors /\ Repairs /\ Kept /\ Scans
  BY <1>1, <1>2 DEF Init, Counted, Jobs, Cursors, Repairs, Kept, Scans, Fresh, Scanning, Idle,
                    ScanPhases
<1> QED
  BY <1>4, <1>5 DEF IInv

\* Whatever is changed by hand, the cursor is behind it from then on.
LEMMA HandSteps ==
    ASSUME IInv, NEW r \in Record, ByHand(r),
           r.version = record.version, r.command = record.command, r.mark = record.mark
    PROVE  IInv'
<1>1. /\ changes' = changes + 1 /\ changes' \in 0 .. MaxChanges /\ changes \in Nat
      /\ record' = r /\ record \in Record
      /\ UNCHANGED <<row, ready, webhook, job, unprojected, faults>>
  BY BoundsAssumption DEF ByHand, IInv, TypeOK
<1>2. /\ record.version \in Nat /\ record.command \in Nat
      /\ webhook.cursor <= changes /\ webhook.cursor \in Nat
  BY BoundsAssumption DEF IInv, TypeOK, Record, Version
<1>3. TypeOK'
  <2>1. webhook.cursor <= changes'
    BY <1>1, <1>2
  <2> QED
    BY <1>1, <2>1 DEF IInv, TypeOK
<1>4. Counted'
  <2>1. /\ r.version <= r.command + changes'
        /\ r.version <= r.command + changes' + 1
    BY <1>1, <1>2 DEF IInv, Counted
  <2>2. ASSUME job.phase \in {"inspect", "patch"}, job.found.version = 0 \/ ~Applied(job.found)
        PROVE  job.found.version + 1 <= r.command + changes'
    <3>1. /\ job.found.version = record.version /\ job.found.command = record.command
          /\ job.found.mark = record.mark
      BY <2>2 DEF IInv, Jobs
    <3>2. CASE Differs(record, job.found)
      BY <1>1, <1>2, <2>2, <3>1, <3>2 DEF IInv, Counted
    <3>3. CASE ~Differs(record, job.found)
      <4>1. Applied(record) <=> Applied(job.found)
        BY <3>1, <3>3 DEF Differs, Applied, Hash
      <4> QED
        BY <1>1, <1>2, <2>2, <3>1, <4>1 DEF IInv, Counted
    <3> QED
      BY <3>2, <3>3
  <2> QED
    BY <1>1, <2>1, <2>2 DEF Counted
<1>5. Jobs'
  BY <1>1, <1>2 DEF IInv, Jobs
<1>6. Cursors'
  <2>1. Scanning => job.upto \in Nat
    BY Kinds DEF IInv, ScanJob
  <2> QED
    BY <1>1, <2>1 DEF IInv, Cursors, Scanning
<1>7. Repairs'
  BY <1>1 DEF IInv, Repairs
<1>8. Kept'
  BY <1>1, <1>2 DEF Kept
<1>9. Scans'
  <2>1. Scanning => job.upto \in Nat
    BY Kinds DEF IInv, ScanJob
  <2>2. ~Fresh'
    BY <1>1, <2>1 DEF Fresh, Scanning, IInv, Cursors
  <2> QED
    BY <2>2 DEF Scans
<1> QED
  BY <1>3, <1>4, <1>5, <1>6, <1>7, <1>8, <1>9 DEF IInv

LEMMA PeopleSteps ==
    ASSUME IInv, Edit \/ Rename \/ Delete \/ Restore
    PROVE  IInv'
<1>1. record \in Record
  BY DEF IInv, TypeOK
<1>2. CASE Edit
  <2>1. PICK t \in Text : ByHand([record EXCEPT !.text = t])
    BY <1>2 DEF Edit
  <2> QED
    BY <1>1, <2>1, HandSteps DEF Record
<1>3. CASE Rename
  <2>1. PICK n \in Name : ByHand([record EXCEPT !.id = n])
    BY <1>3 DEF Rename
  <2> QED
    BY <1>1, <2>1, HandSteps DEF Record
<1>4. CASE Delete
  BY <1>1, <1>4, HandSteps DEF Record, Delete
<1>5. CASE Restore
  BY <1>1, <1>5, HandSteps DEF Record, Restore
<1> QED
  BY <1>2, <1>3, <1>4, <1>5

\* A step after which the queue is idle, and the record as it was.
LEMMA JobEnds ==
    ASSUME IInv, job' = Idle, record' = record, changes' = changes,
           TypeOK', Repairs', Kept'
    PROVE  IInv'
<1>1. Counted'
  BY DEF IInv, Counted, Idle
<1>2. Jobs' /\ Cursors' /\ Scans'
  BY DEF Jobs, Cursors, Scans, Fresh, Scanning, Idle, ScanPhases
<1> QED
  BY <1>1, <1>2 DEF IInv

LEMMA FailTypes ==
    ASSUME IInv, Fail
    PROVE  /\ webhook' \in [cursor: 0 .. MaxChanges, full: BOOLEAN, id: 1 .. MaxWebhooks]
           /\ webhook'.cursor = webhook.cursor
           /\ webhook'.full = (webhook.full \/ job.kind = "page")
           /\ job' = Idle /\ job' \in Job
           /\ UNCHANGED <<ready, changes, unprojected>>
BY DEF Fail, IInv, TypeOK, Job

LEMMA FailSteps ==
    ASSUME IInv, Fail, record' = record, row' = row, faults' \in 0 .. MaxFaults
    PROVE  IInv'
<1>1. TypeOK'
  BY FailTypes DEF IInv, TypeOK
<1>2. Repairs'
  BY FailTypes DEF IInv, Repairs
<1>3. Kept'
  BY FailTypes DEF IInv, Kept, Follows, Same, Current
<1> QED
  BY FailTypes, <1>1, <1>2, <1>3, JobEnds

LEMMA EndSteps ==
    ASSUME IInv, ConfigureWebhook \/ InspectRefuses \/ PatchNotFound \/ RequestFails \/ Evict
    PROVE  IInv'
<1>1. faults \in 0 .. MaxFaults /\ (faults < MaxFaults => faults + 1 \in 0 .. MaxFaults)
  BY BoundsAssumption DEF IInv, TypeOK
<1>2. webhook \in [cursor: 0 .. MaxChanges, full: BOOLEAN, id: 1 .. MaxWebhooks]
  BY DEF IInv, TypeOK
<1>3. CASE ConfigureWebhook
  <2>1. PICK c \in webhook.cursor .. changes :
           webhook' = [cursor |-> c, full |-> TRUE, id |-> webhook.id + 1]
    BY <1>3 DEF ConfigureWebhook
  <2>2. /\ job' = Idle /\ webhook.id < MaxWebhooks
        /\ UNCHANGED <<record, row, ready, changes, job, unprojected, faults>>
    BY <1>3 DEF ConfigureWebhook
  <2>3. c \in 0 .. MaxChanges /\ c <= changes /\ webhook.id + 1 \in 1 .. MaxWebhooks
    BY <1>2, <2>2, BoundsAssumption DEF IInv, TypeOK
  <2>4. TypeOK'
    <3>1. webhook' \in [cursor: 0 .. MaxChanges, full: BOOLEAN, id: 1 .. MaxWebhooks]
      BY <2>1, <2>3
    <3>2. webhook'.cursor <= changes'
      BY <2>1, <2>2, <2>3
    <3> QED
      BY <2>2, <3>1, <3>2 DEF IInv, TypeOK
  <2>5. Repairs' /\ Kept'
    BY <2>1, <2>2 DEF IInv, Repairs, Kept
  <2> QED
    BY <2>2, <2>4, <2>5, JobEnds
<1>4. CASE InspectRefuses
  BY <1>1, <1>4, FailSteps DEF InspectRefuses
<1>5. CASE PatchNotFound
  BY <1>1, <1>5, FailSteps DEF PatchNotFound
<1>6. CASE RequestFails
  <2>1. faults' \in 0 .. MaxFaults /\ UNCHANGED <<record, row>> /\ Scanning
    BY <1>1, <1>6 DEF RequestFails
  <2>2. CASE Fail
    BY <2>1, <2>2, FailSteps
  <2>3. CASE ~Fail
    <3>1. /\ webhook' = [webhook EXCEPT !.cursor = job.upto, !.full = TRUE]
          /\ job' = Idle /\ UNCHANGED <<ready, changes, unprojected>>
      BY <1>6, <2>3 DEF RequestFails
    <3>2. job.upto \in 0 .. MaxChanges /\ job.upto <= changes
      BY <2>1, Kinds DEF IInv, ScanJob, Cursors
    <3>3. TypeOK'
      <4>1. webhook' \in [cursor: 0 .. MaxChanges, full: BOOLEAN, id: 1 .. MaxWebhooks]
        BY <1>2, <3>1, <3>2
      <4>2. webhook'.cursor <= changes'
        BY <1>2, <3>1, <3>2
      <4> QED
        BY <2>1, <3>1, <4>1, <4>2 DEF IInv, TypeOK, Job
    <3>4. Repairs' /\ Kept'
      BY <1>2, <2>1, <3>1 DEF IInv, Repairs, Kept
    <3> QED
      BY <2>1, <3>1, <3>3, <3>4, JobEnds
  <2> QED
    BY <2>2, <2>3
<1>7. CASE Evict
  <2>1. /\ job' = Idle /\ faults' \in 0 .. MaxFaults
        /\ UNCHANGED <<record, row, ready, webhook, changes, unprojected>>
    BY <1>1, <1>7 DEF Evict
  <2>2. TypeOK'
    BY <2>1 DEF IInv, TypeOK, Job
  <2>3. Repairs' /\ Kept'
    BY <2>1 DEF IInv, Repairs, Kept, Follows, Same, Current
  <2> QED
    BY <2>1, <2>2, <2>3, JobEnds
<1> QED
  BY <1>3, <1>4, <1>5, <1>6, <1>7

-----------------------------------------------------------------------------
(* Commits and the steps between scans *)

LEMMA CommitSteps ==
    ASSUME IInv, CommitFull \/ CommitPage
    PROVE  IInv'
<1>1. /\ job.phase = "commit" /\ Scanning /\ job \in ScanJob
      /\ UNCHANGED <<record, row, changes, unprojected, faults>>
  BY Kinds DEF CommitFull, CommitPage, IInv, ScanPhases
<1>2. /\ webhook \in [cursor: 0 .. MaxChanges, full: BOOLEAN, id: 1 .. MaxWebhooks]
      /\ job.upto \in 0 .. MaxChanges /\ job.upto <= changes
  BY <1>1 DEF IInv, TypeOK, ScanJob, Cursors
<1>3. job.upto = changes /\ row.by # "late" => Follows
  BY <1>1 DEF IInv, Scans, Fresh
<1>4. Repairs'
  BY <1>1 DEF IInv, Repairs
<1>5. Follows' <=> Follows
  BY <1>1 DEF Follows, Same, Current
<1>6. CASE CommitFull
  <2>1. /\ webhook' = [webhook EXCEPT !.full = FALSE] /\ job' = Idle /\ UNCHANGED ready
        /\ job.kind = "full"
    BY <1>6 DEF CommitFull
  <2>2. TypeOK'
    BY <1>1, <1>2, <2>1 DEF IInv, TypeOK, Job
  <2>3. Kept'
    BY <1>1, <1>2, <1>3, <1>5, <2>1 DEF IInv, Cursors, Kept
  <2> QED
    BY <1>1, <1>4, <2>1, <2>2, <2>3, JobEnds
<1>7. CASE CommitPage
  <2>1. /\ webhook' = [webhook EXCEPT !.cursor = job.upto]
        /\ job' = IF job.more THEN [job EXCEPT !.phase = "fetch"] ELSE Idle
        /\ ready' = (ready /\ ~job.more)
        /\ job.kind = "page"
    BY <1>7 DEF CommitPage
  <2>2. TypeOK'
    <3>1. webhook' \in [cursor: 0 .. MaxChanges, full: BOOLEAN, id: 1 .. MaxWebhooks]
          /\ webhook'.cursor <= changes'
      BY <1>1, <1>2, <2>1
    <3>2. job' \in Job
      BY <1>1, <2>1, ScanMoves DEF Job, ScanPhases
    <3> QED
      BY <1>1, <2>1, <3>1, <3>2 DEF IInv, TypeOK
  <2>3. Kept'
    BY <1>1, <1>2, <1>3, <1>5, <2>1 DEF Kept
  <2>4. CASE ~job.more
    BY <1>1, <1>4, <2>1, <2>2, <2>3, <2>4, JobEnds
  <2>5. CASE job.more
    <3>1. /\ job' \in ScanJob /\ job'.phase = "fetch" /\ job'.kind = "page" /\ job'.upto = job.upto
          /\ job'.more /\ job'.found = job.found /\ job' # Idle
      BY <1>1, <2>1, <2>5 DEF ScanJob, Idle, ScanPhases
    <3>2. webhook'.cursor = job.upto /\ webhook'.full = webhook.full /\ ~ready'
      BY <1>2, <2>1, <2>5
    <3>3. job.upto < changes /\ ~webhook.full
      BY <1>1, <2>1, <2>5 DEF IInv, Cursors
    <3>4. Counted' /\ Jobs'
      <4>1. job # Idle
        BY <1>1 DEF Idle
      <4> QED
        BY <1>1, <3>1, <4>1 DEF IInv, Counted, Jobs
    <3>5. Cursors'
      BY <1>1, <1>2, <3>1, <3>2, <3>3 DEF Cursors
    <3>6. Scans'
      BY <1>1, <1>2, <3>1, <3>3 DEF Scans, Fresh
    <3> QED
      BY <1>4, <2>2, <2>3, <3>4, <3>5, <3>6 DEF IInv
  <2> QED
    BY <2>4, <2>5
<1> QED
  BY <1>6, <1>7

LEMMA SynchronizeSteps ==
    ASSUME IInv, Synchronize
    PROVE  IInv'
<1>1. /\ job = Idle /\ ready' = FALSE
      /\ UNCHANGED <<record, row, webhook, changes, unprojected, faults>>
  BY DEF Synchronize
<1>2. /\ record \in Record /\ record.id \in Name /\ webhook.cursor \in 0 .. MaxChanges
      /\ webhook.cursor <= changes
  BY DEF IInv, TypeOK, Record
<1>3. PICK phase \in {"list", "fetch"}, kind \in {"full", "page"} :
        /\ job' = Scan(phase, kind)
        /\ IF webhook.full \/ ~ready THEN phase = "list" /\ kind = "full"
                                     ELSE phase = "fetch" /\ kind = "page"
  BY DEF Synchronize
<1>4. /\ job' \in ScanJob /\ job' # Idle
      /\ job'.phase = phase /\ job'.kind = kind /\ job'.upto = webhook.cursor
      /\ ~job'.more /\ job'.found = record
  BY <1>2, <1>3 DEF Scan, ScanJob, ScanPhases, Idle
<1>5. TypeOK'
  BY <1>1, <1>4 DEF IInv, TypeOK, Job
<1>6. Counted' /\ Jobs'
  <2>1. job'.phase \notin {"inspect", "patch", "write", "finish"}
    BY <1>4
  <2>2. record.version <= record.version
    BY <1>2 DEF Record, Version
  <2>3. Counted'
    BY <1>1, <2>1 DEF IInv, Counted
  <2>4. Jobs'
    BY <1>1, <1>4, <2>1, <2>2 DEF Jobs
  <2> QED
    BY <2>3, <2>4
<1>7. Cursors'
  BY <1>1, <1>2, <1>3, <1>4 DEF Cursors
<1>8. Repairs' /\ Kept'
  BY <1>1 DEF IInv, Repairs, Kept
<1>9. Scans'
  <2>1. CASE phase = "list"
    BY <1>4, <2>1 DEF Scans
  <2>2. CASE phase = "fetch"
    <3>1. webhook.cursor = changes /\ row.by # "late" => Follows
      BY <1>3, <2>2 DEF IInv, Kept
    <3>2. Follows' <=> Follows
      BY <1>1 DEF Follows, Same, Current
    <3> QED
      BY <1>1, <1>4, <2>2, <3>1, <3>2 DEF Scans, Fresh
  <2> QED
    BY <2>1, <2>2
<1> QED
  BY <1>5, <1>6, <1>7, <1>8, <1>9 DEF IInv

LEMMA FetchSteps ==
    ASSUME IInv, FetchPage
    PROVE  IInv'
<1>1. /\ job.phase = "fetch" /\ Scanning /\ job \in ScanJob
      /\ UNCHANGED <<record, row, ready, webhook, changes, unprojected, faults>>
  BY Kinds DEF FetchPage, IInv, ScanPhases
<1>2. PICK upto \in webhook.cursor .. changes :
        /\ upto = webhook.cursor => changes = webhook.cursor
        /\ job' = [job EXCEPT !.upto = upto, !.more = upto < changes,
                              !.phase = IF upto = webhook.cursor THEN "restore" ELSE "list"]
  BY DEF FetchPage
<1>3. /\ webhook.cursor \in 0 .. MaxChanges /\ changes \in 0 .. MaxChanges
      /\ upto \in 0 .. MaxChanges /\ upto <= changes /\ webhook.cursor <= upto
  BY BoundsAssumption DEF IInv, TypeOK
<1>4. /\ job' \in ScanJob /\ job' # Idle /\ job'.upto = upto /\ job'.more = (upto < changes)
      /\ job'.phase = (IF upto = webhook.cursor THEN "restore" ELSE "list")
      /\ job'.kind = job.kind /\ job'.found = job.found
  <2>1. PICK phase \in {"restore", "list"}, more \in BOOLEAN :
          /\ phase = (IF upto = webhook.cursor THEN "restore" ELSE "list")
          /\ more = (upto < changes)
          /\ job' = [job EXCEPT !.phase = phase, !.more = more, !.upto = upto]
    <3>1. (upto < changes) \in BOOLEAN
      OBVIOUS
    <3> QED
      BY <1>1, <1>2, <3>1 DEF ScanJob
  <2>2. /\ job' \in ScanJob /\ job'.upto = upto /\ job'.more = more /\ job'.phase = phase
        /\ job'.kind = job.kind /\ job'.found = job.found
    BY <1>1, <1>3, <2>1 DEF ScanJob, ScanPhases
  <2>3. job' # Idle
    BY <2>2 DEF Idle
  <2> QED
    BY <2>1, <2>2, <2>3
<1>5. /\ job.kind = "page" /\ job.upto = webhook.cursor /\ ~ready /\ ~webhook.full /\ job # Idle
  BY <1>1 DEF IInv, Cursors, Idle
<1>6. TypeOK'
  BY <1>1, <1>4 DEF IInv, TypeOK, Job
<1>7. Counted' /\ Jobs'
  BY <1>1, <1>4, <1>5 DEF IInv, Counted, Jobs
<1>8. Cursors'
  BY <1>1, <1>3, <1>4, <1>5 DEF Cursors
<1>9. Repairs' /\ Kept'
  BY <1>1, <1>5 DEF IInv, Repairs, Kept
<1>10. Scans'
  <2>1. CASE upto = webhook.cursor
    <3>1. row.by # "late" => Follows
      BY <1>1, <1>2, <1>5, <2>1 DEF IInv, Scans, Fresh
    <3>2. Follows' <=> Follows
      BY <1>1 DEF Follows, Same, Current
    <3> QED
      BY <1>1, <1>4, <2>1, <3>1, <3>2 DEF Scans
  <2>2. CASE upto # webhook.cursor
    BY <1>4, <2>2 DEF Scans
  <2> QED
    BY <2>1, <2>2
<1> QED
  BY <1>6, <1>7, <1>8, <1>9, <1>10 DEF IInv

LEMMA RestoreSteps ==
    ASSUME IInv, RestoreReady
    PROVE  IInv'
<1>1. /\ job.phase = "restore" /\ Scanning /\ job \in ScanJob
      /\ ready' = ~job.more /\ job' = [job EXCEPT !.phase = "commit"]
      /\ UNCHANGED <<record, row, webhook, changes, unprojected, faults>>
  BY Kinds DEF RestoreReady, IInv, ScanPhases
<1>2. /\ job' \in ScanJob /\ job' # Idle /\ job # Idle /\ job'.phase = "commit"
      /\ job'.kind = job.kind /\ job'.upto = job.upto /\ job'.more = job.more
      /\ job'.found = job.found /\ job.more \in BOOLEAN
  BY <1>1 DEF ScanJob, ScanPhases, Idle
<1>3. /\ webhook.cursor \in Nat /\ changes \in Nat /\ job.upto \in Nat
      /\ webhook.cursor <= job.upto /\ job.upto <= changes
  BY <1>1, BoundsAssumption DEF IInv, TypeOK, Cursors, ScanJob
<1>4. TypeOK'
  BY <1>1, <1>2 DEF IInv, TypeOK, Job
<1>5. Counted' /\ Jobs'
  BY <1>1, <1>2 DEF IInv, Counted, Jobs
<1>6. Cursors'
  BY <1>1, <1>2, Kinds DEF IInv, Cursors, ScanPhases, Scanning
<1>7. Repairs'
  BY <1>1 DEF IInv, Repairs
<1>8. Follows' <=> Follows
  BY <1>1 DEF Follows, Same, Current
<1>9. job.upto = changes /\ row.by # "late" => Follows
  BY <1>1 DEF IInv, Scans, Fresh
<1>10. Kept'
  BY <1>1, <1>3, <1>8, <1>9 DEF Kept
<1>11. Scans'
  BY <1>1, <1>2, <1>8, <1>9 DEF Scans, Fresh
<1> QED
  BY <1>4, <1>5, <1>6, <1>7, <1>10, <1>11 DEF IInv

-----------------------------------------------------------------------------
(* The steps of a scan *)

\* Until it commits, a scan leaves the tenant unready.
LEMMA Onward ==
    ASSUME IInv, Scanning, UNCHANGED <<ready, webhook, changes>>,
           job.phase # "commit", job'.phase \notin {"fetch", "commit"},
           job' \in ScanJob, job'.kind = job.kind, job'.upto = job.upto, job'.more = job.more
    PROVE  /\ job # Idle /\ job' # Idle /\ job' \in Job /\ job'.phase \in ScanPhases
           /\ ~ready /\ Cursors' /\ Kept'
           /\ Fresh' => Fresh
           /\ job'.phase \notin {"write", "finish"}
<1>1. /\ job # Idle /\ job' # Idle /\ job' \in Job /\ job'.phase \in ScanPhases
      /\ job'.phase \notin {"write", "finish"}
  BY DEF Scanning, ScanJob, Idle, Job, ScanPhases
<1>2. ~ready
  BY DEF IInv, Cursors
<1>3. Cursors'
  BY <1>1, <1>2 DEF IInv, Cursors, Scanning
<1>4. Kept'
  BY <1>2 DEF Kept
<1>5. Fresh' => Fresh
  BY DEF Fresh
<1> QED
  BY <1>1, <1>2, <1>3, <1>4, <1>5

LEMMA ListSteps ==
    ASSUME IInv, ListRecords
    PROVE  IInv'
<1>1. /\ job.phase = "list" /\ Scanning /\ job \in ScanJob
      /\ row' = [row EXCEPT !.seen = FALSE]
      /\ UNCHANGED <<record, ready, webhook, changes, unprojected, faults>>
  BY Kinds DEF ListRecords, IInv, ScanPhases
<1>2. record \in Record /\ record.id \in Name /\ record.version \in Nat
  BY DEF IInv, TypeOK, Record, Version
<1>3. PICK phase \in {"inspect", "missing"} :
        /\ phase = (IF record.live THEN "inspect" ELSE "missing")
        /\ job' = [job EXCEPT !.phase = phase, !.found = record, !.id = record.id]
  BY <1>1 DEF ListRecords, ScanJob
<1>4. /\ job' \in ScanJob /\ job'.phase = phase /\ job'.found = record /\ job'.id = record.id
      /\ job'.kind = job.kind /\ job'.upto = job.upto /\ job'.more = job.more
  BY <1>1, <1>2, <1>3 DEF ScanJob, ScanPhases
<1>5. /\ row' \in Row /\ row'.known = row.known /\ row'.deleted = row.deleted
      /\ row'.version = row.version /\ row'.by = row.by /\ ~row'.seen
  BY <1>1 DEF IInv, TypeOK, Row
<1>6. job' \in Job /\ Cursors' /\ Kept'
  BY <1>1, <1>4, Onward
<1>7. TypeOK'
  BY <1>1, <1>5, <1>6 DEF IInv, TypeOK
<1>8. Counted'
  <2>1. ~Differs(record, job'.found)
    BY <1>4 DEF Differs
  <2> QED
    BY <1>1, <2>1 DEF IInv, Counted
<1>9. Jobs'
  <2>1. record.version <= record.version
    BY <1>2
  <2> QED
    BY <1>1, <1>3, <1>4, <2>1 DEF Jobs
<1>10. Repairs'
  BY <1>1, <1>5 DEF IInv, Repairs
<1>11. Scans'
  BY <1>1, <1>3, <1>4, <1>5 DEF Scans
<1> QED
  BY <1>6, <1>7, <1>8, <1>9, <1>10, <1>11 DEF IInv

LEMMA InspectSteps ==
    ASSUME IInv, Inspect
    PROVE  IInv'
<1>1. /\ job.phase = "inspect" /\ Scanning /\ job \in ScanJob
      /\ UNCHANGED <<record, row, ready, webhook, changes, unprojected, faults>>
  BY Kinds DEF Inspect, IInv, ScanPhases
<1>2. PICK phase \in {"project", "patch"} :
        /\ phase = (IF Unchanged THEN "project" ELSE "patch")
        /\ job' = [job EXCEPT !.phase = phase]
  BY <1>1 DEF Inspect
<1>3. /\ job' \in ScanJob /\ job'.phase = phase /\ job'.found = job.found /\ job'.id = job.id
      /\ job'.kind = job.kind /\ job'.upto = job.upto /\ job'.more = job.more
  BY <1>1, <1>2 DEF ScanJob, ScanPhases
<1>4. job' \in Job /\ Cursors' /\ Kept' /\ job # Idle /\ (Fresh' => Fresh)
  BY <1>1, <1>3, Onward
<1>5. TypeOK'
  BY <1>1, <1>4 DEF IInv, TypeOK
<1>6. Counted'
  BY <1>1, <1>3 DEF IInv, Counted
<1>7. Jobs'
  <2>1. phase = "patch" => /\ row.version = record.version
                           /\ job.found.version = 0 \/ ~Applied(job.found)
    <3> SUFFICES ASSUME phase = "patch"
                 PROVE  /\ row.version = record.version
                        /\ job.found.version = 0 \/ ~Applied(job.found)
      OBVIOUS
    <3>1. Adoptable
      BY <1>2 DEF Inspect
    <3>2. job.found.version = record.version
      BY <1>1 DEF IInv, Jobs
    <3>3. ~row.known => row.version = 0
      BY DEF IInv, Repairs
    <3> QED
      BY <3>1, <3>2, <3>3 DEF Adoptable, LifecycleEmpty, BaselineMarkersMatch
  <2>2. /\ job.found.version <= record.version /\ job.found.live
        /\ job.found.version = record.version /\ job.found.command = record.command
        /\ job.found.mark = record.mark
    BY <1>1, <1>4 DEF IInv, Jobs
  <2> QED
    BY <1>1, <1>3, <2>1, <2>2 DEF Jobs
<1>8. Repairs'
  BY <1>1 DEF IInv, Repairs
<1>9. Scans'
  BY <1>1, <1>3, <1>4 DEF IInv, Scans
<1> QED
  BY <1>4, <1>5, <1>6, <1>7, <1>8, <1>9 DEF IInv

\* The adoption of an edit writes the next version, for which there is room.
LEMMA Patched ==
    ASSUME IInv, job.phase = "patch", record.live, record' = PatchedFrom(job.found, record),
           UNCHANGED <<row, changes, unprojected>>
    PROVE  /\ record' \in Record /\ record'.live /\ record'.id = record.id
           /\ record'.version = record.version + 1 /\ record.version \in Nat
           /\ row.version <= record'.version
           /\ record'.version <= record'.command + changes + 1
           /\ ~Applied(record') => record'.version <= record'.command + changes
           /\ Repairs'
<1>1. /\ record \in Record /\ job.found \in Record /\ job # Idle
      /\ changes \in 0 .. MaxChanges /\ changes \in Nat
  BY Kinds DEF IInv, TypeOK, Idle
<1>2. /\ record.version \in Nat /\ record.command \in 0 .. MaxCommands /\ record.command \in Nat
  BY <1>1, BoundsAssumption DEF Record, Version
<1>3. /\ job.found.version = record.version /\ job.found.command = record.command
      /\ job.found.mark = record.mark /\ row.version = record.version
      /\ job.found.version = 0 \/ ~Applied(job.found)
  BY DEF IInv, Jobs
<1>4. Differs(record, job.found) => record.version + 1 <= record.command + changes
  BY <1>3 DEF IInv, Counted
<1>5. record.version + 1 <= record.command + changes + 1
  <2>1. CASE Differs(record, job.found)
    BY <1>1, <1>2, <1>4, <2>1
  <2>2. CASE ~Differs(record, job.found) /\ record.version > 0
    <3>1. ~Applied(record)
      BY <1>2, <1>3, <2>2 DEF Differs, Applied, Hash
    <3> QED
      BY <1>1, <1>2, <2>2, <3>1 DEF IInv, Counted
  <2>3. CASE record.version = 0
    BY <1>1, <1>2, <2>3
  <2> QED
    BY <1>2, <2>1, <2>2, <2>3
<1>6. record.version + 1 \in Version
  BY <1>1, <1>2, <1>5, BoundsAssumption DEF Version
<1>7. Hash(job.found, record.version + 1) \in Mark
  BY <1>1, <1>6, Hashes
<1>8. record' = [record EXCEPT !.version = record.version + 1,
                               !.mark = Hash(job.found, record.version + 1)]
  BY <1>3 DEF PatchedFrom
<1>9. /\ record' \in Record /\ record'.live /\ record'.id = record.id
      /\ record'.text = record.text /\ record'.command = record.command
      /\ record'.version = record.version + 1
      /\ record'.mark = Hash(job.found, record.version + 1)
  BY <1>1, <1>6, <1>7, <1>8 DEF Record
<1>10. ~Applied(record') => Differs(record, job.found)
  BY <1>3, <1>9 DEF Applied, Differs, Hash
<1>11. Repairs'
  <2>1. \A r \in unprojected : r.version \in Nat
    BY DEF IInv, TypeOK, Record, Version
  <2> QED
    BY <1>2, <1>3, <1>9, <2>1 DEF IInv, Repairs
<1> QED
  BY <1>2, <1>3, <1>4, <1>5, <1>9, <1>10, <1>11

LEMMA PatchAnswers ==
    ASSUME IInv, PatchAnswered
    PROVE  IInv'
<1>1. /\ job.phase = "patch" /\ Scanning /\ job \in ScanJob /\ record.live
      /\ record' = PatchedFrom(job.found, record)
      /\ job' = [job EXCEPT !.phase = "project", !.found = record']
      /\ UNCHANGED <<row, ready, webhook, changes, unprojected, faults>>
  BY Kinds DEF PatchAnswered, IInv, ScanPhases
<1>2. /\ record' \in Record /\ record'.live /\ record'.id = record.id
      /\ record'.version = record.version + 1 /\ record.version \in Nat
      /\ row.version <= record'.version
      /\ record'.version <= record'.command + changes + 1
      /\ ~Applied(record') => record'.version <= record'.command + changes
      /\ Repairs'
  BY <1>1, Patched
<1>3. /\ job' \in ScanJob /\ job'.phase = "project" /\ job'.found = record' /\ job'.id = job.id
      /\ job'.kind = job.kind /\ job'.upto = job.upto /\ job'.more = job.more
  BY <1>1, <1>2 DEF ScanJob, ScanPhases
<1>4. job' \in Job /\ Cursors' /\ Kept' /\ (Fresh' => Fresh)
  BY <1>1, <1>3, Onward
<1>5. TypeOK'
  BY <1>1, <1>2, <1>4 DEF IInv, TypeOK
<1>6. Counted' /\ Jobs'
  BY <1>1, <1>2, <1>3 DEF Counted, Jobs
<1>7. Scans'
  BY <1>1, <1>2, <1>3, <1>4 DEF IInv, Scans
<1> QED
  BY <1>2, <1>4, <1>5, <1>6, <1>7 DEF IInv

\* A failure leaves the tenant unready, or asks for a full scan.
LEMMA FailedScan ==
    ASSUME IInv, Fail, Scanning, job.phase # "commit"
    PROVE  Kept' /\ Jobs' /\ Cursors' /\ Scans'
<1>1. ~ready /\ ready' = ready /\ job' = Idle
  BY DEF IInv, Cursors, Fail
<1>2. Kept'
  BY <1>1 DEF Kept
<1>3. Jobs' /\ Cursors' /\ Scans'
  BY <1>1 DEF Jobs, Cursors, Scans, Fresh, Scanning, Idle, ScanPhases
<1> QED
  BY <1>2, <1>3

LEMMA PatchLost ==
    ASSUME IInv, PatchUnanswered
    PROVE  IInv'
<1>1. /\ job.phase = "patch" /\ Scanning /\ record.live
      /\ record' = PatchedFrom(job.found, record) /\ Fail
      /\ UNCHANGED row /\ faults < MaxFaults /\ faults' = faults + 1
  BY Kinds DEF PatchUnanswered, IInv, ScanPhases
<1>2. /\ UNCHANGED <<ready, changes, unprojected>> /\ job' = Idle /\ job' \in Job
      /\ webhook' \in [cursor: 0 .. MaxChanges, full: BOOLEAN, id: 1 .. MaxWebhooks]
      /\ webhook'.cursor = webhook.cursor
  BY <1>1, FailTypes
<1>3. /\ record' \in Record /\ row.version <= record'.version
      /\ record'.version <= record'.command + changes + 1
      /\ ~Applied(record') => record'.version <= record'.command + changes
      /\ Repairs'
  BY <1>1, <1>2, Patched
<1>4. faults' \in 0 .. MaxFaults
  BY <1>1, BoundsAssumption DEF IInv, TypeOK
<1>5. TypeOK'
  BY <1>1, <1>2, <1>3, <1>4 DEF IInv, TypeOK
<1>6. Counted'
  BY <1>2, <1>3 DEF Counted, Idle
<1>7. Kept' /\ Jobs' /\ Cursors' /\ Scans'
  BY <1>1, FailedScan
<1> QED
  BY <1>3, <1>5, <1>6, <1>7 DEF IInv

LEMMA RenameSteps ==
    ASSUME IInv, TombstoneRenamed
    PROVE  IInv'
<1>1. /\ Scanning /\ job.phase # "commit" /\ row' = Tombstoned /\ Fail
      /\ UNCHANGED <<record, faults>>
  BY Kinds DEF TombstoneRenamed, IInv, ScanPhases
<1>2. /\ UNCHANGED <<ready, changes, unprojected>> /\ job' = Idle /\ job' \in Job
      /\ webhook' \in [cursor: 0 .. MaxChanges, full: BOOLEAN, id: 1 .. MaxWebhooks]
      /\ webhook'.cursor = webhook.cursor
  BY <1>1, FailTypes
<1>3. /\ row' \in Row /\ row'.known = row.known /\ row'.deleted = row.known
      /\ row'.version = row.version /\ row'.by = row.by
  BY <1>1, TombstoneTypes DEF IInv, TypeOK
<1>4. TypeOK'
  BY <1>1, <1>2, <1>3 DEF IInv, TypeOK
<1>5. Repairs'
  BY <1>1, <1>2, <1>3 DEF IInv, Repairs
<1>6. Kept'
  BY <1>1, FailedScan
<1> QED
  BY <1>1, <1>2, <1>4, <1>5, <1>6, JobEnds

\* What a projection leaves in the row.
LEMMA Upserted ==
    ASSUME IInv, NEW r \in Record, r.version <= record.version,
           NEW mark \in Mark \cup {NoMark}, NEW seen \in BOOLEAN,
           NEW by \in {"scan", "command", "late"},
           Upsert(r, r.version, mark, seen, by)
    PROVE  /\ row' \in Row /\ r.version \in Nat /\ row.version \in Nat /\ record.version \in Nat
           /\ row'.version <= record.version
           /\ row.version <= r.version =>
                 /\ row'.known /\ ~row'.deleted /\ row'.id = r.id /\ row'.text = r.text
                 /\ row'.command = r.command /\ row'.version = r.version
                 /\ row'.seen = seen /\ row'.by = by
           /\ ~(row.version <= r.version) => row' = row
<1>1. r.version \in Version /\ row.version \in Version /\ record.version \in Version
  BY DEF IInv, TypeOK, Record, Row
<1>2. r.version \in Nat /\ row.version \in Nat /\ record.version \in Nat
  BY <1>1 DEF Version
<1>3. row' \in Row
  BY <1>1, UpsertTypes DEF IInv, TypeOK
<1>4. /\ row.version <= r.version =>
            /\ row'.known /\ ~row'.deleted /\ row'.id = r.id /\ row'.text = r.text
            /\ row'.command = r.command /\ row'.version = r.version
            /\ row'.seen = seen /\ row'.by = by
      /\ ~(row.version <= r.version) => row' = row
  BY DEF Upsert
<1>5. row'.version <= record.version
  BY <1>4 DEF IInv, TypeOK
<1> QED
  BY <1>2, <1>3, <1>4, <1>5

LEMMA ProjectSteps ==
    ASSUME IInv, ProjectSource
    PROVE  IInv'
<1>1. /\ job.phase = "project" /\ Scanning /\ job \in ScanJob /\ job # Idle
      /\ Upsert(job.found, job.found.version, job.found.mark, TRUE, "scan")
      /\ job' = [job EXCEPT !.phase = "missing"]
      /\ UNCHANGED <<record, ready, webhook, changes, unprojected, faults>>
  BY Kinds DEF ProjectSource, IInv, ScanPhases, Scanning
<1>2. /\ job.found \in Record /\ job.found.version <= record.version /\ job.found.live
      /\ job.found.mark \in Mark \cup {NoMark}
  BY <1>1, Kinds DEF IInv, Jobs, Record
<1>3. /\ row' \in Row /\ job.found.version \in Nat /\ row.version \in Nat
      /\ record.version \in Nat /\ row'.version <= record.version
      /\ row.version <= job.found.version =>
            /\ row'.known /\ ~row'.deleted /\ row'.id = job.found.id
            /\ row'.text = job.found.text /\ row'.command = job.found.command
            /\ row'.version = job.found.version /\ row'.seen /\ row'.by = "scan"
      /\ ~(row.version <= job.found.version) => row' = row
  BY <1>1, <1>2, Upserted
<1>4. /\ job' \in ScanJob /\ job'.phase = "missing" /\ job'.found = job.found
      /\ job'.kind = job.kind /\ job'.upto = job.upto /\ job'.more = job.more
  BY <1>1 DEF ScanJob, ScanPhases
<1>5. job' \in Job /\ Cursors' /\ Kept' /\ (Fresh' => Fresh)
  BY <1>1, <1>4, Onward
<1>6. TypeOK'
  BY <1>1, <1>3, <1>5 DEF IInv, TypeOK
<1>7. Counted' /\ Jobs'
  BY <1>1, <1>2, <1>4 DEF IInv, Counted, Jobs
<1>8. Repairs'
  <2>1. \A r \in unprojected : r.version \in Nat
    BY DEF IInv, TypeOK, Record, Version
  <2>2. CASE ~(row.version <= job.found.version)
    BY <1>1, <1>3, <2>2 DEF IInv, Repairs
  <2>3. CASE row.version <= job.found.version
    BY <1>1, <1>3, <2>1, <2>3 DEF IInv, Repairs
  <2> QED
    BY <2>2, <2>3
<1>9. Scans'
  <2> SUFFICES ASSUME Fresh'
               PROVE  IF record.live THEN row'.known /\ ~row'.deleted /\ row'.text = record.text
                                          /\ row'.id = record.id /\ row'.command = record.command
                                          /\ row'.version = record.version /\ row'.seen
                                     ELSE ~row'.seen
    BY <1>1, <1>4 DEF Scans, Same, Current
  <2>1. job.found = record
    BY <1>1, <1>5 DEF IInv, Scans
  <2>2. row.version <= job.found.version
    BY <2>1 DEF IInv, TypeOK
  <2> QED
    BY <1>2, <1>3, <2>1, <2>2
<1> QED
  BY <1>5, <1>6, <1>7, <1>8, <1>9 DEF IInv

LEMMA FindSteps ==
    ASSUME IInv, FindMissing
    PROVE  IInv'
<1>1. /\ job.phase = "missing" /\ Scanning /\ job \in ScanJob /\ job # Idle
      /\ UNCHANGED <<record, row, ready, webhook, changes, unprojected, faults>>
  BY Kinds DEF FindMissing, IInv, ScanPhases, Scanning
<1>2. PICK missing \in BOOLEAN :
        /\ missing <=> row.known /\ ~row.deleted /\ ~row.seen
        /\ job' = [job EXCEPT !.phase = "tombstone", !.missing = missing]
  <2>1. row.known \in BOOLEAN /\ row.deleted \in BOOLEAN /\ row.seen \in BOOLEAN
    BY DEF IInv, TypeOK, Row
  <2>2. (row.known /\ ~row.deleted /\ ~row.seen) \in BOOLEAN
    BY <2>1
  <2> QED
    BY <2>2 DEF FindMissing
<1>3. /\ job' \in ScanJob /\ job'.phase = "tombstone" /\ job'.found = job.found
      /\ job'.kind = job.kind /\ job'.upto = job.upto /\ job'.more = job.more
      /\ job'.missing = missing
  BY <1>1, <1>2 DEF ScanJob, ScanPhases
<1>4. job' \in Job /\ Cursors' /\ Kept' /\ (Fresh' => Fresh)
  BY <1>1, <1>3, Onward
<1>5. TypeOK'
  BY <1>1, <1>4 DEF IInv, TypeOK
<1>6. Counted' /\ Jobs'
  BY <1>1, <1>3 DEF IInv, Counted, Jobs
<1>7. Repairs'
  BY <1>1 DEF IInv, Repairs
<1>8. Scans'
  <2> SUFFICES ASSUME Fresh', row.by # "late"
               PROVE  IF record.live THEN Same /\ Current /\ ~missing
                                     ELSE missing \/ (row.known => row.deleted)
    BY <1>1, <1>3 DEF Scans, Same, Current
  <2>1. IF record.live THEN Same /\ Current /\ row.seen ELSE ~row.seen
    BY <1>1, <1>4 DEF IInv, Scans
  <2> QED
    BY <1>2, <2>1
<1> QED
  BY <1>4, <1>5, <1>6, <1>7, <1>8 DEF IInv

LEMMA TombstoneSteps ==
    ASSUME IInv, TombstoneMissing
    PROVE  IInv'
<1>1. /\ job.phase = "tombstone" /\ Scanning /\ job \in ScanJob /\ job # Idle
      /\ row' = IF job.missing THEN Tombstoned ELSE row
      /\ job' = [job EXCEPT !.phase = "restore"]
      /\ UNCHANGED <<record, ready, webhook, changes, unprojected, faults>>
  BY Kinds DEF TombstoneMissing, IInv, ScanPhases, Scanning
<1>2. /\ job' \in ScanJob /\ job'.phase = "restore" /\ job'.found = job.found
      /\ job'.kind = job.kind /\ job'.upto = job.upto /\ job'.more = job.more
  BY <1>1 DEF ScanJob, ScanPhases
<1>3. job' \in Job /\ Cursors' /\ Kept' /\ (Fresh' => Fresh)
  BY <1>1, <1>2, Onward
<1>4. /\ row' \in Row /\ row'.known = row.known /\ row'.version = row.version
      /\ row'.by = row.by
      /\ job.missing => row'.deleted = row.known
      /\ ~job.missing => row' = row
  BY <1>1, TombstoneTypes DEF IInv, TypeOK
<1>5. TypeOK'
  BY <1>1, <1>3, <1>4 DEF IInv, TypeOK
<1>6. Counted' /\ Jobs'
  BY <1>1, <1>2 DEF IInv, Counted, Jobs
<1>7. Repairs'
  BY <1>1, <1>4 DEF IInv, Repairs
<1>8. Scans'
  <2> SUFFICES ASSUME Fresh', row.by # "late"
               PROVE  Follows'
    BY <1>1, <1>2, <1>4 DEF Scans
  <2>1. IF record.live THEN Same /\ Current /\ ~job.missing
                       ELSE job.missing \/ (row.known => row.deleted)
    BY <1>1, <1>3 DEF IInv, Scans
  <2> QED
    BY <1>1, <1>4, <2>1 DEF Follows, Same, Current
<1> QED
  BY <1>3, <1>5, <1>6, <1>7, <1>8 DEF IInv

-----------------------------------------------------------------------------
(* Commands and repairs *)

LEMMA ReadSteps ==
    ASSUME IInv, StoreReads
    PROVE  IInv'
<1>1. /\ record.command < MaxCommands /\ row.known /\ record.live /\ record.id = row.id
      /\ Applied(record) /\ record.version = row.version
      /\ job' = [phase |-> "write", found |-> record]
      /\ UNCHANGED <<record, row, ready, webhook, changes, unprojected, faults>>
  BY DEF StoreReads
<1>2. record \in Record /\ record.version <= record.version
  BY DEF IInv, TypeOK, Record, Version
<1>3. /\ job' \in CommandJob /\ job'.phase = "write" /\ job'.found = record
  BY <1>1, <1>2 DEF CommandJob
<1>4. TypeOK'
  BY <1>1, <1>3 DEF IInv, TypeOK, Job
<1>5. Counted'
  BY <1>1, <1>3 DEF IInv, Counted
<1>6. Jobs'
  BY <1>1, <1>2, <1>3 DEF Jobs
<1>7. Cursors' /\ Scans'
  BY <1>3 DEF Cursors, Scans, Fresh, Scanning, ScanPhases
<1>8. Repairs' /\ Kept'
  BY <1>1 DEF IInv, Repairs, Kept, Follows, Same, Current
<1> QED
  BY <1>4, <1>5, <1>6, <1>7, <1>8 DEF IInv

\* A command writes the fields it read, and their hash, but not the texts: what
\* was typed since then stays, unapplied, and there is room to adopt it.
LEMMA Written ==
    ASSUME IInv, job.phase = "write", record.live,
           NEW hashed, hashed = [job.found EXCEPT !.command = @ + 1, !.version = @ + 1],
           NEW r, r = [hashed EXCEPT !.text = record.text, !.mark = Hash(hashed, hashed.version)]
    PROVE  /\ r \in Record /\ r.live /\ r.id = job.found.id /\ r.text = record.text
           /\ r.version = record.version + 1 /\ record.version \in Nat
           /\ r.version <= r.command + changes + 1
           /\ ~Applied(r) => r.version <= r.command + changes
<1>1. /\ record \in Record /\ job.found \in Record /\ job # Idle
      /\ changes \in 0 .. MaxChanges /\ changes \in Nat
  BY Kinds DEF IInv, TypeOK, Idle
<1>2. /\ record.version \in Nat /\ record.command \in 0 .. MaxCommands /\ record.command \in Nat
      /\ record.text \in Text
  BY <1>1, BoundsAssumption DEF Record, Version
<1>3. /\ job.found.version = record.version /\ job.found.command = record.command
      /\ job.found.mark = record.mark /\ job.found.live
      /\ Applied(job.found) /\ job.found.command < MaxCommands
  BY DEF IInv, Jobs
<1>4. record.version <= record.command + changes + 1
  BY DEF IInv, Counted
<1>5. /\ record.version + 1 \in Version /\ record.command + 1 \in 0 .. MaxCommands
      /\ record.version + 1 <= record.command + 1 + changes + 1
  BY <1>1, <1>2, <1>3, <1>4, BoundsAssumption DEF Version
<1>6. /\ hashed \in Record /\ hashed.live /\ hashed.id = job.found.id
      /\ hashed.text = job.found.text /\ hashed.command = record.command + 1
      /\ hashed.version = record.version + 1
  BY <1>1, <1>3, <1>5 DEF Record
<1>7. Hash(hashed, hashed.version) \in Mark
  BY <1>5, <1>6, Hashes
<1>8. /\ r \in Record /\ r.live /\ r.id = job.found.id /\ r.text = record.text
      /\ r.command = record.command + 1 /\ r.version = record.version + 1
      /\ r.mark = Hash(hashed, record.version + 1)
  BY <1>2, <1>6, <1>7 DEF Record
<1>9. ~Applied(r) => r.version <= r.command + changes
  <2> SUFFICES ASSUME ~Applied(r) PROVE record.version <= record.command + changes
    BY <1>1, <1>2, <1>8
  <2>1. record.text # job.found.text
    BY <1>6, <1>8 DEF Applied, Hash
  <2>2. ~Applied(record)
    BY <1>3, <2>1 DEF Applied, Hash
  <2> QED
    BY <1>1, <1>2, <2>2 DEF IInv, Counted
<1> QED
  BY <1>1, <1>2, <1>5, <1>8, <1>9

LEMMA WriteSteps ==
    ASSUME IInv, StoreWrites
    PROVE  IInv'
<1>1. job.phase = "write" /\ UNCHANGED <<row, ready, webhook, changes, faults>>
  BY DEF StoreWrites
<1>2. CASE ~record.live
  <2>1. job' = Idle /\ UNCHANGED <<record, unprojected>>
    BY <1>2 DEF StoreWrites
  <2>2. TypeOK'
    BY <1>1, <2>1 DEF IInv, TypeOK, Job
  <2>3. Repairs' /\ Kept'
    BY <1>1, <2>1 DEF IInv, Repairs, Kept, Follows, Same, Current
  <2> QED
    BY <1>1, <2>1, <2>2, <2>3, JobEnds
<1>3. CASE record.live
  <2> DEFINE hashed == [job.found EXCEPT !.command = @ + 1, !.version = @ + 1]
             r == [hashed EXCEPT !.text = record.text, !.mark = Hash(hashed, hashed.version)]
  <2>1. record' = r /\ unprojected' = unprojected \cup {r}
        /\ job' = [phase |-> "finish", found |-> r]
    BY <1>3 DEF StoreWrites
  <2>2. /\ r \in Record /\ r.live /\ r.id = job.found.id /\ r.text = record.text
        /\ r.version = record.version + 1 /\ record.version \in Nat
        /\ r.version <= r.command + changes + 1
        /\ ~Applied(r) => r.version <= r.command + changes
    BY <1>1, <1>3, Written
  <2> HIDE DEF r
  <2>3. /\ row.known /\ row.version = record.version
        /\ row.by # "late" => row.id = job.found.id
    BY <1>1 DEF IInv, Jobs
  <2>4. /\ job' \in CommandJob /\ job'.phase = "finish" /\ job'.found = r
    BY <2>1, <2>2 DEF CommandJob
  <2>5. row.version <= r.version /\ r.version <= r.version /\ r.version # row.version
    BY <2>2, <2>3
  <2>6. TypeOK'
    BY <1>1, <2>1, <2>2, <2>4, <2>5 DEF IInv, TypeOK, Job
  <2>7. Counted'
    BY <1>1, <2>1, <2>2, <2>4 DEF Counted
  <2>8. Jobs'
    BY <2>1, <2>4, <2>5 DEF Jobs
  <2>9. Cursors' /\ Scans'
    BY <2>4 DEF Cursors, Scans, Fresh, Scanning, ScanPhases
  <2>10. Repairs'
    <3>1. \A q \in unprojected : /\ q.version \in Nat /\ q.live /\ q.version <= record.version
                                 /\ row.by = "command" => q.version # row.version
                                 /\ \A p \in unprojected : q.version = p.version => q = p
      BY DEF IInv, TypeOK, Repairs, Record, Version
    <3>2. \A q \in unprojected : /\ q.version <= r.version /\ q.version # r.version
                                 /\ ~(q.version > row.version)
      BY <2>2, <2>3, <3>1
    <3>3. row.by # "none"
      BY <2>3 DEF IInv, Repairs
    <3> QED
      BY <1>1, <2>1, <2>2, <2>3, <2>5, <3>1, <3>2, <3>3 DEF Repairs
  <2>11. Kept'
    <3>1. Kept => (ready /\ ~webhook.full /\ webhook.cursor = changes /\ row.by # "late" => Same)
      BY <1>3 DEF Kept, Follows
    <3>2. r \in unprojected'
      BY <2>1
    <3> QED
      BY <1>1, <2>1, <2>2, <2>3, <3>1, <3>2 DEF IInv, Kept, Follows, Same
  <2> QED
    BY <2>6, <2>7, <2>8, <2>9, <2>10, <2>11 DEF IInv
<1> QED
  BY <1>2, <1>3

LEMMA FinishSteps ==
    ASSUME IInv, CommandProjects
    PROVE  IInv'
<1>1. /\ job.phase = "finish"
      /\ Upsert(job.found, job.found.version, job.found.mark, FALSE, "command")
      /\ unprojected' = unprojected \ {job.found} /\ job' = Idle
      /\ UNCHANGED <<record, ready, webhook, changes, faults>>
  BY DEF CommandProjects
<1>2. /\ job.found \in unprojected /\ job.found.version = record.version
      /\ webhook.cursor = changes => record = job.found
  BY <1>1 DEF IInv, Jobs
<1>3. /\ job.found \in Record /\ job.found.version <= record.version
      /\ job.found.mark \in Mark \cup {NoMark} /\ row.version <= job.found.version
  BY <1>2 DEF IInv, TypeOK, Record, Version
<1>4. /\ row' \in Row /\ record.version \in Nat /\ row'.version <= record.version
      /\ row'.known /\ ~row'.deleted /\ row'.id = job.found.id /\ row'.text = job.found.text
      /\ row'.command = job.found.command /\ row'.version = job.found.version
      /\ row'.by = "command"
  BY <1>1, <1>3, Upserted
<1>5. TypeOK'
  BY <1>1, <1>4 DEF IInv, TypeOK, Job
<1>6. Repairs'
  <2>1. \A r \in unprojected : /\ r.version \in Nat /\ r.live /\ r.version <= record.version
                               /\ \A q \in unprojected : r.version = q.version => r = q
    BY DEF IInv, TypeOK, Repairs, Record, Version
  <2> QED
    BY <1>1, <1>2, <1>4, <2>1 DEF Repairs
<1>7. Kept'
  <2>1. job.found.live
    BY <1>2 DEF IInv, Repairs
  <2> QED
    BY <1>1, <1>2, <1>4, <2>1 DEF Kept, Follows, Same, Current
<1> QED
  BY <1>1, <1>5, <1>6, <1>7, JobEnds

\* What a repair does to a row no late repair wrote: nothing, or it projects the
\* result that made the present version.
LEMMA Repaired ==
    ASSUME IInv, NEW r \in unprojected,
           Upsert(r, r.version, r.mark, FALSE, IF Late(r) THEN "late" ELSE "command"),
           unprojected' = unprojected \ {r}, UNCHANGED record
    PROVE  /\ row' \in Row /\ row'.version <= record.version
           /\ row.version = record.version => row'.version = record.version
           /\ row.known => row'.known
           /\ row'.by # "late" =>
                 /\ row.by # "late" /\ (row.version = record.version => row' = row)
                 /\ (row' = row /\ r.version < row.version)
                    \/ /\ ~row.deleted /\ row.version < r.version
                       /\ r.version = record.version /\ row'.seen = FALSE
                       /\ row'.known /\ ~row'.deleted /\ row'.id = r.id /\ row'.text = r.text
                       /\ row'.command = r.command /\ row'.version = r.version
           /\ Repairs'
<1> DEFINE by == IF Late(r) THEN "late" ELSE "command"
<1>1. /\ r \in Record /\ r.mark \in Mark \cup {NoMark} /\ by \in {"scan", "command", "late"}
  BY DEF IInv, TypeOK, Record
<1>2. /\ \A q \in unprojected : q.version \in Nat /\ q.live /\ q.version <= record.version
      /\ \A q \in unprojected : q.version > row.version => q.version = record.version
      /\ \A p, q \in unprojected : p.version = q.version => p = q
      /\ row.by = "command" => r.version # row.version
      /\ row.known /\ row.by # "none"
  BY DEF IInv, TypeOK, Repairs, Record, Version
<1>3. /\ row' \in Row /\ r.version \in Nat /\ row.version \in Nat /\ record.version \in Nat
      /\ row'.version <= record.version
      /\ row.version <= r.version =>
            /\ row'.known /\ ~row'.deleted /\ row'.id = r.id /\ row'.text = r.text
            /\ row'.command = r.command /\ row'.version = r.version
            /\ row'.seen = FALSE /\ row'.by = by
      /\ ~(row.version <= r.version) => row' = row
  BY <1>1, <1>2, Upserted
<1>4. row.by \in {"none", "scan", "command", "late"}
  BY DEF IInv, TypeOK, Row
<1>5. CASE ~(row.version <= r.version)
  <2>1. row' = row /\ r.version < row.version
    BY <1>3, <1>5
  <2>2. Repairs'
    BY <1>2, <2>1 DEF IInv, Repairs
  <2> QED
    BY <1>2, <1>3, <2>1, <2>2
<1>6. CASE row.version <= r.version
  <2>1. Repairs'
    BY <1>2, <1>3, <1>6 DEF Repairs
  <2>2. by # "late" => /\ ~Late(r) /\ by = "command"
    OBVIOUS
  <2>3. ~Late(r) => ~row.deleted /\ row.by # "late" /\ row.version # r.version
    BY <1>2, <1>4 DEF Late
  <2>4. row'.by = by
    BY <1>3, <1>6
  <2> HIDE DEF by
  <2>5. row'.by # "late" => ~row.deleted /\ row.by # "late" /\ row.version < r.version
                            /\ r.version = record.version
    BY <1>2, <1>3, <1>6, <2>2, <2>3, <2>4
  <2> QED
    BY <1>2, <1>3, <1>6, <2>1, <2>5
<1> QED
  BY <1>5, <1>6

LEMMA RepairSteps ==
    ASSUME IInv, RepairProjects
    PROVE  IInv'
<1>1. PICK r \in unprojected :
        /\ job.phase # "finish"
        /\ Upsert(r, r.version, r.mark, FALSE, IF Late(r) THEN "late" ELSE "command")
        /\ unprojected' = unprojected \ {r}
        /\ UNCHANGED <<record, ready, webhook, changes, job, faults>>
  BY DEF RepairProjects
<1>2. /\ row' \in Row /\ row'.version <= record.version
      /\ row.version = record.version => row'.version = record.version
      /\ row.known => row'.known
      /\ row'.by # "late" =>
            /\ row.by # "late" /\ (row.version = record.version => row' = row)
            /\ (row' = row /\ r.version < row.version)
               \/ /\ ~row.deleted /\ row.version < r.version
                  /\ r.version = record.version /\ row'.seen = FALSE
                  /\ row'.known /\ ~row'.deleted /\ row'.id = r.id /\ row'.text = r.text
                  /\ row'.command = r.command /\ row'.version = r.version
      /\ Repairs'
  BY <1>1, Repaired
<1>3. /\ record.version \in Nat /\ row.version \in Nat /\ r.version \in Nat
      /\ row.version <= record.version
  BY DEF IInv, TypeOK, Record, Row, Version
<1>4. /\ row.known
      /\ \A q \in unprojected : r.version = q.version => r = q
  BY DEF IInv, Repairs
<1>5. TypeOK'
  BY <1>1, <1>2 DEF IInv, TypeOK
<1>6. Counted' /\ Cursors'
  BY <1>1 DEF IInv, Counted, Cursors, Scanning
<1>7. Jobs'
  BY <1>1, <1>2 DEF IInv, Jobs
<1>8. row'.by # "late" /\ Follows => Follows'
  <2> SUFFICES ASSUME row'.by # "late", Follows PROVE Follows'
    OBVIOUS
  <2>1. CASE row' = row /\ r.version < row.version
    BY <1>1, <1>3, <2>1 DEF Follows, Same, Current
  <2>2. CASE ~(row' = row /\ r.version < row.version)
    <3>1. /\ ~row.deleted /\ row.version < r.version /\ r.version = record.version
          /\ row'.known /\ ~row'.deleted /\ row'.id = r.id /\ row'.text = r.text
          /\ row'.command = r.command /\ row'.version = r.version
      BY <1>2, <2>2
    <3>2. record.live /\ ~Current
      BY <1>3, <1>4, <3>1 DEF Follows, Current
    <3>3. r = record
      BY <1>4, <3>1, <3>2 DEF Follows
    <3> QED
      BY <1>1, <3>1, <3>2, <3>3 DEF Follows, Same, Current
  <2> QED
    BY <2>1, <2>2
<1>9. Kept'
  BY <1>1, <1>2, <1>8 DEF IInv, Kept
<1>10. Scans'
  <2>1. Fresh' <=> Fresh
    BY <1>1 DEF Fresh, Scanning
  <2>2. ASSUME Fresh, row'.by # "late", job.phase \in {"fetch", "restore", "commit"}
        PROVE  Follows'
    BY <1>2, <1>8, <2>2 DEF IInv, Scans
  <2>3. ASSUME Fresh, row'.by # "late", job.phase = "missing"
        PROVE  IF record.live THEN (Same /\ Current)' /\ row'.seen ELSE ~row'.seen
    <3>1. IF record.live THEN Same /\ Current /\ row.seen ELSE ~row.seen
      BY <1>2, <2>3 DEF IInv, Scans
    <3> QED
      BY <1>1, <1>2, <2>3, <3>1 DEF Same, Current
  <2>4. ASSUME Fresh, row'.by # "late", job.phase = "tombstone"
        PROVE  IF record.live THEN (Same /\ Current)' /\ ~job.missing
                              ELSE job.missing \/ (row'.known => row'.deleted)
    <3>1. IF record.live THEN Same /\ Current /\ ~job.missing
                         ELSE job.missing \/ (row.known => row.deleted)
      BY <1>2, <2>4 DEF IInv, Scans
    <3> QED
      BY <1>1, <1>2, <1>4, <2>4, <3>1 DEF Same, Current
  <2>5. ASSUME Fresh, job.phase \in {"inspect", "patch", "project"}
        PROVE  job.found = record /\ job.id = record.id
    BY <2>5 DEF IInv, Scans
  <2>6. record' = record /\ job' = job
    BY <1>1
  <2> QED
    BY <2>1, <2>2, <2>3, <2>4, <2>5, <2>6 DEF Scans
<1> QED
  BY <1>2, <1>5, <1>6, <1>7, <1>9, <1>10 DEF IInv

-----------------------------------------------------------------------------
(* Theorems *)

LEMMA Inductive == IInv /\ [Next]_vars => IInv'
<1> SUFFICES ASSUME IInv, [Next]_vars PROVE IInv'
  OBVIOUS
<1>1. CASE Environment
  BY <1>1, PeopleSteps, EndSteps DEF Environment
<1>2. CASE Command
  BY <1>2, ReadSteps, WriteSteps, FinishSteps DEF Command
<1>3. CASE RepairProjects
  BY <1>3, RepairSteps
<1>4. CASE Ingest
  BY <1>4, SynchronizeSteps, FetchSteps, ListSteps, InspectSteps, EndSteps, RenameSteps,
     PatchAnswers, ProjectSteps, FindSteps, TombstoneSteps, RestoreSteps, CommitSteps DEF Ingest
<1>5. CASE Faults
  BY <1>5, PatchLost, EndSteps DEF Faults
<1>6. CASE UNCHANGED vars
  BY <1>6 DEF vars, IInv, TypeOK, Counted, Jobs, Cursors, Repairs, Kept, Scans, Fresh, Scanning,
              Follows, Same, Current
<1> QED
  BY <1>1, <1>2, <1>3, <1>4, <1>5, <1>6 DEF Next

LEMMA Invariance == Spec => []IInv
BY Initially, Inductive, PTL DEF Spec

(***************************************************************************)
(* The record, its row and the job of the queue have the types stated, the *)
(* committed cursor is never past the log of changes, and the row is never *)
(* ahead of the record.                                                    *)
(***************************************************************************)
THEOREM TypeCorrect == Spec => []TypeOK
<1>1. IInv => TypeOK
  BY DEF IInv
<1> QED
  BY <1>1, Invariance, PTL

(***************************************************************************)
(* The row is the Airtable record whenever the cursor is committed up to   *)
(* the last change and the tenant is ready, unless a late repair wrote it: *)
(* synchronize of base-authority.ts and fullScan of reconciliation.ts skip *)
(* no edit, deletion or renaming.                                          *)
(***************************************************************************)
THEOREM CommittedCursorsMatch == Spec => []CommittedMatches
<1>1. IInv => CommittedMatches
  BY DEF IInv, Kept, Follows, Same, Current, CommittedMatches, Committed, Matches
<1> QED
  BY <1>1, Invariance, PTL
=============================================================================
