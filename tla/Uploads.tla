------------------------------- MODULE Uploads -------------------------------
(***************************************************************************)
(* One uploaded file from its intent to its removal: uploads/service.ts.   *)
(* The rows file_objects and file_upload_intents are in D1 and the object  *)
(* in R2, so no two of them change together.                               *)
(*                                                                         *)
(* Its content is what the checksum of the intent says (R2 refuses any     *)
(* other), and is of the declared type or not (good).  Time is counted in  *)
(* units of five minutes.                                                  *)
(***************************************************************************)
EXTENDS Naturals

CONSTANTS
    Stores,             \* calls of store with the file's token
    Readers,            \* calls of finalize and of download
    Cleaners,           \* concurrent runs of cleanupExpired
    None,
    maxUploadAttempts,
    TerminalInterval    \* terminalReconciliationIntervalMs

ASSUME NoneAssumption == None \notin Stores \cup Cleaners
ASSUME BoundsAssumption ==
    maxUploadAttempts \in Nat \ {0} /\ TerminalInterval \in Nat \ {0}

VARIABLES
    file,       \* file_objects: its status and the R2 version finalize recorded
    intent,     \* file_upload_intents: its status, lease and attempts
    timer,      \* age since creation, time left of the lease, and until the next
                \* removal of a terminal file's object is due
    bucket,     \* the R2 object: the store that put it, or None
    put,        \* what became of the put of each store
    store, reader, cleaner,
    good,       \* whether the content is of the declared type
    lost        \* whether the object was lost outside the program

rows == <<file, intent, timer>>
calls == <<store, reader, cleaner>>
vars == <<rows, bucket, put, calls, good, lost>>

uploadCapabilityLifetime == 1
uploadCleanupGrace == 3
uploadLease == 4

Open == {"issued", "uploading", "uploaded", "cleanup"}
IntentStatus == Open \cup {"finalized", "expired", "failed"}

Idle == [phase |-> "idle"]
Done == [phase |-> "done"]

StorePhases == {"put", "head", "scrub", "reject", "complete", "orphan", "requeue"}
ReaderPhases == {"head", "sample", "commit", "get", "discard", "mark", "requeue"}
CleanerPhases == {"idle", "claim", "delete", "complete", "remove", "record"}

File == [status: {"pending", "ready", "quarantined", "deleted"}, version: Stores \cup {None}]
Intent == [status: IntentStatus, lease: Stores \cup Cleaners \cup {None},
           attempts: 0 .. maxUploadAttempts]
Timer == [age: 0 .. uploadCleanupGrace, lease: 0 .. uploadLease, rest: 0 .. TerminalInterval]
StoreCall == [phase: StorePhases, attempt: 1 .. maxUploadAttempts] \cup {Idle, Done}
ReaderCall == [phase: ReaderPhases, saw: Stores \cup {None}] \cup {Idle, Done}

TypeOK ==
    /\ file \in File
    /\ intent \in Intent
    /\ timer \in Timer
    /\ bucket \in Stores \cup {None}
    /\ put \in [Stores -> {"none", "sent", "stored", "refused"}]
    /\ store \in [Stores -> StoreCall]
    /\ reader \in [Readers -> ReaderCall]
    /\ cleaner \in [Cleaners -> CleanerPhases]
    /\ good \in BOOLEAN /\ lost \in BOOLEAN
    /\ intent.status = "uploading" => intent.lease # None

\* createIntent, once the quota and the number of open intents allow it.
Init ==
    /\ file = [status |-> "pending", version |-> None]
    /\ intent = [status |-> "issued", lease |-> None, attempts |-> 0]
    /\ timer = [age |-> 0, lease |-> 0, rest |-> 0]
    /\ bucket = None
    /\ put = [s \in Stores |-> "none"]
    /\ store = [s \in Stores |-> Idle]
    /\ reader = [r \in Readers |-> Idle]
    /\ cleaner = [k \in Cleaners |-> "idle"]
    /\ good \in BOOLEAN
    /\ lost = FALSE

-----------------------------------------------------------------------------
(***************************************************************************)
(* The statements several calls share.                                     *)
(***************************************************************************)
IntentBecomes(status) == [intent EXCEPT !.status = status, !.lease = None]

\* #queueCleanup: whatever the file's state, its object is to be removed.  From
\* then on only cleanup_after counts, so age stands for it.
QueueCleanup ==
    /\ intent' = IntentBecomes("cleanup")
    /\ file' = [file EXCEPT !.status = "pending"]
    /\ timer' = [timer EXCEPT !.age = uploadCleanupGrace, !.lease = 0, !.rest = 0]

\* bucket.delete: it throws or not, and may take effect either way.
DeleteThrows == \E left \in {bucket, None} : bucket' = left

LeaseFree == intent.lease = None \/ timer.lease = 0

-----------------------------------------------------------------------------
(***************************************************************************)
(* store.  Its first read turns a call away earlier than the claim would.  *)
(***************************************************************************)
StoreGoes(s, phase) == store' = [store EXCEPT ![s].phase = phase]
StoreEnds(s) == store' = [store EXCEPT ![s] = Done]

\* Mutant: an upload in progress can be started anew.
ClaimableAgain ==
    /\ intent.attempts < maxUploadAttempts
    /\ intent.status \in {"issued", "uploading"}

Claimable ==
    /\ intent.attempts < maxUploadAttempts
    /\ \/ intent.status = "issued"
       \/ intent.status = "uploading" /\ timer.lease = 0

StoreClaims(s) ==
    /\ store[s] = Idle
    /\ file.status = "pending"
    /\ timer.age < uploadCapabilityLifetime
    /\ Claimable
    /\ intent' = [status |-> "uploading", lease |-> s, attempts |-> intent.attempts + 1]
    /\ timer' = [timer EXCEPT !.lease = uploadLease]
    /\ store' = [store EXCEPT ![s] = [phase |-> "put", attempt |-> intent.attempts + 1]]
    /\ put' = [put EXCEPT ![s] = "sent"]
    /\ UNCHANGED <<file, bucket, reader, cleaner, good, lost>>

\* R2 gets to the put, at once, late or never: only where there is no object.
PutLands(s) ==
    /\ put[s] = "sent"
    /\ IF bucket = None
       THEN bucket' = s /\ put' = [put EXCEPT ![s] = "stored"]
       ELSE bucket' = bucket /\ put' = [put EXCEPT ![s] = "refused"]
    /\ UNCHANGED <<rows, calls, good, lost>>

PutAnswered(s) ==
    /\ store[s].phase = "put" /\ put[s] \in {"stored", "refused"}
    /\ StoreGoes(s, IF put[s] = "stored" THEN "complete" ELSE "head")
    /\ UNCHANGED <<rows, bucket, put, reader, cleaner, good, lost>>

PutThrows(s) ==
    /\ store[s].phase \in {"put", "head"}
    /\ StoreGoes(s, "reject")
    /\ UNCHANGED <<rows, bucket, put, reader, cleaner, good, lost>>

\* Another attempt's object is as good as one's own.
StoreHeads(s) ==
    /\ store[s].phase = "head"
    /\ StoreGoes(s, IF bucket # None THEN "complete" ELSE "scrub")
    /\ UNCHANGED <<rows, bucket, put, reader, cleaner, good, lost>>

StoreScrubs(s) ==
    /\ store[s].phase = "scrub"
    /\ \/ bucket' = None /\ StoreGoes(s, "reject")
       \/ DeleteThrows /\ StoreEnds(s)
    /\ UNCHANGED <<rows, put, reader, cleaner, good, lost>>

\* Mutant: the lease is given back and the intent stays in progress.
RejectedUnleased(s) ==
    /\ intent' = IF intent.status = "uploading" /\ intent.lease = s
                 THEN [intent EXCEPT !.lease = None] ELSE intent
    /\ UNCHANGED <<file, timer>>

\* Mutant: the file is left open when its last attempt fails.
RejectedIntentOnly(s) ==
    LET next == IF store[s].attempt < maxUploadAttempts THEN "issued" ELSE "failed"
    IN  /\ intent' = IF intent.status = "uploading" /\ intent.lease = s
                     THEN IntentBecomes(next) ELSE intent
        /\ UNCHANGED <<file, timer>>

\* #recordRejectedAttempt.
Rejected(s) ==
    LET mine == intent.status = "uploading" /\ intent.lease = s
        last == store[s].attempt = maxUploadAttempts
        fails == mine /\ last
    IN  /\ intent' = CASE fails -> IntentBecomes("failed")
                       [] mine /\ ~last -> IntentBecomes("issued")
                       [] OTHER -> intent
        /\ timer' = IF fails THEN [timer EXCEPT !.lease = 0, !.rest = TerminalInterval] ELSE timer
        /\ file' = IF last /\ file.status = "pending" /\ intent'.status = "failed"
                   THEN [file EXCEPT !.status = "deleted"] ELSE file

StoreRejects(s) ==
    /\ store[s].phase = "reject"
    /\ Rejected(s)
    /\ StoreEnds(s)
    /\ UNCHANGED <<bucket, put, reader, cleaner, good, lost>>

StoreCompletes(s) ==
    /\ store[s].phase = "complete"
    /\ IF intent.status = "uploading" /\ intent.lease = s
       THEN intent' = IntentBecomes("uploaded") /\ StoreEnds(s)
       ELSE intent' = intent /\ StoreGoes(s, "orphan")
    /\ UNCHANGED <<file, timer, bucket, put, reader, cleaner, good, lost>>

StoreUndoes(s) ==
    /\ store[s].phase = "orphan"
    /\ \/ bucket' = None /\ StoreEnds(s)
       \/ DeleteThrows /\ StoreGoes(s, "requeue")
    /\ UNCHANGED <<rows, put, reader, cleaner, good, lost>>

StoreRequeues(s) ==
    /\ store[s].phase = "requeue"
    /\ QueueCleanup
    /\ StoreEnds(s)
    /\ UNCHANGED <<bucket, put, reader, cleaner, good, lost>>

StoreDies(s) ==
    /\ store[s].phase \in StorePhases
    /\ StoreEnds(s)
    /\ UNCHANGED <<rows, bucket, put, reader, cleaner, good, lost>>

-----------------------------------------------------------------------------
(***************************************************************************)
(* finalize and download.  Calls that find the file in another state than  *)
(* the one they need, and calls that are not allowed, leave no trace.      *)
(***************************************************************************)
ReaderGoes(r, phase) == reader' = [reader EXCEPT ![r].phase = phase]
ReaderEnds(r) == reader' = [reader EXCEPT ![r] = Done]

FinalizeReads(r) ==
    /\ reader[r] = Idle
    /\ file.status = "pending" /\ intent.status = "uploaded"
    /\ timer.age < uploadCleanupGrace
    /\ reader' = [reader EXCEPT ![r] = [phase |-> "head", saw |-> None]]
    /\ UNCHANGED <<rows, bucket, put, store, cleaner, good, lost>>

FinalizeHeads(r) ==
    /\ reader[r].phase = "head"
    /\ reader' = [reader EXCEPT ![r] =
                    [phase |-> IF bucket = None THEN "discard" ELSE "sample", saw |-> bucket]]
    /\ UNCHANGED <<rows, bucket, put, store, cleaner, good, lost>>

\* The first bytes, and for a presentation its directory.
FinalizeSamples(r) ==
    /\ reader[r].phase = "sample"
    /\ ReaderGoes(r, IF bucket # None /\ good THEN "commit" ELSE "discard")
    /\ UNCHANGED <<rows, bucket, put, store, cleaner, good, lost>>

\* cleanup_after is compared with the time the call began at, again.
Finalizable == file.status = "pending" /\ intent.status = "uploaded"

FinalizeCommits(r) ==
    /\ reader[r].phase = "commit"
    /\ IF Finalizable
       THEN /\ file' = [status |-> "ready", version |-> reader[r].saw]
            /\ intent' = IF intent.status = "uploaded" THEN IntentBecomes("finalized") ELSE intent
       ELSE UNCHANGED <<file, intent>>
    /\ ReaderEnds(r)
    /\ UNCHANGED <<timer, bucket, put, store, cleaner, good, lost>>

DownloadReads(r) ==
    /\ reader[r] = Idle
    /\ file.status = "ready"
    /\ reader' = [reader EXCEPT ![r] = [phase |-> "get", saw |-> file.version]]
    /\ UNCHANGED <<rows, bucket, put, store, cleaner, good, lost>>

\* An object of another version, or none, is not served.
DownloadGets(r) ==
    /\ reader[r].phase = "get"
    /\ IF bucket # None /\ bucket = reader[r].saw
       THEN ReaderEnds(r)
       ELSE ReaderGoes(r, "discard")
    /\ UNCHANGED <<rows, bucket, put, store, cleaner, good, lost>>

\* #quarantine.
ReaderDiscards(r) ==
    /\ reader[r].phase = "discard"
    /\ \/ bucket' = None /\ ReaderGoes(r, "mark")
       \/ DeleteThrows /\ ReaderGoes(r, "requeue")
    /\ UNCHANGED <<rows, put, store, cleaner, good, lost>>

Marked ==
    /\ file' = IF file.status \in {"pending", "ready"}
               THEN [file EXCEPT !.status = "quarantined"] ELSE file
    /\ IF intent.status # "expired"
       THEN /\ intent' = IntentBecomes("failed")
            /\ timer' = [timer EXCEPT !.lease = 0, !.rest = TerminalInterval]
       ELSE UNCHANGED <<intent, timer>>

ReaderMarks(r) ==
    /\ reader[r].phase = "mark"
    /\ Marked
    /\ ReaderEnds(r)
    /\ UNCHANGED <<bucket, put, store, cleaner, good, lost>>

ReaderRequeues(r) ==
    /\ reader[r].phase = "requeue"
    /\ QueueCleanup
    /\ ReaderEnds(r)
    /\ UNCHANGED <<bucket, put, store, cleaner, good, lost>>

ReaderDies(r) ==
    /\ reader[r].phase \in ReaderPhases
    /\ ReaderEnds(r)
    /\ UNCHANGED <<rows, bucket, put, store, cleaner, good, lost>>

-----------------------------------------------------------------------------
(***************************************************************************)
(* cleanupExpired, every hour, for this file.  The runs overlap if one is  *)
(* slow.                                                                   *)
(***************************************************************************)
CleanerGoes(k, phase) == cleaner' = [cleaner EXCEPT ![k] = phase]

\* Mutant: a lease that was never given back keeps the file for good.
DueUnleased ==
    /\ intent.status \in Open
    /\ timer.age = uploadCleanupGrace
    /\ intent.lease = None

Due ==
    /\ intent.status \in Open
    /\ timer.age = uploadCleanupGrace
    /\ LeaseFree

CleanerSelects(k) ==
    /\ cleaner[k] = "idle"
    /\ Due /\ file.status = "pending"
    /\ CleanerGoes(k, "claim")
    /\ UNCHANGED <<rows, bucket, put, store, reader, good, lost>>

CleanerClaims(k) ==
    /\ cleaner[k] = "claim"
    /\ IF Due
       THEN /\ intent' = [intent EXCEPT !.status = "cleanup", !.lease = k]
            /\ timer' = [timer EXCEPT !.lease = uploadLease]
            /\ CleanerGoes(k, "delete")
       ELSE UNCHANGED <<intent, timer>> /\ CleanerGoes(k, "idle")
    /\ UNCHANGED <<file, bucket, put, store, reader, good, lost>>

CleanerDeletes(k) ==
    /\ cleaner[k] = "delete"
    /\ bucket' = None
    /\ CleanerGoes(k, "complete")
    /\ UNCHANGED <<rows, put, store, reader, good, lost>>

\* The second statement looks at the intent without the lease, whoever set it.
CleanerCompletes(k) ==
    /\ cleaner[k] = "complete"
    /\ LET mine == intent.status = "cleanup" /\ intent.lease = k /\ file.status = "pending"
       IN  /\ intent' = IF mine THEN IntentBecomes("expired") ELSE intent
           /\ timer' = IF mine THEN [timer EXCEPT !.lease = 0, !.rest = TerminalInterval] ELSE timer
           /\ file' = IF file.status = "pending" /\ intent'.status = "expired"
                      THEN [file EXCEPT !.status = "deleted"] ELSE file
    /\ CleanerGoes(k, "idle")
    /\ UNCHANGED <<bucket, put, store, reader, good, lost>>

\* Mutant: only what was cleaned up is looked at again.
TerminalExpired == intent.status = "expired" /\ file.status = "deleted" /\ timer.rest = 0

Terminal ==
    /\ intent.status \in {"expired", "failed"}
    /\ file.status \in {"deleted", "quarantined"}
    /\ timer.rest = 0

\* #reconcileTerminalObjects.
CleanerReconciles(k) ==
    /\ cleaner[k] = "idle"
    /\ Terminal
    /\ CleanerGoes(k, "remove")
    /\ UNCHANGED <<rows, bucket, put, store, reader, good, lost>>

CleanerRemoves(k) ==
    /\ cleaner[k] = "remove"
    /\ bucket' = None
    /\ CleanerGoes(k, "record")
    /\ UNCHANGED <<rows, put, store, reader, good, lost>>

CleanerRecords(k) ==
    /\ cleaner[k] = "record"
    /\ timer' = IF intent.status \in {"expired", "failed"}
                THEN [timer EXCEPT !.rest = TerminalInterval] ELSE timer
    /\ CleanerGoes(k, "idle")
    /\ UNCHANGED <<file, intent, bucket, put, store, reader, good, lost>>

\* A delete throws, or the run ends anywhere.
CleanerFails(k) ==
    /\ cleaner[k] # "idle"
    /\ IF cleaner[k] \in {"delete", "remove"} THEN DeleteThrows ELSE bucket' = bucket
    /\ CleanerGoes(k, "idle")
    /\ UNCHANGED <<rows, put, store, reader, good, lost>>

-----------------------------------------------------------------------------
Less(n) == IF n = 0 THEN 0 ELSE n - 1

Tick ==
    /\ timer' = [age |-> IF timer.age = uploadCleanupGrace THEN timer.age ELSE timer.age + 1,
                 lease |-> Less(timer.lease), rest |-> Less(timer.rest)]
    /\ timer' # timer
    /\ UNCHANGED <<file, intent, bucket, put, calls, good, lost>>

\* The object is lost outside the program: what download guards against.
Lose ==
    /\ bucket # None /\ ~lost
    /\ bucket' = None
    /\ lost' = TRUE
    /\ UNCHANGED <<rows, put, calls, good>>

Store(s) ==
    \/ StoreClaims(s) \/ PutLands(s) \/ PutAnswered(s) \/ PutThrows(s) \/ StoreHeads(s)
    \/ StoreScrubs(s) \/ StoreRejects(s) \/ StoreCompletes(s) \/ StoreUndoes(s)
    \/ StoreRequeues(s) \/ StoreDies(s)

Reader(r) ==
    \/ FinalizeReads(r) \/ FinalizeHeads(r) \/ FinalizeSamples(r) \/ FinalizeCommits(r)
    \/ DownloadReads(r) \/ DownloadGets(r)
    \/ ReaderDiscards(r) \/ ReaderMarks(r) \/ ReaderRequeues(r) \/ ReaderDies(r)

Cleaner(k) ==
    \/ CleanerSelects(k) \/ CleanerClaims(k) \/ CleanerDeletes(k) \/ CleanerCompletes(k)
    \/ CleanerReconciles(k) \/ CleanerRemoves(k) \/ CleanerRecords(k) \/ CleanerFails(k)

Next ==
    \/ \E s \in Stores : Store(s)
    \/ \E r \in Readers : Reader(r)
    \/ \E k \in Cleaners : Cleaner(k)
    \/ Tick
    \/ Lose

Spec == Init /\ [][Next]_vars

\* Time passes and the cron comes every hour; an outage of R2, and runs that end
\* early, last only so long.  Nothing is assumed of the calls.
Fairness ==
    /\ WF_vars(Tick)
    /\ \A k \in Cleaners :
          /\ WF_vars(CleanerSelects(k) \/ CleanerReconciles(k))
          /\ SF_vars(CleanerClaims(k))
          /\ SF_vars(CleanerDeletes(k) \/ CleanerRemoves(k))
          /\ SF_vars(CleanerCompletes(k) \/ CleanerRecords(k))

FairSpec == Spec /\ Fairness

-----------------------------------------------------------------------------
(***************************************************************************)
(* Properties.                                                             *)
(***************************************************************************)
\* The two rows tell the same story, though most steps of a call touch one.
RowsAgree ==
    /\ file.status = "pending" <=> intent.status \in Open
    /\ file.status = "ready" <=> intent.status = "finalized"

\* What store or finalize has answered for is in R2, at the recorded version: no
\* late put, late removal or cleanup of any other call takes it away.
AnsweredIsStored ==
    /\ intent.status \in {"uploaded", "finalized"} /\ good /\ ~lost => bucket # None
    /\ file.status = "ready" /\ ~lost => bucket = file.version

\* An upload that is never finished gives its reservation back.
EveryFileSettles == file.status = "pending" ~> file.status # "pending"

\* R2 keeps no object of a file that did not become ready, however late it came.
ObjectsAreReclaimed ==
    bucket # None /\ file.status # "ready" ~> bucket = None \/ file.status = "ready"
=============================================================================
