------------------------- MODULE BaseAuthorityProofs -------------------------
(***************************************************************************)
(* Theorems about BaseAuthority for every number of commands, records,     *)
(* payloads, recoveries, side tasks and evictions.                         *)
(***************************************************************************)
EXTENDS BaseAuthority, FiniteSetTheorems, TLAPS

-----------------------------------------------------------------------------
(* The ledger row *)

\* Each UPDATE of authority_commands turns a row into a row (beginAttempt,
\* markOutcomeUnknown, deferOutcomeRecovery, persistAuthorityResult,
\* persistFailure, persistResponse).
LEMMA RowUpdates ==
    ASSUME NEW r \in Row
    PROVE  /\ Leased(r) \in Row /\ OutcomeUnknown(r) \in Row /\ Deferred(r) \in Row
           /\ AuthorityResult(r) \in Row /\ Failure(r) \in Row
           /\ \A st \in RowState, rp \in Response : Persisted(r, st, rp) \in Row
<1> USE DEF Row
<1>1. Leased(r) \in Row
    <2> DEFINE n == r.attempts + 1
    <2>1. n \in Nat
        OBVIOUS
    <2>2. Leased(r) = [r EXCEPT !.state = "leased", !.attempts = n, !.timer = "lease"]
        BY DEF Leased
    <2> QED
        <3> HIDE DEF n
        <3> QED
            BY <2>1, <2>2 DEF RowState, Timer
<1>2. OutcomeUnknown(r) \in Row
    BY DEF OutcomeUnknown, RowState
<1>3. Deferred(r) \in Row
    BY DEF Deferred, RowState, Timer
<1>4. AuthorityResult(r) \in Row
    BY DEF AuthorityResult, RowState, Timer
<1>5. Failure(r) \in Row
    BY DEF Failure, RowState, Timer
<1>6. ASSUME NEW st \in RowState, NEW rp \in Response PROVE Persisted(r, st, rp) \in Row
    <2>1. (IF r.response = "none" THEN rp ELSE r.response) \in Response
        OBVIOUS
    <2> QED
        BY <2>1 DEF Persisted
<1> QED
    BY <1>1, <1>2, <1>3, <1>4, <1>5, <1>6

\* A recovery job carries no payload, so Inserted may be asked to insert none.
LEMMA InsertedType == \A r \in Row, h \in Hash \cup {NoHash} : Inserted(r, h) \in Row
BY DEF Row, RowState, Inserted

\* The absent row is a value of the row type.
LEMMA BlankRowType == BlankRow \in Row
BY DEF BlankRow, Row, RowState, Timer, Response

\* recoverRow's dispatch always names a phase a task can be in.
LEMMA FirstPhaseType == \A r \in Row : FirstPhase(r) \in Phase \ {"idle"}
BY DEF FirstPhase, Phase

\* A freshly created object, empty Airtable and empty D1 are well typed.
LEMMA InitTypeOK == Init => TypeOK
<1> SUFFICES ASSUME Init PROVE TypeOK
    OBVIOUS
<1> USE BlankRowType DEF Init
<1>1. row \in [Command -> Row]
    OBVIOUS
<1>2. task \in [Slot -> Task]
    BY DEF Task
<1>3. worker \in [Worker -> [run : BOOLEAN, busy : BOOLEAN,
                             rows : Seq([cmd : Command, copy : Row])]]
    OBVIOUS
<1>4. queue \in Seq(Job)
    OBVIOUS
<1> QED
    BY <1>1, <1>2, <1>3, <1>4 DEF TypeOK, Slot

-----------------------------------------------------------------------------
(* Pieces of a step that several actions share *)

\* A slot that is not idle holds a job with a command, a row and an owner.
LEMMA ActiveTask ==
    ASSUME TypeOK, NEW s \in Slot, task[s].phase # "idle"
    PROVE  /\ task[s].cmd \in Command /\ task[s].copy \in Row
           /\ task[s].by \in {"client"} \cup Worker /\ task[s].kind \in Kind
           /\ task[s].phase \in Phase \ {"idle"}
BY DEF TypeOK, Task, Idle

\* The queue's own slot is one of the slots.
LEMMA BaseSlot == "base" \in Slot
BY DEF Slot

\* The same of the job at the head of baseQueue.
LEMMA ActiveBase ==
    ASSUME TypeOK, base.phase # "idle"
    PROVE  /\ base.cmd \in Command /\ base.copy \in Row
           /\ base.by \in {"client"} \cup Worker /\ base.kind \in Kind
BY ActiveTask, BaseSlot DEF base

\* An empty slot is a value of the task type.
LEMMA IdleType == Idle \in Task
BY DEF Task

\* Moving the running job to another phase and row keeps the slots well typed.
LEMMA ContinueType ==
    ASSUME TypeOK, base.phase # "idle",
           NEW ph \in Phase \ {"idle"}, NEW r \in Row, Continue(ph, r)
    PROVE  task' \in [Slot -> Task]
<1>1. base \in [phase : Phase \ {"idle"}, kind : Kind, cmd : Command,
                copy : Row, by : {"client"} \cup Worker]
    BY BaseSlot DEF TypeOK, Task, Idle, base
<1>2. [[base EXCEPT !.phase = ph] EXCEPT !.copy = r] \in Task
    BY <1>1 DEF Task
<1>3. task' = [task EXCEPT !["base"] = [[base EXCEPT !.phase = ph] EXCEPT !.copy = r]]
    BY BaseSlot DEF Continue, base, TypeOK
<1> QED
    BY <1>2, <1>3 DEF TypeOK

\* Recording an answer keeps the answers well typed.
LEMMA TellType ==
    ASSUME TypeOK, NEW c \in Command, NEW H \in SUBSET Hash,
           NEW a \in Answer, Tell(c, H, a)
    PROVE  told' \in [Command -> SUBSET (Hash \X Answer)]
<1>1. {<<h, a>> : h \in H} \in SUBSET (Hash \X Answer)
    OBVIOUS
<1> QED
    BY <1>1 DEF Tell, TypeOK

\* Settling the job's promise keeps its callers, the answers and the recoverPending
\* call that queued it well typed.
LEMMA SettleType ==
    ASSUME TypeOK, base.phase # "idle", NEW a, Settle(a)
    PROVE  /\ waiting' \in [Command -> SUBSET Hash]
           /\ told' \in [Command -> SUBSET (Hash \X Answer)]
           /\ worker' \in [Worker -> [run : BOOLEAN, busy : BOOLEAN,
                                      rows : Seq([cmd : Command, copy : Row])]]
<1>1. waiting' \in [Command -> SUBSET Hash]
    BY DEF Settle, TypeOK
<1>2. told' \in [Command -> SUBSET (Hash \X Answer)]
    <2>1. CASE base.kind # "failure" /\ a \in Answer
        <3>1. waiting[base.cmd] \in SUBSET Hash
            BY ActiveBase DEF TypeOK
        <3> QED
            BY <2>1, <3>1, ActiveBase, TellType DEF Settle
    <2>2. CASE ~(base.kind # "failure" /\ a \in Answer)
        BY <2>2 DEF Settle, TypeOK
    <2> QED
        BY <2>1, <2>2
<1>3. worker' \in [Worker -> [run : BOOLEAN, busy : BOOLEAN,
                              rows : Seq([cmd : Command, copy : Row])]]
    BY ZenonT(60) DEF Settle, TypeOK
<1> QED
    BY <1>1, <1>2, <1>3

-----------------------------------------------------------------------------
(* Type correctness, action by action *)

\* execute() up to its first await keeps every type.
LEMMA ExecuteTypeOK == TypeOK /\ Execute => TypeOK'
<1> SUFFICES ASSUME TypeOK, NEW c \in Command, NEW h \in Hash,
                    \/ ExecuteReplaysFailure(c, h) \/ ExecuteReplaysResponse(c, h)
                    \/ ExecuteJoins(c, h) \/ ExecuteEnqueues(c, h)
             PROVE  TypeOK'
    BY DEF Execute
<1> USE DEF airtableVars, storageVars, memoryVars, d1Vars
<1>1. CASE ExecuteReplaysFailure(c, h)
    <2>1. told' \in [Command -> SUBSET (Hash \X Answer)]
        BY <1>1, TellType DEF ExecuteReplaysFailure, Answer
    <2>2. task' \in [Slot -> Task]
        <3>1. CASE row[c].failureProjected
            BY <1>1, <3>1 DEF ExecuteReplaysFailure, TypeOK
        <3>2. CASE ~row[c].failureProjected
            <4>1. [phase |-> "failing", kind |-> "side", cmd |-> c,
                   copy |-> row[c], by |-> "client"] \in Task
                BY DEF Task, TypeOK, Phase, Kind
            <4>2. PICK s \in Side : task' = [task EXCEPT ![s] =
                     [phase |-> "failing", kind |-> "side", cmd |-> c,
                      copy |-> row[c], by |-> "client"]]
                BY <1>1, <3>2 DEF ExecuteReplaysFailure, Spawn
            <4> QED
                BY <4>1, <4>2 DEF TypeOK
        <3> QED
            BY <3>1, <3>2
    <2> QED
        BY <1>1, <2>1, <2>2 DEF ExecuteReplaysFailure, TypeOK
<1>2. CASE ExecuteReplaysResponse(c, h)
    <2>1. row[c].response \in Answer
        BY <1>2 DEF ExecuteReplaysResponse, TypeOK, Row, Response, Answer
    <2>2. told' \in [Command -> SUBSET (Hash \X Answer)]
        BY <1>2, <2>1, TellType DEF ExecuteReplaysResponse
    <2> QED
        BY <1>2, <2>2 DEF ExecuteReplaysResponse, TypeOK
<1>3. CASE ExecuteJoins(c, h)
    BY <1>3 DEF ExecuteJoins, TypeOK
<1>4. CASE ExecuteEnqueues(c, h)
    <2>1. [kind |-> "execute", cmd |-> c, copy |-> BlankRow,
           by |-> "client", hash |-> h] \in Job
        BY BlankRowType DEF Job, Kind
    <2>2. queue' \in Seq(Job)
        BY <1>4, <2>1 DEF ExecuteEnqueues, TypeOK
    <2>3. waiting' \in [Command -> SUBSET Hash]
        BY <1>4 DEF ExecuteEnqueues, TypeOK
    <2> QED
        BY <1>4, <2>2, <2>3 DEF ExecuteEnqueues, TypeOK
<1> QED
    BY <1>1, <1>2, <1>3, <1>4

\* executeDurably/recoverRow taking the next job keeps every type.
LEMMA StartJobTypeOK == TypeOK /\ StartJob => TypeOK'
<1> SUFFICES ASSUME TypeOK, StartJob PROVE TypeOK'
    OBVIOUS
<1> DEFINE j == Head(queue)
           subject == IF j.kind = "execute" THEN Inserted(row[j.cmd], j.hash) ELSE j.copy
<1>1. /\ j \in Job
      /\ queue' \in Seq(Job)
    BY DEF StartJob, TypeOK
<1>2. row[j.cmd] \in Row
    BY <1>1 DEF TypeOK, Job
<1>3. subject \in Row /\ row' \in [Command -> Row]
    <2>1. CASE j.kind = "execute"
        <3>1. subject \in Row
            BY <1>1, <1>2, <2>1, InsertedType DEF Job
        <3> QED
            BY <2>1, <3>1 DEF StartJob, TypeOK
    <2>2. CASE j.kind # "execute"
        BY <1>1, <2>2 DEF StartJob, TypeOK, Job
    <2> QED
        BY <2>1, <2>2
<1>4. task' \in [Slot -> Task]
    <2> DEFINE ph == IF j.kind = "failure" THEN "failing" ELSE FirstPhase(subject)
               t == [phase |-> ph, kind |-> j.kind, cmd |-> j.cmd,
                     copy |-> subject, by |-> j.by]
    <2>1. ph \in Phase \ {"idle"}
        BY <1>3, FirstPhaseType DEF Phase
    <2>2. j.kind \in Kind /\ j.cmd \in Command /\ j.by \in {"client"} \cup Worker
        BY <1>1 DEF Job
    <2>3. task' = [task EXCEPT !["base"] = t]
        BY DEF StartJob
    <2>4. t \in Task
        <3> HIDE DEF ph, subject, j
        <3> QED
            BY <1>3, <2>1, <2>2 DEF Task
    <2> QED
        <3> HIDE DEF t
        <3> QED
            BY <2>3, <2>4 DEF TypeOK
<1> HIDE DEF j, subject
<1> QED
    BY <1>1, <1>3, <1>4 DEF StartJob, TypeOK, airtableVars, d1Vars

\* A job that answers at once (from its stored response) keeps every type.
LEMMA AnswerTypeOK == TypeOK /\ Respond => TypeOK'
<1> USE DEF airtableVars, storageVars, d1Vars
<1>1. ASSUME TypeOK, Respond PROVE TypeOK'
    <2>1. base.phase # "idle"
        BY <1>1 DEF Respond
    <2>2. task' \in [Slot -> Task]
        <3>1. CASE base.copy.state = "complete"
            BY <1>1, <3>1, IdleType DEF Respond, TypeOK
        <3>2. CASE base.copy.state # "complete"
            <4> DEFINE t == [phase |-> "projecting", kind |-> "side", cmd |-> base.cmd,
                             copy |-> base.copy, by |-> "client"]
            <4>1. t \in Task
                BY <1>1, <2>1, ActiveBase DEF Task, Phase, Kind
            <4>2. PICK s \in Side : task' = [task EXCEPT !["base"] = Idle, ![s] = t]
                BY <1>1, <3>2 DEF Respond
            <4> QED
                <5> HIDE DEF t
                <5> QED
                    BY <1>1, <4>1, <4>2, IdleType DEF TypeOK
        <3> QED
            BY <3>1, <3>2
    <2> QED
        BY <1>1, <2>1, <2>2, SettleType DEF Respond, TypeOK
<1> QED
    BY <1>1

\* The row of the running job after one of its updates.
LEMMA ResultType ==
    ASSUME TypeOK, base.phase # "idle", ResultPersisted
    PROVE  /\ row' \in [Command -> Row] /\ task' \in [Slot -> Task]
           /\ UNCHANGED <<alarm, queue, worker, waiting, d1Vars, told, crashes>>
<1>1. row' \in [Command -> Row]
    BY ActiveBase, RowUpdates DEF ResultPersisted, TypeOK
<1>2. task' \in [Slot -> Task]
    BY <1>1, ActiveBase, ContinueType DEF ResultPersisted, Phase
<1> QED
    BY <1>1, <1>2 DEF ResultPersisted

\* The row of the running job after persistFailure.
LEMMA FailureType ==
    ASSUME TypeOK, base.phase # "idle", FailurePersisted
    PROVE  /\ row' \in [Command -> Row] /\ task' \in [Slot -> Task]
           /\ UNCHANGED <<alarm, queue, worker, waiting, d1Vars, told, crashes>>
<1>1. row' \in [Command -> Row]
    BY ActiveBase, RowUpdates DEF FailurePersisted, TypeOK
<1>2. task' \in [Slot -> Task]
    BY <1>1, ActiveBase, ContinueType DEF FailurePersisted, Phase
<1> QED
    BY <1>1, <1>2 DEF FailurePersisted

\* An Airtable write leaves a versioned record and one more landed write.
LEMMA WrittenType ==
    ASSUME TypeOK, NEW c \in Command
    PROVE  /\ Written(c) \in [Entity -> [version : Nat, last : Command \cup {NoCommand}]]
           /\ [landed EXCEPT ![c] = @ + 1] \in [Command -> Nat]
           /\ [wire EXCEPT ![c] = @ + 1] \in [Command -> Nat]
<1>1. WrittenVersion(c) \in Nat
    BY VersionAssumption DEF WrittenVersion
<1>2. [version |-> WrittenVersion(c), last |-> c] \in
         [version : Nat, last : Command \cup {NoCommand}]
    BY <1>1
<1>3. Written(c) \in [Entity -> [version : Nat, last : Command \cup {NoCommand}]]
    BY <1>2 DEF Written, TypeOK
<1>4. landed[c] + 1 \in Nat /\ wire[c] + 1 \in Nat
    BY DEF TypeOK
<1> QED
    BY <1>3, <1>4 DEF TypeOK

\* So does whatever became of a write whose answer was lost.
LEMMA LostWriteType ==
    ASSUME TypeOK, NEW c \in Command, LostWrite(c)
    PROVE  /\ rec' \in [Entity -> [version : Nat, last : Command \cup {NoCommand}]]
           /\ landed' \in [Command -> Nat] /\ wire' \in [Command -> Nat]
           /\ stray' = stray
<1>0. /\ rec \in [Entity -> [version : Nat, last : Command \cup {NoCommand}]]
      /\ landed \in [Command -> Nat] /\ wire \in [Command -> Nat]
    BY DEF TypeOK
<1>1. /\ stray' = stray
      /\ \/ rec' = Written(c) /\ landed' = [landed EXCEPT ![c] = @ + 1] /\ wire' = wire
         \/ rec' = rec /\ landed' = landed /\ wire' = wire
         \/ wire' = [wire EXCEPT ![c] = @ + 1] /\ rec' = rec /\ landed' = landed
    BY DEF LostWrite, airtableVars
<1>2. /\ Written(c) \in [Entity -> [version : Nat, last : Command \cup {NoCommand}]]
      /\ [landed EXCEPT ![c] = @ + 1] \in [Command -> Nat]
      /\ [wire EXCEPT ![c] = @ + 1] \in [Command -> Nat]
    BY WrittenType
<1> QED
    BY <1>0, <1>1, <1>2

\* attemptProvider, its read and its write keep every type.
LEMMA ProviderTypeOK == TypeOK /\ (BeginAttempt \/ Provider) => TypeOK'
<1> SUFFICES ASSUME TypeOK, BeginAttempt \/ Provider PROVE TypeOK'
    OBVIOUS
<1> USE DEF airtableVars, storageVars, d1Vars
<1>0. base.phase # "idle"
    BY DEF BeginAttempt, Provider, StoreReplays, StoreReadFails, StoreConflicts,
           StoreSends, WriteAnswered, WriteRefused, WriteUnanswered
<1>1. CASE BeginAttempt
    <2>1. row' \in [Command -> Row]
        BY <1>0, <1>1, ActiveBase, RowUpdates DEF BeginAttempt, TypeOK
    <2>2. task' \in [Slot -> Task]
        BY <1>0, <1>1, BlankRowType, ContinueType DEF BeginAttempt, Phase
    <2> QED
        BY <1>1, <2>1, <2>2 DEF BeginAttempt, TypeOK
<1>2. CASE StoreReplays
    BY <1>0, <1>2, ResultType DEF StoreReplays, TypeOK
<1>3. CASE StoreReadFails \/ StoreConflicts \/ WriteRefused
    BY <1>0, <1>3, FailureType DEF StoreReadFails, StoreConflicts, WriteRefused, TypeOK
<1>4. CASE StoreSends
    <2>1. task' \in [Slot -> Task]
        BY <1>0, <1>4, BlankRowType, ContinueType DEF StoreSends, Phase
    <2> QED
        BY <1>4, <2>1 DEF StoreSends, TypeOK
<1>5. CASE WriteAnswered
    <2>1. /\ rec' \in [Entity -> [version : Nat, last : Command \cup {NoCommand}]]
          /\ landed' \in [Command -> Nat]
        BY <1>0, <1>5, ActiveBase, WrittenType DEF WriteAnswered
    <2> QED
        BY <1>0, <1>5, <2>1, ResultType DEF WriteAnswered, TypeOK
<1>6. CASE WriteUnanswered
    <2>1. row' \in [Command -> Row]
        BY <1>0, <1>6, ActiveBase, RowUpdates DEF WriteUnanswered, TypeOK
    <2>2. task' \in [Slot -> Task]
        BY <1>0, <1>6, <2>1, ActiveBase, ContinueType DEF WriteUnanswered, Phase
    <2>3. /\ rec' \in [Entity -> [version : Nat, last : Command \cup {NoCommand}]]
          /\ landed' \in [Command -> Nat] /\ wire' \in [Command -> Nat] /\ stray' = stray
        BY <1>0, <1>6, ActiveBase, LostWriteType DEF WriteUnanswered
    <2> QED
        BY <1>6, <2>1, <2>2, <2>3 DEF WriteUnanswered, TypeOK
<1> QED
    BY <1>1, <1>2, <1>3, <1>4, <1>5, <1>6 DEF Provider

\* recoverProviderOutcome, in all its outcomes, keeps every type.
LEMMA RecoverTypeOK == TypeOK /\ Recover => TypeOK'
<1> SUFFICES ASSUME TypeOK, Recover PROVE TypeOK'
    OBVIOUS
<1> USE DEF airtableVars, storageVars, d1Vars
<1>0. base.phase # "idle"
    BY DEF Recover, RecoverReadFails, RecoverApplied, RecoverWaits,
           RecoverRetries, RecoverDefers
<1>1. CASE RecoverReadFails
    <2>1. alarm' \in BOOLEAN
        BY <1>1 DEF RecoverReadFails, RearmAfterError, RearmIfPending, TypeOK
    <2>2. task' \in [Slot -> Task]
        BY <1>1, IdleType DEF RecoverReadFails, EndBase, TypeOK
    <2> QED
        BY <1>0, <1>1, <2>1, <2>2, SettleType DEF RecoverReadFails, TypeOK
<1>2. CASE RecoverApplied
    BY <1>0, <1>2, ResultType DEF RecoverApplied, TypeOK
<1>3. CASE RecoverWaits
    <2>1. task' \in [Slot -> Task]
        BY <1>3, IdleType DEF RecoverWaits, EndBase, TypeOK
    <2> QED
        BY <1>0, <1>3, <2>1, SettleType DEF RecoverWaits, TypeOK
<1>4. CASE RecoverRetries
    <2>1. task' \in [Slot -> Task]
        BY <1>0, <1>4, ActiveBase, ContinueType DEF RecoverRetries, Phase
    <2> QED
        BY <1>4, <2>1 DEF RecoverRetries, TypeOK
<1>5. CASE RecoverDefers
    <2>1. task' \in [Slot -> Task]
        BY <1>5, IdleType DEF RecoverDefers, EndBase, TypeOK
    <2>2. row' \in [Command -> Row]
        BY <1>0, <1>5, ActiveBase, RowUpdates DEF RecoverDefers, TypeOK
    <2> QED
        BY <1>0, <1>5, <2>1, <2>2, SettleType DEF RecoverDefers, TypeOK
<1> QED
    BY <1>1, <1>2, <1>3, <1>4, <1>5 DEF Recover

\* Ending a task in any slot keeps the memory of the object well typed.
LEMMA SettleTaskType ==
    ASSUME TypeOK, NEW s \in Slot, task[s].phase # "idle", NEW a, SettleTask(s, a)
    PROVE  /\ task' \in [Slot -> Task]
           /\ waiting' \in [Command -> SUBSET Hash]
           /\ told' \in [Command -> SUBSET (Hash \X Answer)]
           /\ worker' \in [Worker -> [run : BOOLEAN, busy : BOOLEAN,
                                      rows : Seq([cmd : Command, copy : Row])]]
<1>1. task' \in [Slot -> Task]
    BY IdleType DEF SettleTask, TypeOK
<1>2. CASE s = "base"
    BY <1>1, <1>2, SettleType DEF SettleTask, base
<1>3. CASE s # "base"
    BY <1>1, <1>3 DEF SettleTask, TypeOK
<1> QED
    BY <1>2, <1>3

\* The response finishProjection stores is a response.
LEMMA ReplyType ==
    ASSUME TypeOK, NEW s \in Slot, task[s].phase # "idle", NEW r \in Response
    PROVE  Reply(s, r) \in Response
BY ActiveTask DEF Reply, Row

\* persistResponse, with the reply of the task, keeps the ledger well typed.
LEMMA PersistedType ==
    ASSUME TypeOK, NEW s \in Slot, task[s].phase # "idle",
           NEW st \in RowState, NEW rp \in Response
    PROVE  [row EXCEPT ![task[s].cmd] = Persisted(@, st, Reply(s, rp))]
               \in [Command -> Row]
<1>1. Reply(s, rp) \in Response
    BY ReplyType
<1>2. row[task[s].cmd] \in Row
    BY ActiveTask DEF TypeOK
<1>3. Persisted(row[task[s].cmd], st, Reply(s, rp)) \in Row
    BY <1>1, <1>2, RowUpdates
<1> QED
    BY <1>3 DEF TypeOK

\* A task that changes phase stays a task.
LEMMA PhaseChangeType ==
    ASSUME TypeOK, NEW s \in Slot, task[s].phase # "idle", NEW ph \in Phase \ {"idle"}
    PROVE  [task EXCEPT ![s].phase = ph] \in [Slot -> Task]
<1>1. task[s] \in [phase : Phase \ {"idle"}, kind : Kind, cmd : Command,
                   copy : Row, by : {"client"} \cup Worker]
    BY DEF TypeOK, Task, Idle
<1>2. [task[s] EXCEPT !.phase = ph] \in Task
    BY <1>1 DEF Task
<1> QED
    BY <1>2 DEF TypeOK

\* finishProjection's catch keeps the ledger and the slots well typed.
LEMMA ReportingType ==
    ASSUME TypeOK, NEW s \in Slot, task[s].phase # "idle", ToReporting(s)
    PROVE  row' \in [Command -> Row] /\ task' \in [Slot -> Task]
<1>1. "projection_pending" \in RowState /\ "repair" \in Response
      /\ "reporting" \in Phase \ {"idle"}
    BY DEF RowState, Response, Phase
<1> QED
    BY <1>1, PersistedType, PhaseChangeType DEF ToReporting

\* projector.commit's batch keeps the D1 rows well typed.
LEMMA BatchType ==
    ASSUME TypeOK, NEW c \in Command, NEW rp, ProjectionBatch(c, rp)
    PROVE  /\ idem' \in [Command -> {"none", "committed", "repaired", "failed"}]
           /\ proj' \in [Entity -> [version : Nat, by : Command \cup {NoCommand}]]
<1>1. [version |-> WrittenVersion(c), by |-> c] \in
         [version : Nat, by : Command \cup {NoCommand}]
    BY VersionAssumption DEF WrittenVersion
<1>2. idem' \in [Command -> {"none", "committed", "repaired", "failed"}]
    BY DEF ProjectionBatch, TypeOK
<1>3. proj' \in [Entity -> [version : Nat, by : Command \cup {NoCommand}]]
    BY <1>1 DEF ProjectionBatch, TypeOK
<1> QED
    BY <1>2, <1>3

\* Every await of finishProjection and finishFailureProjection keeps every type.
LEMMA ProjectionTypeOK == ASSUME TypeOK, NEW s \in Slot, Projection(s) PROVE TypeOK'
<1> USE DEF airtableVars, storageVars, d1Vars
<1>0. task[s].phase # "idle"
    BY DEF Projection, ProjectCommits, ProjectDrainFails, ProjectFails,
           FinishProjection, ReportRepair, FailureProjects, FailureProjectionFails
<1>00. task[s].cmd \in Command
    BY <1>0, ActiveTask
<1>1. CASE ProjectCommits(s)
    <2>1. task' \in [Slot -> Task]
        BY <1>0, <1>1, PhaseChangeType DEF ProjectCommits, Phase
    <2>2. /\ idem' \in [Command -> {"none", "committed", "repaired", "failed"}]
          /\ proj' \in [Entity -> [version : Nat, by : Command \cup {NoCommand}]]
        BY <1>00, <1>1, BatchType DEF ProjectCommits
    <2> QED
        BY <1>1, <2>1, <2>2 DEF ProjectCommits, TypeOK
<1>2. CASE ProjectDrainFails(s)
    <2>1. row' \in [Command -> Row] /\ task' \in [Slot -> Task]
        BY <1>0, <1>2, ReportingType DEF ProjectDrainFails
    <2>2. /\ idem' \in [Command -> {"none", "committed", "repaired", "failed"}]
          /\ proj' \in [Entity -> [version : Nat, by : Command \cup {NoCommand}]]
        BY <1>00, <1>2, BatchType DEF ProjectDrainFails
    <2> QED
        BY <1>2, <2>1, <2>2 DEF ProjectDrainFails, TypeOK
<1>3. CASE ProjectFails(s)
    BY <1>0, <1>3, ReportingType DEF ProjectFails, TypeOK
<1>4. CASE FinishProjection(s)
    <2>1. "complete" \in RowState /\ "committed" \in Response
        BY DEF RowState, Response
    <2>2. row' \in [Command -> Row]
        BY <1>0, <1>4, <2>1, PersistedType DEF FinishProjection
    <2>3. repair' \in [Command -> {"none", "pending", "complete"}]
        BY <1>4 DEF FinishProjection, TypeOK
    <2>4. alarm' \in BOOLEAN
        BY <1>4 DEF FinishProjection, TypeOK
    <2> QED
        BY <1>0, <1>4, <2>2, <2>3, <2>4, SettleTaskType DEF FinishProjection, TypeOK
<1>5. CASE ReportRepair(s)
    <2>1. repair' \in [Command -> {"none", "pending", "complete"}]
        BY <1>5 DEF ReportRepair, TypeOK
    <2> QED
        BY <1>0, <1>5, <2>1, SettleTaskType DEF ReportRepair, TypeOK
<1>6. CASE FailureProjects(s)
    <2>1. row' \in [Command -> Row]
        <3> DEFINE r == [row[task[s].cmd] EXCEPT !.failureProjected = TRUE]
        <3>1. r \in Row
            <4>1. row[task[s].cmd] \in Row
                BY <1>00 DEF TypeOK
            <4> QED
                BY <4>1 DEF Row
        <3>2. row' = [row EXCEPT ![task[s].cmd] = r]
            BY <1>00, <1>6 DEF FailureProjects, TypeOK
        <3> HIDE DEF r
        <3> QED
            BY <3>1, <3>2 DEF TypeOK
    <2>2. idem' \in [Command -> {"none", "committed", "repaired", "failed"}]
        BY <1>6 DEF FailureProjects, TypeOK
    <2> QED
        BY <1>0, <1>6, <2>1, <2>2, SettleTaskType DEF FailureProjects, TypeOK
<1>7. CASE FailureProjectionFails(s)
    <2>1. alarm' \in BOOLEAN
        BY <1>7 DEF FailureProjectionFails, RearmIfPending, TypeOK
    <2> QED
        BY <1>0, <1>7, <2>1, SettleTaskType DEF FailureProjectionFails, TypeOK
<1> QED
    BY <1>1, <1>2, <1>3, <1>4, <1>5, <1>6, <1>7 DEF Projection

\* What one turn of recoverPending's loop does to the queue and to its call.
LEMMA AdvanceType ==
    ASSUME TypeOK, NEW w \in Worker, NEW rows \in Seq([cmd : Command, copy : Row]),
           Advance(w, rows)
    PROVE  /\ queue' \in Seq(Job)
           /\ worker' \in [Worker -> [run : BOOLEAN, busy : BOOLEAN,
                                      rows : Seq([cmd : Command, copy : Row])]]
<1> DEFINE R == [cmd : Command, copy : Row]
           W == [run : BOOLEAN, busy : BOOLEAN, rows : Seq(R)]
           ready == {i \in 1..Len(rows) : ~InFlight(rows[i].cmd)}
<1>0. queue \in Seq(Job) /\ worker \in [Worker -> W] /\ rows \in Seq(R)
    BY DEF TypeOK
<1>1. CASE ready = {}
    <2>1. [run |-> TRUE, busy |-> FALSE, rows |-> <<>>] \in W
        OBVIOUS
    <2> QED
        BY <1>0, <1>1, <2>1 DEF Advance
<1>2. CASE ready # {}
    <2>1. PICK i \in 1..Len(rows) :
            /\ queue' = Append(queue,
                  [kind |-> IF rows[i].copy.state = "failed"
                            THEN "failure" ELSE "recover",
                   cmd |-> rows[i].cmd, copy |-> rows[i].copy,
                   by |-> w, hash |-> NoHash])
            /\ worker' = [worker EXCEPT ![w] =
                  [run |-> TRUE, busy |-> TRUE,
                   rows |-> SubSeq(rows, i + 1, Len(rows))]]
        BY <1>2 DEF Advance
    <2>2. rows[i] \in R /\ SubSeq(rows, i + 1, Len(rows)) \in Seq(R)
        <3> HIDE DEF R
        <3> QED
            BY <1>0
    <2>3. rows[i].cmd \in Command /\ rows[i].copy \in Row
        BY <2>2
    <2>4. [kind |-> IF rows[i].copy.state = "failed" THEN "failure" ELSE "recover",
           cmd |-> rows[i].cmd, copy |-> rows[i].copy,
           by |-> w, hash |-> NoHash] \in Job
        BY <2>3 DEF Job, Kind
    <2>5. [run |-> TRUE, busy |-> TRUE, rows |-> SubSeq(rows, i + 1, Len(rows))] \in W
        BY <2>2
    <2> QED
        BY <1>0, <2>1, <2>4, <2>5
<1> QED
    BY <1>1, <1>2

\* The selected rows are rows of the ledger: finitely many, each with its key.
LEMMA SelectionsType ==
    ASSUME TypeOK, NEW rows \in Selections
    PROVE  rows \in Seq([cmd : Command, copy : Row])
<1> DEFINE due == {c \in Command : Due(row[c])}
           copies == {row[c] : c \in due}
           R == [cmd : Command, copy : Row]
           n == Cardinality(due)
<1>1. IsFiniteSet(due)
    BY CommandAssumption, FS_Subset
<1>2. n \in Nat
    BY <1>1, FS_CardinalityType
<1>3. rows \in [1..Cardinality(due) -> [cmd : due, copy : copies]]
    BY DEF Selections
<1>4. [cmd : due, copy : copies] \subseteq [cmd : Command, copy : Row]
    <2>1. due \subseteq Command /\ copies \subseteq Row
        BY DEF TypeOK
    <2> HIDE DEF due, copies
    <2> QED
        BY <2>1
<1>5. rows \in [1..n -> R]
    <2> HIDE DEF due, copies
    <2> QED
        BY <1>3, <1>4
<1> HIDE DEF n, R
<1>6. rows \in Seq(R)
    BY <1>2, <1>5
<1> QED
    BY <1>6 DEF R

\* recoverPending and alarm: starting, going on and ending.
LEMMA RecoveryTypeOK ==
    TypeOK /\ (AlarmFires \/ \E w \in Worker : Pass(w)) => TypeOK'
<1> SUFFICES ASSUME TypeOK,
                    \/ AlarmFires
                    \/ \E w \in Worker : RecoverPending(w) \/ RecoverNext(w) \/ RecoverEnds(w)
             PROVE  TypeOK'
    BY DEF Pass
<1> USE DEF airtableVars, storageVars, d1Vars
<1>1. CASE AlarmFires
    <2>1. "alarm" \in Worker
        BY DEF Worker
    <2>2. PICK rows \in Selections : Advance("alarm", rows)
        BY <1>1 DEF AlarmFires
    <2> QED
        BY <1>1, <2>1, <2>2, SelectionsType, AdvanceType DEF AlarmFires, TypeOK
<1>2. ASSUME NEW w \in Worker, RecoverPending(w) PROVE TypeOK'
    <2>1. PICK rows \in Selections : Advance(w, rows)
        BY <1>2 DEF RecoverPending
    <2> QED
        BY <1>2, <2>1, SelectionsType, AdvanceType DEF RecoverPending, TypeOK
<1>3. ASSUME NEW w \in Worker, RecoverNext(w) PROVE TypeOK'
    <2>1. worker[w].rows \in Seq([cmd : Command, copy : Row])
        BY DEF TypeOK
    <2> QED
        BY <1>3, <2>1, AdvanceType DEF RecoverNext, TypeOK
<1>4. ASSUME NEW w \in Worker, RecoverEnds(w) PROVE TypeOK'
    <2>1. alarm' \in BOOLEAN
        BY <1>4 DEF RecoverEnds, RearmIfPending, TypeOK
    <2>2. [worker[w] EXCEPT !.run = FALSE] \in [run : BOOLEAN, busy : BOOLEAN,
                                      rows : Seq([cmd : Command, copy : Row])]
        <3> DEFINE Q == Seq([cmd : Command, copy : Row])
        <3>1. worker[w] \in [run : BOOLEAN, busy : BOOLEAN, rows : Q]
            BY DEF TypeOK
        <3> HIDE DEF Q
        <3>2. [worker[w] EXCEPT !.run = FALSE] \in [run : BOOLEAN, busy : BOOLEAN, rows : Q]
            BY <3>1
        <3> QED
            BY <3>2 DEF Q
    <2>3. worker' \in [Worker -> [run : BOOLEAN, busy : BOOLEAN,
                                      rows : Seq([cmd : Command, copy : Row])]]
        <3> DEFINE W == [run : BOOLEAN, busy : BOOLEAN,
                         rows : Seq([cmd : Command, copy : Row])]
                   next == [worker[w] EXCEPT !.run = FALSE]
        <3>1. worker' = [worker EXCEPT ![w] = next] /\ worker \in [Worker -> W]
            BY <1>4 DEF RecoverEnds, TypeOK
        <3>2. next \in W
            BY <2>2
        <3>3. [worker EXCEPT ![w] = next] \in [Worker -> W]
            <4> HIDE DEF W, next
            <4> QED
                BY <3>1, <3>2
        <3> QED
            BY <3>1, <3>3
    <2> QED
        BY <1>4, <2>1, <2>3 DEF RecoverEnds, TypeOK
<1> QED
    BY <1>1, <1>2, <1>3, <1>4

\* Time, late and lost writes, and evictions.
LEMMA EnvironmentTypeOK == TypeOK /\ Environment => TypeOK'
<1> SUFFICES ASSUME TypeOK, Environment PROVE TypeOK'
    OBVIOUS
<1> USE DEF airtableVars, storageVars, memoryVars, d1Vars
<1>1. ASSUME NEW c \in Command, TimerElapses(c) PROVE TypeOK'
    <2> DEFINE r == [row[c] EXCEPT !.timer = "due"]
    <2>1. r \in Row
        <3>1. row[c] \in Row
            BY DEF TypeOK
        <3> QED
            BY <3>1 DEF Row, Timer
    <2>2. row' = [row EXCEPT ![c] = r]
        BY <1>1 DEF TimerElapses, TypeOK
    <2>3. row' \in [Command -> Row]
        <3> HIDE DEF r
        <3> QED
            BY <2>1, <2>2 DEF TypeOK
    <2> QED
        BY <1>1, <2>3 DEF TimerElapses, TypeOK
<1>2. ASSUME NEW c \in Command, wire[c] > 0 PROVE [wire EXCEPT ![c] = @ - 1] \in [Command -> Nat]
    <2>1. wire[c] - 1 \in Nat
        BY <1>2 DEF TypeOK
    <2> QED
        BY <2>1 DEF TypeOK
<1>3. ASSUME NEW c \in Command, WriteLands(c) PROVE TypeOK'
    <2>1. wire' \in [Command -> Nat] /\ stray' \subseteq Entity
        BY <1>2, <1>3, EntityOfAssumption DEF WriteLands, TypeOK
    <2> QED
        BY <1>3, <2>1, WrittenType DEF WriteLands, TypeOK
<1>4. ASSUME NEW c \in Command, WriteIsLost(c) PROVE TypeOK'
    <2>1. wire' \in [Command -> Nat]
        BY <1>2, <1>4 DEF WriteIsLost
    <2> QED
        BY <1>4, <2>1 DEF WriteIsLost, TypeOK
<1>5. CASE Crash
    <2>1. /\ rec' \in [Entity -> [version : Nat, last : Command \cup {NoCommand}]]
          /\ landed' \in [Command -> Nat] /\ wire' \in [Command -> Nat] /\ stray' = stray
        <3>1. CASE base.phase = "writing"
            BY <1>5, <3>1, ActiveBase, LostWriteType DEF Crash
        <3>2. CASE base.phase # "writing"
            BY <1>5, <3>2 DEF Crash, TypeOK
        <3> QED
            BY <3>1, <3>2
    <2>2. task' \in [Slot -> Task] /\ queue' \in Seq(Job) /\ crashes' \in Nat
        BY <1>5, IdleType DEF Crash, TypeOK
    <2>3. worker' \in [Worker -> [run : BOOLEAN, busy : BOOLEAN,
                                      rows : Seq([cmd : Command, copy : Row])]]
        BY <1>5 DEF Crash
    <2>4. alarm' \in BOOLEAN
        <3>1. worker["alarm"].run \in BOOLEAN
            BY DEF TypeOK, Worker
        <3> QED
            BY <1>5, <3>1 DEF Crash, TypeOK
    <2>5. waiting' \in [Command -> SUBSET Hash]
        BY <1>5 DEF Crash
    <2> QED
        BY <1>5, <2>1, <2>2, <2>3, <2>4, <2>5 DEF Crash, TypeOK
<1> QED
    BY <1>1, <1>3, <1>4, <1>5 DEF Environment

\* Every step of the system keeps every type.
LEMMA NextTypeOK == TypeOK /\ [Next]_vars => TypeOK'
<1> SUFFICES ASSUME TypeOK, [Next]_vars PROVE TypeOK'
    OBVIOUS
<1>1. CASE UNCHANGED vars
    BY <1>1 DEF TypeOK, vars, airtableVars, storageVars, memoryVars, d1Vars
<1>2. CASE Next
    BY <1>2, ProviderTypeOK, StartJobTypeOK, AnswerTypeOK, RecoverTypeOK, ExecuteTypeOK,
       ProjectionTypeOK, RecoveryTypeOK, EnvironmentTypeOK DEF Next
<1> QED
    BY <1>1, <1>2

\* Every variable keeps its type: the object's storage, memory, queue and timers,
\* Airtable and D1 never hold a value the code could not have put there.
THEOREM TypeCorrect == Spec => []TypeOK
<1>1. Init => TypeOK
    BY InitTypeOK
<1>2. TypeOK /\ [Next]_vars => TypeOK'
    BY NextTypeOK
<1> QED
    BY <1>1, <1>2, PTL DEF Spec

-----------------------------------------------------------------------------
(* CommittedIsApplied: evidence of a write is carried from hand to hand and  *)
(* never made up, and a write that took effect stays one that did            *)

\* What has taken effect in this state has taken effect in the next.
Remembers == \A c \in Command : landed[c] > 0 => landed'[c] > 0

\* The rows a recoverPending() call still has to visit are rows of commands.
LEMMA SelectedRows ==
    ASSUME TypeOK, NEW w \in Worker, NEW i \in 1..Len(worker[w].rows)
    PROVE  worker[w].rows[i].cmd \in Command /\ worker[w].rows[i].copy \in Row
<1> DEFINE R == [cmd : Command, copy : Row]
<1>1. worker[w].rows \in Seq(R)
    BY DEF TypeOK
<1>2. worker[w].rows[i] \in R
    <2> HIDE DEF R
    <2> QED
        BY <1>1
<1> QED
    BY <1>2

\* A part of the object's state that a step leaves alone stays backed.
LEMMA UntouchedStaysBacked ==
    ASSUME TypeOK, AppliedInv, Remembers
    PROVE  /\ UNCHANGED row => RowsBacked'
           /\ UNCHANGED <<told, idem>> => AnswersBacked'
           /\ UNCHANGED rec => RecordsBacked'
           /\ UNCHANGED task => TasksBacked'
           /\ UNCHANGED queue => QueueBacked'
           /\ UNCHANGED worker => SelectionsBacked'
<1> USE DEF AppliedInv
<1>1. UNCHANGED row => RowsBacked'
    BY DEF RowsBacked, Backed, Remembers
<1>2. UNCHANGED <<told, idem>> => AnswersBacked'
    BY DEF AnswersBacked, Acknowledged, Told, Remembers
<1>3. UNCHANGED rec => RecordsBacked'
    BY DEF RecordsBacked, TypeOK, Remembers
<1>4. UNCHANGED task => TasksBacked'
    BY ActiveTask DEF TasksBacked, Backed, Remembers
<1>5. UNCHANGED queue => QueueBacked'
    <2> SUFFICES ASSUME queue' = queue, NEW i \in 1..Len(queue)
                 PROVE  Backed(queue[i].copy, queue[i].cmd)'
        BY DEF QueueBacked
    <2>1. queue[i].cmd \in Command
        <3>1. queue[i] \in Job
            BY DEF TypeOK
        <3> QED
            BY <3>1 DEF Job
    <2>2. Backed(queue[i].copy, queue[i].cmd)
        BY DEF QueueBacked
    <2> QED
        BY <2>1, <2>2 DEF Backed, Remembers
<1>6. UNCHANGED worker => SelectionsBacked'
    <2>1. \A w \in Worker : \A i \in 1..Len(worker[w].rows) :
              worker[w].rows[i].cmd \in Command
        BY SelectedRows
    <2> QED
        BY <2>1 DEF SelectionsBacked, Backed, Remembers
<1> QED
    BY <1>1, <1>2, <1>3, <1>4, <1>5, <1>6

\* A running task that is dropped, or moves on to a backed row and phase.
LEMMA TaskStaysBacked ==
    ASSUME TypeOK, TasksBacked, Remembers, NEW s \in Slot,
           NEW t, t.phase # "idle" => /\ (Claims(t.copy) => landed'[t.cmd] > 0)
                                      /\ t.phase \in AppliedPhase => landed'[t.cmd] > 0,
           task' = [task EXCEPT ![s] = t]
    PROVE  TasksBacked'
<1> SUFFICES ASSUME NEW u \in Slot, task'[u].phase # "idle"
             PROVE  /\ Claims(task'[u].copy) => landed'[task'[u].cmd] > 0
                    /\ task'[u].phase \in AppliedPhase => landed'[task'[u].cmd] > 0
    BY DEF TasksBacked, Backed
<1>1. CASE u = s
    <2>1. task'[u] = t
        BY <1>1 DEF TypeOK
    <2> QED
        BY <2>1 DEF Backed
<1>2. CASE u # s
    <2>1. task'[u] = task[u]
        BY <1>2 DEF TypeOK
    <2>2. task[u].cmd \in Command
        BY <2>1, ActiveTask
    <2> QED
        BY <2>1, <2>2 DEF TasksBacked, Backed, Remembers
<1> QED
    BY <1>1, <1>2

\* An answer that is backed, or is no acknowledgement, leaves the answers backed.
LEMMA TellStaysBacked ==
    ASSUME TypeOK, AnswersBacked, Remembers, NEW c \in Command, NEW H, NEW a,
           Tell(c, H, a),
           \A d \in Command : idem'[d] \in {"committed", "repaired"} => idem'[d] = idem[d],
           a \in {"committed", "repair"} => landed'[c] > 0
    PROVE  AnswersBacked'
<1> SUFFICES ASSUME NEW d \in Command,
                    Acknowledged(d)' \/ idem'[d] \in {"committed", "repaired"}
             PROVE  landed'[d] > 0
    BY DEF AnswersBacked
<1>1. CASE idem'[d] \in {"committed", "repaired"} \/ Acknowledged(d)
    BY <1>1 DEF AnswersBacked, Remembers
<1>2. CASE Acknowledged(d)' /\ ~Acknowledged(d)
    <2>1. PICK h \in Hash, b \in {"committed", "repair"} :
              <<h, b>> \in told'[d] /\ <<h, b>> \notin told[d]
        BY <1>2 DEF Acknowledged, Told
    <2>2. d = c /\ b = a
        BY <2>1 DEF Tell, TypeOK
    <2> QED
        BY <2>1, <2>2
<1> QED
    BY <1>1, <1>2

\* A row that changes, for a backed one.
LEMMA RowStaysBacked ==
    ASSUME TypeOK, RowsBacked, Remembers, NEW c \in Command, NEW r,
           Claims(r) => landed'[c] > 0, row' = [row EXCEPT ![c] = r]
    PROVE  RowsBacked'
<1> SUFFICES ASSUME NEW d \in Command PROVE Claims(row'[d]) => landed'[d] > 0
    BY DEF RowsBacked, Backed
<1>1. CASE d = c
    <2>1. row'[d] = r
        BY <1>1 DEF TypeOK
    <2> QED
        BY <1>1, <2>1 DEF Backed
<1>2. CASE d # c
    <2>1. row'[d] = row[d]
        BY <1>2 DEF TypeOK
    <2> QED
        BY <2>1 DEF RowsBacked, Backed, Remembers
<1> QED
    BY <1>1, <1>2

\* A write that lands backs Airtable's marker; nothing that landed is forgotten.
LEMMA WrittenStaysBacked ==
    ASSUME TypeOK, RecordsBacked, NEW c \in Command,
           rec' = Written(c), landed' = [landed EXCEPT ![c] = @ + 1]
    PROVE  RecordsBacked' /\ Remembers /\ landed'[c] > 0
<1>1. \A d \in Command : landed[d] \in Nat /\ landed'[d] = IF d = c THEN landed[d] + 1 ELSE landed[d]
    BY DEF TypeOK
<1>2. Remembers /\ landed'[c] > 0
    BY <1>1 DEF Remembers
<1>3. ASSUME NEW e \in Entity, rec'[e].last # NoCommand PROVE landed'[rec'[e].last] > 0
    <2>1. CASE e = EntityOf[c]
        <3>1. rec'[e].last = c
            BY <2>1 DEF Written, TypeOK
        <3> QED
            BY <1>2, <3>1
    <2>2. CASE e # EntityOf[c]
        <3>1. rec'[e] = rec[e] /\ rec[e].last \in Command \cup {NoCommand}
            BY <2>2 DEF Written, TypeOK
        <3>2. landed[rec[e].last] > 0
            BY <1>3, <3>1 DEF RecordsBacked
        <3> QED
            BY <1>2, <1>3, <3>1, <3>2 DEF Remembers
    <2> QED
        BY <2>1, <2>2
<1> QED
    BY <1>2, <1>3 DEF RecordsBacked

\* A write whose answer was lost forgets nothing either, landed or not.
LEMMA LostWriteStaysBacked ==
    ASSUME TypeOK, RecordsBacked, NEW c \in Command, LostWrite(c)
    PROVE  RecordsBacked' /\ Remembers
<1>1. CASE rec' = Written(c) /\ landed' = [landed EXCEPT ![c] = @ + 1]
    BY <1>1, WrittenStaysBacked
<1>2. CASE UNCHANGED <<rec, landed>>
    BY <1>2 DEF RecordsBacked, Remembers
<1> QED
    BY <1>1, <1>2 DEF LostWrite, airtableVars

\* A job that settles leaves the selections alone, and the answers backed if its
\* own answer is.
LEMMA SettleStaysBacked ==
    ASSUME TypeOK, AnswersBacked, SelectionsBacked, Remembers,
           base.phase # "idle", NEW a, Settle(a),
           \A d \in Command : idem'[d] \in {"committed", "repaired"} => idem'[d] = idem[d],
           a \in {"committed", "repair"} => landed'[base.cmd] > 0
    PROVE  AnswersBacked' /\ SelectionsBacked'
<1>1. AnswersBacked'
    <2>1. CASE base.kind # "failure" /\ a \in Answer
        BY <2>1, ActiveBase, TellStaysBacked DEF Settle
    <2>2. CASE ~(base.kind # "failure" /\ a \in Answer)
        BY <2>2 DEF Settle, AnswersBacked, Acknowledged, Told, Remembers
    <2> QED
        BY <2>1, <2>2
<1>2. SelectionsBacked'
    <2> SUFFICES ASSUME NEW w \in Worker, NEW i \in 1..Len(worker'[w].rows)
                 PROVE  Backed(worker[w].rows[i].copy, worker[w].rows[i].cmd)'
        BY DEF SelectionsBacked
    <2>1. worker'[w].rows = worker[w].rows
        <3>1. worker \in [Worker -> [run : BOOLEAN, busy : BOOLEAN,
                                     rows : Seq([cmd : Command, copy : Row])]]
            BY DEF TypeOK
        <3> QED
            BY <3>1 DEF Settle
    <2>2. worker[w].rows[i].cmd \in Command
        BY <2>1, SelectedRows
    <2>3. Backed(worker[w].rows[i].copy, worker[w].rows[i].cmd)
        BY <2>1 DEF SelectionsBacked
    <2> QED
        BY <2>1, <2>2, <2>3 DEF Backed, Remembers
<1> QED
    BY <1>1, <1>2

\* The queue, when a backed job joins it and when its first job leaves it.
LEMMA QueueStaysBacked ==
    ASSUME TypeOK, QueueBacked, Remembers
    PROVE  /\ queue # <<>> /\ queue' = Tail(queue) => QueueBacked'
           /\ \A job : queue' = Append(queue, job) /\ (Claims(job.copy) => landed'[job.cmd] > 0)
                      => QueueBacked'
<1>0. queue \in Seq(Job)
    BY DEF TypeOK
<1>1. ASSUME NEW i \in 1..Len(queue) PROVE Claims(queue[i].copy) => landed'[queue[i].cmd] > 0
    <2>1. queue[i] \in Job
        BY <1>0
    <2>2. queue[i].cmd \in Command
        BY <2>1 DEF Job
    <2> QED
        BY <2>2 DEF QueueBacked, Backed, Remembers
<1>2. ASSUME queue # <<>>, queue' = Tail(queue) PROVE QueueBacked'
    <2> SUFFICES ASSUME NEW i \in 1..Len(queue')
                 PROVE  Claims(queue'[i].copy) => landed'[queue'[i].cmd] > 0
        BY DEF QueueBacked, Backed
    <2>1. i + 1 \in 1..Len(queue) /\ queue'[i] = queue[i + 1]
        BY <1>0, <1>2
    <2> QED
        BY <1>1, <2>1
<1>3. ASSUME NEW job, queue' = Append(queue, job), (Claims(job.copy) => landed'[job.cmd] > 0)
      PROVE  QueueBacked'
    <2> SUFFICES ASSUME NEW i \in 1..Len(queue')
                 PROVE  Claims(queue'[i].copy) => landed'[queue'[i].cmd] > 0
        BY DEF QueueBacked, Backed
    <2>1. \/ i \in 1..Len(queue) /\ queue'[i] = queue[i]
          \/ queue'[i] = job
        BY <1>0, <1>3
    <2> QED
        BY <1>1, <1>3, <2>1
<1> QED
    BY <1>2, <1>3

\* Nothing is claimed of any command at the start.
LEMMA InitApplied == Init => AppliedInv
BY DEF Init, AppliedInv, RowsBacked, AnswersBacked, RecordsBacked, TasksBacked,
       QueueBacked, SelectionsBacked, Acknowledged, Told, Idle, Backed, Claims, BlankRow

\* execute() repeats stored evidence and makes none up.
LEMMA ExecuteApplied == TypeOK /\ AppliedInv /\ Execute => AppliedInv'
<1> SUFFICES ASSUME TypeOK, AppliedInv, NEW c \in Command, NEW h \in Hash,
                    \/ ExecuteReplaysFailure(c, h) \/ ExecuteReplaysResponse(c, h)
                    \/ ExecuteJoins(c, h) \/ ExecuteEnqueues(c, h)
             PROVE  AppliedInv'
    BY DEF Execute
<1> USE DEF airtableVars, storageVars, memoryVars, d1Vars
<1>0. Remembers /\ UNCHANGED <<row, idem, rec, worker>>
    BY DEF Remembers, ExecuteReplaysFailure, ExecuteReplaysResponse,
           ExecuteJoins, ExecuteEnqueues
<1>1. CASE ExecuteReplaysFailure(c, h)
    <2>1. AnswersBacked'
        BY <1>0, <1>1, TellStaysBacked DEF ExecuteReplaysFailure, AppliedInv
    <2>2. TasksBacked'
        <3>1. CASE row[c].failureProjected
            BY <1>0, <1>1, <3>1, UntouchedStaysBacked DEF ExecuteReplaysFailure
        <3>2. CASE ~row[c].failureProjected
            <4> DEFINE t == [phase |-> "failing", kind |-> "side", cmd |-> c,
                             copy |-> row[c], by |-> "client"]
            <4>1. PICK s \in Side : task' = [task EXCEPT ![s] = t]
                BY <1>1, <3>2 DEF ExecuteReplaysFailure, Spawn
            <4>2. s \in Slot
                BY DEF Slot
            <4>3. (Claims(t.copy) => landed'[t.cmd] > 0) /\ t.phase \notin AppliedPhase
                BY <1>0 DEF AppliedInv, RowsBacked, Backed, Remembers, AppliedPhase
            <4> HIDE DEF t
            <4> QED
                BY <1>0, <4>1, <4>2, <4>3, TaskStaysBacked DEF AppliedInv
        <3> QED
            BY <3>1, <3>2
    <2> QED
        BY <1>0, <1>1, <2>1, <2>2, UntouchedStaysBacked DEF ExecuteReplaysFailure, AppliedInv
<1>2. CASE ExecuteReplaysResponse(c, h)
    <2>1. landed'[c] > 0
        BY <1>0, <1>2 DEF ExecuteReplaysResponse, AppliedInv, RowsBacked, Backed, Claims, Remembers
    <2>2. AnswersBacked'
        BY <1>0, <1>2, <2>1, TellStaysBacked DEF ExecuteReplaysResponse, AppliedInv
    <2> QED
        BY <1>0, <1>2, <2>2, UntouchedStaysBacked DEF ExecuteReplaysResponse, AppliedInv
<1>3. CASE ExecuteJoins(c, h)
    BY <1>0, <1>3, UntouchedStaysBacked DEF ExecuteJoins, AppliedInv
<1>4. CASE ExecuteEnqueues(c, h)
    <2> DEFINE job == [kind |-> "execute", cmd |-> c, copy |-> BlankRow,
                       by |-> "client", hash |-> h]
    <2>1. (Claims(job.copy) => landed'[job.cmd] > 0)
        BY DEF Claims, BlankRow
    <2>2. queue' = Append(queue, job)
        BY <1>4 DEF ExecuteEnqueues
    <2>3. QueueBacked'
        <3> HIDE DEF job
        <3> QED
            BY <1>0, <2>1, <2>2, QueueStaysBacked DEF AppliedInv
    <2> QED
        BY <1>0, <1>4, <2>3, UntouchedStaysBacked DEF ExecuteEnqueues, AppliedInv
<1> QED
    BY <1>1, <1>2, <1>3, <1>4

\* A job starts from the row it was handed and in a phase that row justifies.
LEMMA StartJobApplied == TypeOK /\ AppliedInv /\ StartJob => AppliedInv'
<1> SUFFICES ASSUME TypeOK, AppliedInv, StartJob PROVE AppliedInv'
    OBVIOUS
<1> DEFINE j == Head(queue)
           subject == IF j.kind = "execute" THEN Inserted(row[j.cmd], j.hash) ELSE j.copy
           t == [phase |-> IF j.kind = "failure" THEN "failing" ELSE FirstPhase(subject),
                 kind |-> j.kind, cmd |-> j.cmd, copy |-> subject, by |-> j.by]
<1>0. /\ Remembers /\ queue # <<>> /\ queue' = Tail(queue)
      /\ UNCHANGED <<told, idem, rec, worker>>
    BY DEF StartJob, Remembers, airtableVars, d1Vars
<1>1. j \in Job /\ j = queue[1] /\ 1 \in 1..Len(queue)
    BY <1>0 DEF TypeOK
<1>2. j.cmd \in Command
    BY <1>1 DEF Job
<1>3. Backed(subject, j.cmd)
    <2>1. Backed(j.copy, j.cmd)
        BY <1>1 DEF AppliedInv, QueueBacked
    <2>2. Backed(Inserted(row[j.cmd], j.hash), j.cmd)
        <3>1. Backed(row[j.cmd], j.cmd) /\ row[j.cmd] \in Row
            BY <1>2 DEF AppliedInv, RowsBacked, TypeOK
        <3>2. /\ Inserted(row[j.cmd], j.hash).result = row[j.cmd].result
              /\ Inserted(row[j.cmd], j.hash).response = row[j.cmd].response
            BY <3>1 DEF Inserted, Row
        <3> QED
            BY <3>1, <3>2 DEF Backed, Claims
    <2> QED
        BY <2>1, <2>2
<1>4. Claims(subject) => landed'[j.cmd] > 0
    <2> HIDE DEF subject, j
    <2> QED
        BY <1>0, <1>2, <1>3 DEF Backed, Remembers
<1>5. RowsBacked'
    <2>1. CASE j.kind = "execute"
        <3>1. row' = [row EXCEPT ![j.cmd] = subject]
            BY <2>1 DEF StartJob
        <3> HIDE DEF subject, j
        <3> QED
            BY <1>0, <1>2, <1>4, <3>1, RowStaysBacked DEF AppliedInv
    <2>2. CASE j.kind # "execute"
        <3>1. row' = row
            BY <2>2 DEF StartJob
        <3> QED
            BY <1>0, <3>1, UntouchedStaysBacked
    <2> QED
        BY <2>1, <2>2
<1>6. TasksBacked'
    <2>1. task' = [task EXCEPT !["base"] = t]
        BY DEF StartJob
    <2>2. FirstPhase(subject) \in AppliedPhase => landed[j.cmd] > 0
        <3> HIDE DEF subject, j
        <3> QED
            BY <1>3 DEF FirstPhase, AppliedPhase, Backed, Claims
    <2>3. t.phase \in AppliedPhase => landed'[t.cmd] > 0
        BY <1>0, <1>2, <2>2 DEF AppliedPhase, Remembers
    <2>4. (Claims(t.copy) => landed'[t.cmd] > 0)
        BY <1>4 DEF Backed
    <2> HIDE DEF t
    <2> QED
        BY <1>0, <2>1, <2>3, <2>4, BaseSlot, TaskStaysBacked DEF AppliedInv
<1>7. QueueBacked'
    BY <1>0, QueueStaysBacked DEF AppliedInv
<1> HIDE DEF j, subject, t
<1> QED
    BY <1>0, <1>5, <1>6, <1>7, UntouchedStaysBacked DEF AppliedInv

\* The base task becomes t, whatever it was.
LEMMA BaseStaysBacked ==
    ASSUME TypeOK, TasksBacked, Remembers,
           NEW t, t.phase # "idle" => /\ (Claims(t.copy) => landed'[t.cmd] > 0)
                                      /\ t.phase \in AppliedPhase => landed'[t.cmd] > 0,
           task' = [task EXCEPT !["base"] = t]
    PROVE  TasksBacked'
BY BaseSlot, TaskStaysBacked

\* An empty slot is idle.
LEMMA IdleIsIdle == Idle.phase = "idle"
BY DEF Idle

\* The base task moves to another phase with a row that is backed.
LEMMA ContinueStaysBacked ==
    ASSUME TypeOK, TasksBacked, Remembers, base.phase # "idle", NEW ph, NEW r,
           Continue(ph, r), Claims(r) => landed'[base.cmd] > 0,
           ph \in AppliedPhase => landed'[base.cmd] > 0
    PROVE  TasksBacked'
<1> DEFINE t == [[base EXCEPT !.phase = ph] EXCEPT !.copy = r]
<1>1. base \in [phase : Phase \ {"idle"}, kind : Kind, cmd : Command,
                copy : Row, by : {"client"} \cup Worker]
    BY BaseSlot DEF TypeOK, Task, Idle, base
<1>2. task' = [task EXCEPT !["base"] = t]
    BY BaseSlot DEF Continue, base, TypeOK
<1>3. t.phase = ph /\ t.copy = r /\ t.cmd = base.cmd
    BY <1>1
<1> HIDE DEF t
<1> QED
    BY <1>2, <1>3, BaseStaysBacked

\* The rows of the running job after its updates.
LEMMA UpdatesKeepClaims ==
    ASSUME NEW r \in Row
    PROVE  /\ Claims(Leased(r)) = Claims(r) /\ Claims(OutcomeUnknown(r)) = Claims(r)
           /\ Claims(Deferred(r)) = Claims(r) /\ Claims(Failure(r)) = Claims(r)
           /\ ~Claims(BlankRow)
BY DEF Row, Claims, Leased, OutcomeUnknown, Deferred, Failure, BlankRow

\* A job that answers from its row answers with what that row is evidence of.
LEMMA AnswerApplied == TypeOK /\ AppliedInv /\ Respond => AppliedInv'
<1> USE DEF airtableVars, storageVars, d1Vars
<1>1. ASSUME TypeOK, AppliedInv, Respond PROVE AppliedInv'
    <2>1. /\ base.phase # "idle" /\ Remembers
          /\ UNCHANGED <<row, rec, landed, queue, idem>>
        BY <1>1 DEF Respond, Remembers
    <2>2. landed'[base.cmd] > 0 /\ base.cmd \in Command
        <3>1. base.phase \in AppliedPhase
            BY <1>1 DEF Respond, AppliedPhase
        <3> QED
            BY <1>1, <2>1, <3>1, BaseSlot, ActiveBase DEF AppliedInv, TasksBacked, base
    <2>3. TasksBacked'
        <3>1. CASE base.copy.state = "complete"
            BY <1>1, <2>1, <3>1, BaseStaysBacked, IdleIsIdle DEF Respond, AppliedInv
        <3>2. CASE base.copy.state # "complete"
            <4> DEFINE t == [phase |-> "projecting", kind |-> "side", cmd |-> base.cmd,
                             copy |-> base.copy, by |-> "client"]
            <4>1. PICK s \in Side : task' = [task EXCEPT !["base"] = Idle, ![s] = t]
                BY <1>1, <3>2 DEF Respond
            <4>2. s \in Slot /\ s # "base"
                BY NamesAssumption DEF Slot
            <4>3. \A u \in Slot : task'[u] = IF u = s THEN t
                                   ELSE IF u = "base" THEN Idle ELSE task[u]
                <5>1. task \in [Slot -> Task] /\ "base" \in Slot
                    BY <1>1, BaseSlot DEF TypeOK
                <5> HIDE DEF t
                <5> QED
                    BY <4>1, <4>2, <5>1
            <4>4. t.cmd = base.cmd
                OBVIOUS
            <4> HIDE DEF t
            <4>5. ASSUME NEW u \in Slot, task'[u].phase # "idle"
                  PROVE  \/ landed'[task'[u].cmd] > 0
                         \/ task'[u] = task[u] /\ task[u].cmd \in Command
                <5>1. CASE u = s
                    BY <2>2, <4>3, <4>4, <5>1
                <5>2. CASE u # s
                    <6>1. u # "base" /\ task'[u] = task[u]
                        BY <4>3, <4>5, <5>2, IdleIsIdle
                    <6> QED
                        BY <1>1, <4>5, <6>1, ActiveTask
                <5> QED
                    BY <5>1, <5>2
            <4> QED
                BY <1>1, <2>1, <4>5 DEF AppliedInv, TasksBacked, Backed, Remembers
        <3> QED
            BY <3>1, <3>2
    <2>4. AnswersBacked' /\ SelectionsBacked'
        BY <1>1, <2>1, <2>2, SettleStaysBacked DEF Respond, AppliedInv
    <2> QED
        BY <1>1, <2>1, <2>3, <2>4, UntouchedStaysBacked DEF AppliedInv
<1> QED
    BY <1>1

\* The write is known to have taken effect when its result is recorded.
LEMMA ResultApplied ==
    ASSUME TypeOK, AppliedInv, Remembers, RecordsBacked', base.phase # "idle",
           landed'[base.cmd] > 0, ResultPersisted
    PROVE  AppliedInv'
<1> DEFINE r == AuthorityResult(row[base.cmd])
<1>1. row' = [row EXCEPT ![base.cmd] = r] /\ base.cmd \in Command
    BY ActiveBase DEF ResultPersisted
<1>2. UNCHANGED <<queue, worker, told, idem>> /\ Continue("projecting", row'[base.cmd])
    BY DEF ResultPersisted, d1Vars
<1> HIDE DEF r
<1>3. RowsBacked'
    BY <1>1, RowStaysBacked DEF AppliedInv
<1>4. TasksBacked'
    BY <1>2, ContinueStaysBacked DEF AppliedInv
<1> QED
    BY <1>2, <1>3, <1>4, UntouchedStaysBacked DEF AppliedInv

\* A failure leaves the row with the evidence it had.
LEMMA FailureApplied ==
    ASSUME TypeOK, AppliedInv, Remembers, RecordsBacked', base.phase # "idle",
           FailurePersisted
    PROVE  AppliedInv'
<1> DEFINE r == Failure(row[base.cmd])
<1>1. /\ row' = [row EXCEPT ![base.cmd] = r] /\ base.cmd \in Command
      /\ row[base.cmd] \in Row /\ row'[base.cmd] = r
    BY ActiveBase DEF FailurePersisted, TypeOK
<1>2. UNCHANGED <<queue, worker, told, idem>> /\ Continue("failing", row'[base.cmd])
    BY DEF FailurePersisted, d1Vars
<1>3. Claims(r) => landed'[base.cmd] > 0
    BY <1>1, UpdatesKeepClaims DEF AppliedInv, RowsBacked, Backed, Remembers
<1> HIDE DEF r
<1>4. RowsBacked'
    BY <1>1, <1>3, RowStaysBacked DEF AppliedInv
<1>5. "failing" \notin AppliedPhase
    BY DEF AppliedPhase
<1>6. TasksBacked'
    BY <1>1, <1>2, <1>3, <1>5, ContinueStaysBacked DEF AppliedInv
<1> QED
    BY <1>2, <1>4, <1>6, UntouchedStaysBacked DEF AppliedInv

\* A lease, an unknown outcome or a backoff does not change the evidence either.
LEMMA RelabelStaysBacked ==
    ASSUME TypeOK, AppliedInv, Remembers, base.phase # "idle", NEW r,
           Claims(r) = Claims(row[base.cmd]), row' = [row EXCEPT ![base.cmd] = r]
    PROVE  RowsBacked' /\ (Claims(row'[base.cmd]) => landed'[base.cmd] > 0)
<1>1. base.cmd \in Command /\ row'[base.cmd] = r
    BY ActiveBase DEF TypeOK
<1>2. Claims(r) => landed'[base.cmd] > 0
    BY <1>1 DEF AppliedInv, RowsBacked, Backed, Remembers
<1> QED
    BY <1>1, <1>2, RowStaysBacked DEF AppliedInv

\* Airtable's marker names a command whose write took effect.
LEMMA MarkerIsEvidence ==
    ASSUME AppliedInv, NEW c \in Command, Current(c).last = c
    PROVE  landed[c] > 0
<1>1. EntityOf[c] \in Entity /\ c # NoCommand
    BY EntityOfAssumption, NamesAssumption
<1> QED
    BY <1>1 DEF AppliedInv, RecordsBacked, Current

\* attemptProvider records a result only after a write or Airtable's own marker.
LEMMA ProviderApplied == TypeOK /\ AppliedInv /\ (BeginAttempt \/ Provider) => AppliedInv'
<1> SUFFICES ASSUME TypeOK, AppliedInv, BeginAttempt \/ Provider PROVE AppliedInv'
    OBVIOUS
<1> USE DEF airtableVars, storageVars, d1Vars
<1>0. base.phase # "idle"
    BY DEF BeginAttempt, Provider, StoreReplays, StoreReadFails, StoreConflicts,
           StoreSends, WriteAnswered, WriteRefused, WriteUnanswered
<1>00. base.cmd \in Command /\ row[base.cmd] \in Row
    BY <1>0, ActiveBase DEF TypeOK
<1>000. ~Claims(BlankRow) /\ {"reading", "writing", "recovering"} \cap AppliedPhase = {}
    BY DEF Claims, BlankRow, AppliedPhase
<1>1. CASE BeginAttempt
    <2>0. Remembers /\ UNCHANGED <<rec, queue, worker, told, idem>>
        BY <1>1 DEF BeginAttempt, Remembers
    <2>1. RowsBacked'
        <3>1. row' = [row EXCEPT ![base.cmd] = Leased(row[base.cmd])]
            BY <1>1 DEF BeginAttempt
        <3> QED
            BY <1>0, <1>00, <2>0, <3>1, UpdatesKeepClaims, RelabelStaysBacked
    <2>2. TasksBacked'
        BY <1>0, <1>000, <1>1, <2>0, ContinueStaysBacked DEF BeginAttempt, AppliedInv
    <2> QED
        BY <2>0, <2>1, <2>2, UntouchedStaysBacked DEF AppliedInv
<1>2. CASE StoreReplays
    <2>1. Remembers /\ RecordsBacked'
        BY <1>2, UntouchedStaysBacked DEF StoreReplays, Remembers
    <2>2. landed'[base.cmd] > 0
        BY <1>00, <1>2, MarkerIsEvidence DEF StoreReplays
    <2> QED
        BY <1>0, <1>2, <2>1, <2>2, ResultApplied DEF StoreReplays
<1>3. CASE StoreReadFails \/ StoreConflicts \/ WriteRefused
    <2>1. Remembers /\ RecordsBacked' /\ FailurePersisted
        BY <1>3, UntouchedStaysBacked
        DEF StoreReadFails, StoreConflicts, WriteRefused, Remembers
    <2> QED
        BY <1>0, <2>1, FailureApplied
<1>4. CASE StoreSends
    <2>0. Remembers /\ UNCHANGED <<rec, row, queue, worker, told, idem>>
        BY <1>4 DEF StoreSends, Remembers
    <2>1. TasksBacked'
        BY <1>0, <1>000, <1>4, <2>0, ContinueStaysBacked DEF StoreSends, AppliedInv
    <2> QED
        BY <2>0, <2>1, UntouchedStaysBacked DEF AppliedInv
<1>5. CASE WriteAnswered
    <2>1. Remembers /\ RecordsBacked' /\ landed'[base.cmd] > 0
        BY <1>00, <1>5, WrittenStaysBacked DEF WriteAnswered, AppliedInv
    <2> QED
        BY <1>0, <1>5, <2>1, ResultApplied DEF WriteAnswered
<1>6. CASE WriteUnanswered
    <2>0. Remembers /\ RecordsBacked' /\ UNCHANGED <<queue, worker, told, idem>>
        BY <1>00, <1>6, LostWriteStaysBacked DEF WriteUnanswered, AppliedInv
    <2>1. RowsBacked' /\ (Claims(row'[base.cmd]) => landed'[base.cmd] > 0)
        <3>1. row' = [row EXCEPT ![base.cmd] = OutcomeUnknown(row[base.cmd])]
            BY <1>6 DEF WriteUnanswered
        <3> QED
            BY <1>0, <1>00, <2>0, <3>1, UpdatesKeepClaims, RelabelStaysBacked
    <2>2. TasksBacked'
        BY <1>0, <1>000, <1>6, <2>0, <2>1, ContinueStaysBacked DEF WriteUnanswered, AppliedInv
    <2> QED
        BY <2>0, <2>1, <2>2, UntouchedStaysBacked DEF AppliedInv
<1> QED
    BY <1>1, <1>2, <1>3, <1>4, <1>5, <1>6 DEF Provider

\* recoverProviderOutcome records a result only on Airtable's own marker.
LEMMA OutcomeApplied == TypeOK /\ AppliedInv /\ Recover => AppliedInv'
<1> SUFFICES ASSUME TypeOK, AppliedInv, Recover PROVE AppliedInv'
    OBVIOUS
<1> USE DEF airtableVars, storageVars, d1Vars
<1>0. /\ base.phase # "idle" /\ Remembers /\ UNCHANGED <<rec, landed, queue, idem>>
    BY DEF Recover, RecoverReadFails, RecoverApplied, RecoverWaits, ResultPersisted,
           RecoverRetries, RecoverDefers, Remembers
<1>00. base.cmd \in Command /\ row[base.cmd] \in Row
    BY <1>0, ActiveBase DEF TypeOK
<1>000. RecordsBacked' /\ QueueBacked'
    BY <1>0, UntouchedStaysBacked
<1>1. ASSUME EndBase PROVE TasksBacked'
    BY <1>0, <1>1, BaseStaysBacked, IdleIsIdle DEF EndBase, AppliedInv
<1>2. ASSUME NEW a, a \notin {"committed", "repair"}, Settle(a)
      PROVE  AnswersBacked' /\ SelectionsBacked'
    BY <1>0, <1>2, SettleStaysBacked DEF AppliedInv
<1>3. CASE RecoverReadFails \/ RecoverWaits
    <2>1. AnswersBacked' /\ SelectionsBacked' /\ TasksBacked' /\ UNCHANGED row
        BY <1>1, <1>2, <1>3 DEF RecoverReadFails, RecoverWaits
    <2> QED
        BY <1>0, <1>000, <2>1, UntouchedStaysBacked DEF AppliedInv
<1>4. CASE RecoverApplied
    <2>1. landed'[base.cmd] > 0
        BY <1>0, <1>00, <1>4, MarkerIsEvidence DEF RecoverApplied
    <2> QED
        BY <1>0, <1>000, <1>4, <2>1, ResultApplied DEF RecoverApplied
<1>5. CASE RecoverRetries
    <2>1. Claims(base.copy) => landed'[base.cmd] > 0
        BY <1>0, <1>00, BaseSlot DEF AppliedInv, TasksBacked, Backed, base, Remembers
    <2>2. TasksBacked'
        BY <1>0, <1>5, <2>1, ContinueStaysBacked DEF RecoverRetries, AppliedInv, AppliedPhase
    <2> QED
        BY <1>0, <1>5, <1>000, <2>2, UntouchedStaysBacked DEF RecoverRetries, AppliedInv
<1>6. CASE RecoverDefers
    <2>1. RowsBacked'
        <3>1. row' = [row EXCEPT ![base.cmd] = Deferred(row[base.cmd])]
            BY <1>6 DEF RecoverDefers
        <3> QED
            BY <1>0, <1>00, <3>1, UpdatesKeepClaims, RelabelStaysBacked
    <2>2. AnswersBacked' /\ SelectionsBacked' /\ TasksBacked'
        BY <1>1, <1>2, <1>6 DEF RecoverDefers
    <2> QED
        BY <1>000, <2>1, <2>2 DEF AppliedInv
<1> QED
    BY <1>3, <1>4, <1>5, <1>6 DEF Recover

\* A task that changes phase keeps its command and its row.
LEMMA PhaseStaysBacked ==
    ASSUME TypeOK, TasksBacked, Remembers, NEW s \in Slot, task[s].phase # "idle",
           NEW ph, ph \in AppliedPhase => landed'[task[s].cmd] > 0,
           task' = [task EXCEPT ![s].phase = ph]
    PROVE  TasksBacked'
<1> DEFINE t == [task[s] EXCEPT !.phase = ph]
<1>1. task[s] \in [phase : Phase \ {"idle"}, kind : Kind, cmd : Command,
                   copy : Row, by : {"client"} \cup Worker]
    BY DEF TypeOK, Task, Idle
<1>2. t.phase = ph /\ t.copy = task[s].copy /\ t.cmd = task[s].cmd
    BY <1>1
<1>3. task' = [task EXCEPT ![s] = t]
    BY DEF TypeOK
<1>4. Claims(t.copy) => landed'[t.cmd] > 0
    BY <1>2, ActiveTask DEF TasksBacked, Backed, Remembers
<1> HIDE DEF t
<1> QED
    BY <1>2, <1>3, <1>4, TaskStaysBacked

\* A task that ends, in the queue or outside it.
LEMMA SettleTaskStaysBacked ==
    ASSUME TypeOK, AppliedInv, Remembers, NEW s \in Slot, task[s].phase # "idle",
           NEW a, SettleTask(s, a), AnswersBacked,
           \A c \in Command : idem'[c] \in {"committed", "repaired"} => idem'[c] = idem[c],
           a \in {"committed", "repair"} => landed'[task[s].cmd] > 0
    PROVE  AnswersBacked' /\ SelectionsBacked' /\ TasksBacked'
<1>1. TasksBacked'
    BY TaskStaysBacked, IdleIsIdle DEF SettleTask, AppliedInv
<1>2. CASE s # "base"
    <2>1. UNCHANGED <<told, worker>>
        BY <1>2 DEF SettleTask
    <2>2. AnswersBacked'
        BY <2>1 DEF AnswersBacked, Acknowledged, Told, Remembers
    <2> QED
        BY <1>1, <2>1, <2>2, UntouchedStaysBacked
<1>3. CASE s = "base"
    <2>1. base.phase # "idle" /\ Settle(a)
          /\ (a \in {"committed", "repair"} => landed'[base.cmd] > 0)
        BY <1>3 DEF SettleTask, base
    <2> QED
        BY <1>1, <2>1, SettleStaysBacked DEF AppliedInv
<1> QED
    BY <1>2, <1>3

\* finishProjection stores responses only for commands that took effect.
LEMMA PersistedStaysBacked ==
    ASSUME TypeOK, AppliedInv, Remembers, NEW c \in Command, landed'[c] > 0,
           NEW st, NEW rp, row' = [row EXCEPT ![c] = Persisted(@, st, rp)]
    PROVE  RowsBacked'
<1> DEFINE r == Persisted(row[c], st, rp)
<1>1. row' = [row EXCEPT ![c] = r]
    OBVIOUS
<1> HIDE DEF r
<1> QED
    BY <1>1, RowStaysBacked DEF AppliedInv

\* finishProjection, every await of it, and finishFailureProjection.
LEMMA ProjectionApplied ==
    ASSUME TypeOK, AppliedInv, NEW s \in Slot, Projection(s) PROVE AppliedInv'
<1> USE DEF airtableVars, storageVars, d1Vars
<1>0. /\ task[s].phase # "idle" /\ Remembers /\ UNCHANGED <<rec, landed, queue>>
    BY DEF Projection, ProjectCommits, ProjectDrainFails, ProjectFails, FinishProjection,
           ReportRepair, FailureProjects, FailureProjectionFails, Remembers
<1>00. task[s].cmd \in Command /\ row[task[s].cmd] \in Row
    BY <1>0, ActiveTask DEF TypeOK
<1>000. RecordsBacked' /\ QueueBacked'
    BY <1>0, UntouchedStaysBacked
<1>1. task[s].phase \in AppliedPhase => landed'[task[s].cmd] > 0
    BY <1>0, <1>00 DEF AppliedInv, TasksBacked, Remembers
<1>2. ASSUME landed'[task[s].cmd] > 0, ToReporting(s) PROVE RowsBacked' /\ TasksBacked'
    BY <1>0, <1>00, <1>2, PersistedStaysBacked, PhaseStaysBacked DEF ToReporting, AppliedInv
<1>3. ASSUME NEW reply, landed'[task[s].cmd] > 0, ProjectionBatch(task[s].cmd, reply),
             UNCHANGED <<told, worker>>
      PROVE  AnswersBacked' /\ SelectionsBacked'
    <2>1. \A c \in Command : idem'[c] = idem[c] \/ c = task[s].cmd
        BY <1>3 DEF ProjectionBatch, TypeOK
    <2>2. AnswersBacked'
        BY <1>0, <1>3, <2>1 DEF AppliedInv, AnswersBacked, Acknowledged, Told, Remembers
    <2> QED
        BY <1>0, <1>3, <2>2, UntouchedStaysBacked
<1>4. CASE ProjectCommits(s)
    <2>1. landed'[task[s].cmd] > 0
        BY <1>1, <1>4 DEF ProjectCommits, AppliedPhase
    <2>2. AnswersBacked' /\ SelectionsBacked'
        BY <1>3, <1>4, <2>1 DEF ProjectCommits
    <2>3. TasksBacked'
        BY <1>0, <1>4, <2>1, PhaseStaysBacked DEF ProjectCommits, AppliedInv
    <2> QED
        BY <1>0, <1>000, <1>4, <2>2, <2>3, UntouchedStaysBacked DEF ProjectCommits, AppliedInv
<1>5. CASE ProjectDrainFails(s)
    <2>1. landed'[task[s].cmd] > 0
        BY <1>1, <1>5 DEF ProjectDrainFails, AppliedPhase
    <2>2. AnswersBacked' /\ SelectionsBacked'
        BY <1>3, <1>5, <2>1 DEF ProjectDrainFails
    <2> QED
        BY <1>000, <1>2, <1>5, <2>1, <2>2 DEF ProjectDrainFails, AppliedInv
<1>6. CASE ProjectFails(s)
    <2>1. landed'[task[s].cmd] > 0
        BY <1>1, <1>6 DEF ProjectFails, AppliedPhase
    <2> QED
        BY <1>0, <1>000, <1>2, <1>6, <2>1, UntouchedStaysBacked DEF ProjectFails, AppliedInv
<1>7. CASE FinishProjection(s)
    <2>1. landed'[task[s].cmd] > 0
        BY <1>1, <1>7 DEF FinishProjection, AppliedPhase
    <2>2. RowsBacked'
        BY <1>0, <1>00, <1>7, <2>1, PersistedStaysBacked DEF FinishProjection
    <2>3. AnswersBacked' /\ SelectionsBacked' /\ TasksBacked'
        BY <1>0, <1>7, <2>1, SettleTaskStaysBacked DEF FinishProjection, AppliedInv
    <2> QED
        BY <1>000, <2>2, <2>3 DEF AppliedInv
<1>8. CASE ReportRepair(s)
    <2>1. landed'[task[s].cmd] > 0
        BY <1>1, <1>8 DEF ReportRepair, AppliedPhase
    <2>2. AnswersBacked' /\ SelectionsBacked' /\ TasksBacked'
        BY <1>0, <1>8, <2>1, SettleTaskStaysBacked DEF ReportRepair, AppliedInv
    <2> QED
        BY <1>0, <1>000, <1>8, <2>2, UntouchedStaysBacked DEF ReportRepair, AppliedInv
<1>9. CASE FailureProjects(s) \/ FailureProjectionFails(s)
    <2>1. \A c \in Command : idem'[c] \in {"committed", "repaired"} => idem'[c] = idem[c]
        BY <1>9 DEF FailureProjects, FailureProjectionFails, TypeOK
    <2>2. AnswersBacked' /\ SelectionsBacked' /\ TasksBacked'
        BY <1>0, <1>9, <2>1, SettleTaskStaysBacked
        DEF FailureProjects, FailureProjectionFails, AppliedInv
    <2>3. RowsBacked'
        <3>1. CASE FailureProjects(s)
            <4> DEFINE r == [row[task[s].cmd] EXCEPT !.failureProjected = TRUE]
            <4>1. row' = [row EXCEPT ![task[s].cmd] = r]
                BY <1>00, <3>1 DEF FailureProjects, TypeOK
            <4>2. Claims(r) = Claims(row[task[s].cmd])
                BY <1>00 DEF Claims, Row
            <4>3. Claims(r) => landed'[task[s].cmd] > 0
                BY <1>0, <1>00, <4>2 DEF AppliedInv, RowsBacked, Backed, Remembers
            <4> HIDE DEF r
            <4> QED
                BY <1>0, <1>00, <4>1, <4>3, RowStaysBacked DEF AppliedInv
        <3>2. CASE FailureProjectionFails(s)
            BY <1>0, <3>2, UntouchedStaysBacked DEF FailureProjectionFails
        <3> QED
            BY <1>9, <3>1, <3>2
    <2> QED
        BY <1>000, <2>2, <2>3 DEF AppliedInv
<1> QED
    BY <1>4, <1>5, <1>6, <1>7, <1>8, <1>9 DEF Projection

\* recoverPending's loop hands backed copies on to the queue.
LEMMA AdvanceStaysBacked ==
    ASSUME TypeOK, AppliedInv, Remembers, NEW w \in Worker,
           NEW rows \in Seq([cmd : Command, copy : Row]),
           \A i \in 1..Len(rows) : Claims(rows[i].copy) => landed'[rows[i].cmd] > 0,
           Advance(w, rows)
    PROVE  QueueBacked' /\ SelectionsBacked'
<1> DEFINE R == [cmd : Command, copy : Row]
           ready == {i \in 1..Len(rows) : ~InFlight(rows[i].cmd)}
<1>0. rows \in Seq(R)
    OBVIOUS
<1>1. ASSUME NEW n, worker' = [worker EXCEPT ![w] = n],
             \A i \in 1..Len(n.rows) : Claims(n.rows[i].copy) => landed'[n.rows[i].cmd] > 0
      PROVE  SelectionsBacked'
    <2> SUFFICES ASSUME NEW v \in Worker, NEW i \in 1..Len(worker'[v].rows)
                 PROVE  Claims(worker'[v].rows[i].copy) => landed'[worker'[v].rows[i].cmd] > 0
        BY DEF SelectionsBacked, Backed
    <2>0. worker'[v] = IF v = w THEN n ELSE worker[v]
        <3>1. DOMAIN worker = Worker
            BY DEF TypeOK
        <3> QED
            BY <1>1, <3>1
    <2>1. CASE v = w
        BY <1>1, <2>0, <2>1
    <2>2. CASE v # w
        BY <2>0, <2>2, SelectedRows DEF AppliedInv, SelectionsBacked, Backed, Remembers
    <2> QED
        BY <2>1, <2>2
<1>2. CASE ready = {}
    <2> DEFINE n == [run |-> TRUE, busy |-> FALSE, rows |-> <<>>]
    <2>1. worker' = [worker EXCEPT ![w] = n] /\ UNCHANGED queue
        BY <1>2 DEF Advance
    <2>2. 1..Len(n.rows) = {}
        OBVIOUS
    <2> HIDE DEF n
    <2> QED
        BY <1>1, <2>1, <2>2, UntouchedStaysBacked
<1>3. CASE ready # {}
    <2>1. PICK i \in 1..Len(rows) :
            /\ queue' = Append(queue,
                  [kind |-> IF rows[i].copy.state = "failed"
                            THEN "failure" ELSE "recover",
                   cmd |-> rows[i].cmd, copy |-> rows[i].copy,
                   by |-> w, hash |-> NoHash])
            /\ worker' = [worker EXCEPT ![w] =
                  [run |-> TRUE, busy |-> TRUE,
                   rows |-> SubSeq(rows, i + 1, Len(rows))]]
        BY <1>3 DEF Advance
    <2> DEFINE job == [kind |-> IF rows[i].copy.state = "failed"
                                THEN "failure" ELSE "recover",
                       cmd |-> rows[i].cmd, copy |-> rows[i].copy,
                       by |-> w, hash |-> NoHash]
               rest == SubSeq(rows, i + 1, Len(rows))
               n == [run |-> TRUE, busy |-> TRUE, rows |-> rest]
    <2>2. queue' = Append(queue, job) /\ worker' = [worker EXCEPT ![w] = n]
        BY <2>1
    <2>3. Claims(job.copy) => landed'[job.cmd] > 0
        OBVIOUS
    <2>4. n.rows = rest
        OBVIOUS
    <2>5. ASSUME NEW k \in 1..Len(rest)
          PROVE  Claims(rest[k].copy) => landed'[rest[k].cmd] > 0
        <3>1. rest[k] = rows[i + k] /\ i + k \in 1..Len(rows)
            <4> HIDE DEF R
            <4> QED
                BY <1>0
        <3> QED
            BY <3>1
    <2> HIDE DEF job, n, rest
    <2> QED
        BY <1>1, <2>2, <2>3, <2>4, <2>5, QueueStaysBacked DEF AppliedInv
<1> QED
    BY <1>2, <1>3

\* recoverPending and the alarm hand on copies of backed rows.
LEMMA RecoveryApplied ==
    TypeOK /\ AppliedInv /\ (AlarmFires \/ \E w \in Worker : Pass(w)) => AppliedInv'
<1> SUFFICES ASSUME TypeOK, AppliedInv,
                    \/ AlarmFires
                    \/ \E w \in Worker : RecoverPending(w) \/ RecoverNext(w) \/ RecoverEnds(w)
             PROVE  AppliedInv'
    BY DEF Pass
<1> USE DEF airtableVars, storageVars, d1Vars
<1>0. Remembers /\ UNCHANGED <<rec, landed, row, told, idem, task>>
    BY DEF AlarmFires, RecoverPending, RecoverNext, RecoverEnds, Remembers
<1>1. /\ RowsBacked' /\ AnswersBacked' /\ RecordsBacked' /\ TasksBacked'
    BY <1>0, UntouchedStaysBacked
<1>2. ASSUME NEW w \in Worker, NEW rows \in Selections, Advance(w, rows) PROVE AppliedInv'
    <2>1. rows \in Seq([cmd : Command, copy : Row])
        BY SelectionsType
    <2>2. ASSUME NEW i \in 1..Len(rows)
          PROVE  rows[i].cmd \in Command /\ rows[i].copy = row[rows[i].cmd]
        <3> DEFINE due == {c \in Command : Due(row[c])}
        <3>1. /\ rows \in [1..Cardinality(due) -> [cmd : due, copy : {row[c] : c \in due}]]
              /\ \A k \in DOMAIN rows : rows[k].copy = row[rows[k].cmd]
            BY DEF Selections
        <3>2. i \in DOMAIN rows
            BY <2>1
        <3>3. due \subseteq Command
            OBVIOUS
        <3> HIDE DEF due
        <3> QED
            BY <3>1, <3>2, <3>3
    <2>3. \A i \in 1..Len(rows) : Claims(rows[i].copy) => landed'[rows[i].cmd] > 0
        BY <1>0, <2>2 DEF AppliedInv, RowsBacked, Backed, Remembers
    <2> QED
        BY <1>0, <1>1, <1>2, <2>1, <2>3, AdvanceStaysBacked DEF AppliedInv
<1>3. CASE AlarmFires
    <2>1. "alarm" \in Worker
        BY DEF Worker
    <2> QED
        BY <1>2, <1>3, <2>1 DEF AlarmFires
<1>4. ASSUME NEW w \in Worker, RecoverPending(w) PROVE AppliedInv'
    BY <1>2, <1>4 DEF RecoverPending
<1>5. ASSUME NEW w \in Worker, RecoverNext(w) PROVE AppliedInv'
    <2> DEFINE rows == worker[w].rows
    <2>1. rows \in Seq([cmd : Command, copy : Row])
        BY DEF TypeOK
    <2>2. \A i \in 1..Len(rows) : Claims(rows[i].copy) => landed'[rows[i].cmd] > 0
        BY <1>0, SelectedRows DEF AppliedInv, SelectionsBacked, Backed, Remembers
    <2>3. Advance(w, rows)
        BY <1>5 DEF RecoverNext
    <2> HIDE DEF rows
    <2> QED
        BY <1>0, <1>1, <2>1, <2>2, <2>3, AdvanceStaysBacked DEF AppliedInv
<1>6. ASSUME NEW w \in Worker, RecoverEnds(w) PROVE AppliedInv'
    <2>1. UNCHANGED queue
        BY <1>6 DEF RecoverEnds
    <2>2. ASSUME NEW v \in Worker PROVE worker'[v].rows = worker[v].rows
        <3>1. worker \in [Worker -> [run : BOOLEAN, busy : BOOLEAN,
                                     rows : Seq([cmd : Command, copy : Row])]]
            BY DEF TypeOK
        <3> QED
            BY <1>6, <3>1 DEF RecoverEnds
    <2>3. SelectionsBacked'
        BY <1>0, <2>2, SelectedRows DEF AppliedInv, SelectionsBacked, Backed, Remembers
    <2> QED
        BY <1>0, <1>1, <2>1, <2>3, UntouchedStaysBacked DEF AppliedInv
<1> QED
    BY <1>3, <1>4, <1>5, <1>6

\* Time passes, unanswered writes land or are lost, the object is evicted.
LEMMA EnvironmentApplied == TypeOK /\ AppliedInv /\ Environment => AppliedInv'
<1> SUFFICES ASSUME TypeOK, AppliedInv, Environment PROVE AppliedInv'
    OBVIOUS
<1> USE DEF airtableVars, storageVars, memoryVars, d1Vars
<1>1. ASSUME NEW c \in Command, TimerElapses(c) PROVE AppliedInv'
    <2> DEFINE r == [row[c] EXCEPT !.timer = "due"]
    <2>0. Remembers /\ UNCHANGED <<rec, told, idem, task, queue, worker>>
        BY <1>1 DEF TimerElapses, Remembers
    <2>1. row' = [row EXCEPT ![c] = r]
        BY <1>1 DEF TimerElapses, TypeOK
    <2>2. Claims(r) = Claims(row[c])
        <3>1. row[c] \in Row
            BY DEF TypeOK
        <3> QED
            BY <3>1 DEF Claims, Row
    <2>3. Claims(r) => landed'[c] > 0
        BY <2>0, <2>2 DEF AppliedInv, RowsBacked, Backed, Remembers
    <2> HIDE DEF r
    <2> QED
        BY <2>0, <2>1, <2>3, RowStaysBacked, UntouchedStaysBacked DEF AppliedInv
<1>2. ASSUME NEW c \in Command, WriteLands(c) PROVE AppliedInv'
    <2>1. Remembers /\ RecordsBacked' /\ UNCHANGED <<row, told, idem, task, queue, worker>>
        BY <1>2, WrittenStaysBacked DEF WriteLands, AppliedInv
    <2> QED
        BY <2>1, UntouchedStaysBacked DEF AppliedInv
<1>3. ASSUME NEW c \in Command, WriteIsLost(c) PROVE AppliedInv'
    <2>1. Remembers /\ UNCHANGED <<rec, row, told, idem, task, queue, worker>>
        BY <1>3 DEF WriteIsLost, Remembers
    <2> QED
        BY <2>1, UntouchedStaysBacked DEF AppliedInv
<1>4. CASE Crash
    <2>1. Remembers /\ RecordsBacked'
        <3>1. CASE base.phase = "writing"
            BY <1>4, <3>1, ActiveBase, LostWriteStaysBacked DEF Crash, AppliedInv
        <3>2. CASE base.phase # "writing"
            BY <1>4, <3>2, UntouchedStaysBacked DEF Crash, Remembers
        <3> QED
            BY <3>1, <3>2
    <2>2. RowsBacked' /\ AnswersBacked'
        BY <1>4, <2>1, UntouchedStaysBacked DEF Crash
    <2>3. TasksBacked'
        BY <1>4, IdleIsIdle DEF Crash, TasksBacked
    <2>4. QueueBacked' /\ SelectionsBacked'
        BY <1>4 DEF Crash, QueueBacked, SelectionsBacked
    <2> QED
        BY <2>1, <2>2, <2>3, <2>4 DEF AppliedInv
<1> QED
    BY <1>1, <1>2, <1>3, <1>4 DEF Environment

\* Every step of the system keeps the evidence backed.
LEMMA NextApplied == TypeOK /\ AppliedInv /\ [Next]_vars => AppliedInv'
<1> SUFFICES ASSUME TypeOK, AppliedInv, [Next]_vars PROVE AppliedInv'
    OBVIOUS
<1>1. CASE UNCHANGED vars
    <2>1. Remembers /\ UNCHANGED <<rec, row, told, idem, task, queue, worker>>
        BY <1>1 DEF Remembers, vars, airtableVars, storageVars, memoryVars, d1Vars
    <2> QED
        BY <2>1, UntouchedStaysBacked DEF AppliedInv
<1>2. CASE Next
    BY <1>2, ProviderApplied, StartJobApplied, AnswerApplied, OutcomeApplied,
       ExecuteApplied, ProjectionApplied, RecoveryApplied, EnvironmentApplied DEF Next
<1> QED
    BY <1>1, <1>2

\* Every piece of evidence that a command was written, wherever the object keeps
\* it, goes back to a write that took effect in Airtable.
THEOREM EvidenceIsReal == Spec => []AppliedInv
<1>1. Init => AppliedInv
    BY InitApplied
<1>2. TypeOK /\ AppliedInv /\ [Next]_vars => AppliedInv'
    BY NextApplied
<1> QED
    BY <1>1, <1>2, TypeCorrect, PTL DEF Spec

\* No caller, ledger row or D1 row says that a command was committed before a
\* write of it took effect: for any commands and records, any interleaving of
\* clients, recoveries and side tasks, and writes that land as late as they like.
THEOREM CommitsAreApplied == Spec => []CommittedIsApplied
<1>1. AppliedInv => CommittedIsApplied
    BY DEF AppliedInv, RowsBacked, AnswersBacked, Backed, Claims, CommittedIsApplied
<1> QED
    BY <1>1, EvidenceIsReal, PTL

-----------------------------------------------------------------------------
(* Replies, the D1 row and the alarm: what every copy of a row, every task  *)
(* and every caller may rely on, however stale                              *)

\* A copy of a row, whenever it was taken, says nothing that the row now denies.
Faithful(old, now) ==
    /\ old.response # "none" => now.response = old.response
    /\ old.state = "failed" => now.failure

\* How far a task t in slot s has come says what is stored of its command: its
\* row r and its idempotency status i.
TaskFits(s, t, r, i) ==
    /\ Faithful(t.copy, r)
    /\ t.kind = "failure" => t.phase = "failing"
    /\ t.phase = "failing" => r.failure
    /\ t.phase = "respond" => t.copy.response # "none"
    /\ t.phase = "finishing" => i # "none"
    /\ t.phase = "reporting" => r.response # "none"
    /\ s # "base" => /\ t.phase \in {"projecting", "finishing", "reporting", "failing"}
                     /\ t.phase # "failing" => t.copy.response # "none"

JobFits(j, r) ==
    /\ Faithful(j.copy, r)
    /\ j.by = "client" => j.kind = "execute"
    /\ j.kind = "failure" => j.copy.state = "failed"

RowsFit == \A c \in Command : Faithful(row[c], row[c])
QueueFits == \A i \in 1..Len(queue) : JobFits(queue[i], row[queue[i].cmd])
SelectionsFit ==
    \A w \in Worker : \A i \in 1..Len(worker[w].rows) :
        Faithful(worker[w].rows[i].copy, row[worker[w].rows[i].cmd])
TasksFit ==
    \A s \in Slot : task[s].phase # "idle" =>
        TaskFits(s, task[s], row[task[s].cmd], idem[task[s].cmd])

\* D1's idempotency row comes with the projection, or with a failure; a complete
\* row has one.
AuditFits ==
    \A c \in Command :
        /\ idem[c] = "failed" => row[c].failure
        /\ idem[c] \in {"committed", "repaired"} =>
              proj[EntityOf[c]].version >= WrittenVersion(c)
        /\ row[c].state = "complete" => idem[c] # "none"

LedgerInv == RowsFit /\ QueueFits /\ SelectionsFit /\ TasksFit /\ AuditFits

\* The acknowledgement given is the response stored.
AnswersStored ==
    \A c \in Command : \A a \in {"committed", "repair"} :
        Told(c, a) => row[c].response = a

\* Nobody waits for a command whose response is stored, but for the job that
\* has just stored "repair" and is about to say so.
CallersWait ==
    \A c \in Command :
        waiting[c] # {} /\ row[c].response # "none" =>
            /\ base.cmd = c /\ base.kind # "failure" /\ base.phase = "reporting"
            /\ base.copy.response = "none" /\ row[c].response = "repair"

\* A client's job works on a row without a response, which is leased while
\* Airtable is read and written: nobody else completes it meanwhile.
ClientsJob ==
    base.by = "client" =>
        /\ base.phase \in {"attempting", "reading", "writing", "recovering"} =>
              row[base.cmd].response = "none"
        /\ base.phase \in {"reading", "writing"} => row[base.cmd].state = "leased"

-----------------------------------------------------------------------------
(* What a step can do to a row, a task, the queue and the selections *)

\* A row after a step is the row before it, or one of the updates of the code.
RowStep(c) ==
    \/ row'[c] = row[c]
    \/ /\ StartJob /\ row[c].state = "none"
       /\ \E h \in Hash \cup {NoHash} :
             row'[c] = [row[c] EXCEPT !.state = "received", !.hash = h]
    \/ base.cmd = c /\ BeginAttempt /\ row'[c] = Leased(row[c])
    \/ base.cmd = c /\ ResultPersisted /\ row'[c] = AuthorityResult(row[c])
    \/ base.cmd = c /\ FailurePersisted /\ row'[c] = Failure(row[c])
    \/ base.cmd = c /\ WriteUnanswered /\ row'[c] = OutcomeUnknown(row[c])
    \/ base.cmd = c /\ RecoverDefers /\ row'[c] = Deferred(row[c])
    \/ \E s \in Slot :
          /\ task[s].cmd = c /\ task[s].phase \in {"projecting", "finishing"}
          /\ ToReporting(s)
          /\ row'[c] = Persisted(row[c], "projection_pending", Reply(s, "repair"))
    \/ \E s \in Slot :
          /\ task[s].cmd = c /\ FinishProjection(s)
          /\ row'[c] = Persisted(row[c], "complete", Reply(s, "committed"))
    \/ \E s \in Slot :
          /\ task[s].cmd = c /\ FailureProjects(s)
          /\ row'[c] = [row[c] EXCEPT !.failureProjected = TRUE]
    \/ TimerElapses(c) /\ row'[c] = [row[c] EXCEPT !.timer = "due"]

\* Every step leaves a row alone or makes one of those updates.
LEMMA RowSteps ==
    ASSUME TypeOK, Next, NEW c \in Command
    PROVE  RowStep(c)
<1> USE DEF storageVars, d1Vars, memoryVars, airtableVars
<1>0. row \in [Command -> Row]
    BY DEF TypeOK
<1>1. ASSUME NEW d \in Command, NEW r, row' = [row EXCEPT ![d] = r], d # c
      PROVE  RowStep(c)
    BY <1>0, <1>1 DEF RowStep
<1>2. ASSUME NEW d \in Command, NEW r, row' = [row EXCEPT ![d] = r], d = c
      PROVE  row'[c] = r
    BY <1>0, <1>2
<1>3. CASE StartJob
    <2> DEFINE j == Head(queue)
               subject == Inserted(row[j.cmd], j.hash)
    <2>1. queue \in Seq(Job) /\ queue # <<>>
        BY <1>3 DEF StartJob, TypeOK
    <2>2. j \in Job
        BY <2>1
    <2>3. j.cmd \in Command /\ j.hash \in Hash \cup {NoHash}
        BY <2>2 DEF Job
    <2>4. CASE j.kind # "execute"
        BY <1>3, <2>4 DEF StartJob, RowStep
    <2>5. CASE j.kind = "execute"
        <3>1. row' = [row EXCEPT ![j.cmd] = subject]
            BY <1>3, <2>5 DEF StartJob
        <3>2. subject = row[j.cmd] \/
                 (row[j.cmd].state = "none" /\
                  subject = [row[j.cmd] EXCEPT !.state = "received", !.hash = j.hash])
            BY DEF Inserted
        <3>3. PICK d \in Command : d = j.cmd
            BY <2>3
        <3>4. PICK h \in Hash \cup {NoHash} : h = j.hash
            BY <2>3
        <3>5. PICK r : r = subject
            OBVIOUS
        <3> HIDE DEF subject, j
        <3>6. row' = [row EXCEPT ![d] = r]
            BY <3>1, <3>3, <3>5
        <3>7. CASE d = c
            BY <1>2, <1>3, <3>2, <3>3, <3>4, <3>5, <3>6, <3>7 DEF RowStep
        <3> QED
            BY <1>1, <3>6, <3>7
    <2> QED
        BY <2>4, <2>5
<1>4. ASSUME base.phase # "idle", NEW r, row' = [row EXCEPT ![base.cmd] = r]
      PROVE  RowStep(c) \/ (base.cmd = c /\ row'[c] = r)
    <2>1. PICK d \in Command : d = base.cmd
        BY <1>4, ActiveBase
    <2> QED
        BY <1>1, <1>2, <1>4, <2>1
<1>5. CASE BeginAttempt
    BY <1>4, <1>5 DEF BeginAttempt, RowStep
<1>6. ASSUME base.phase # "idle", ResultPersisted PROVE RowStep(c)
    BY <1>4, <1>6 DEF ResultPersisted, RowStep
<1>7. ASSUME base.phase # "idle", FailurePersisted PROVE RowStep(c)
    BY <1>4, <1>7 DEF FailurePersisted, RowStep
<1>8. CASE Provider
    <2>1. CASE WriteUnanswered
        BY <1>4, <2>1 DEF WriteUnanswered, RowStep
    <2>2. CASE StoreSends
        BY <2>2 DEF StoreSends, RowStep
    <2> QED
        BY <1>6, <1>7, <1>8, <2>1, <2>2
        DEF Provider, StoreReplays, StoreReadFails, StoreConflicts, WriteAnswered, WriteRefused
<1>9. CASE Recover
    <2>1. CASE RecoverDefers
        BY <1>4, <2>1 DEF RecoverDefers, RowStep
    <2>2. CASE RecoverReadFails \/ RecoverWaits \/ RecoverRetries
        BY <2>2 DEF RecoverReadFails, RecoverWaits, RecoverRetries, RowStep
    <2> QED
        BY <1>6, <1>9, <2>1, <2>2 DEF Recover, RecoverApplied
<1>10. ASSUME NEW s \in Slot, Projection(s) PROVE RowStep(c)
    <2>0. task[s].phase # "idle"
        BY <1>10
        DEF Projection, ProjectCommits, ProjectDrainFails, ProjectFails, FinishProjection,
            ReportRepair, FailureProjects, FailureProjectionFails
    <2>1. PICK d \in Command : d = task[s].cmd
        BY <2>0, ActiveTask
    <2>2. ASSUME ToReporting(s), task[s].phase \in {"projecting", "finishing"}
          PROVE  RowStep(c)
        <3>1. row' = [row EXCEPT ![d] = Persisted(row[d], "projection_pending", Reply(s, "repair"))]
            BY <2>1, <2>2 DEF ToReporting
        <3> QED
            BY <1>1, <1>2, <2>1, <2>2, <3>1 DEF RowStep
    <2>3. CASE ProjectDrainFails(s) \/ ProjectFails(s)
        BY <2>2, <2>3 DEF ProjectDrainFails, ProjectFails
    <2>4. CASE FinishProjection(s)
        <3>1. row' = [row EXCEPT ![d] = Persisted(row[d], "complete", Reply(s, "committed"))]
            BY <2>1, <2>4 DEF FinishProjection
        <3> QED
            BY <1>1, <1>2, <2>1, <2>4, <3>1 DEF RowStep
    <2>5. CASE FailureProjects(s)
        <3>1. row' = [row EXCEPT ![d] = [row[d] EXCEPT !.failureProjected = TRUE]]
            BY <1>0, <2>1, <2>5 DEF FailureProjects
        <3> QED
            BY <1>1, <1>2, <2>1, <2>5, <3>1 DEF RowStep
    <2>6. CASE ProjectCommits(s) \/ ReportRepair(s) \/ FailureProjectionFails(s)
        BY <2>6 DEF ProjectCommits, ReportRepair, FailureProjectionFails, RowStep
    <2> QED
        BY <1>10, <2>3, <2>4, <2>5, <2>6 DEF Projection
<1>11. CASE Execute \/ Respond \/ AlarmFires \/ \E w \in Worker : Pass(w)
    BY <1>11
    DEF Execute, ExecuteReplaysFailure, ExecuteReplaysResponse, ExecuteJoins, ExecuteEnqueues,
        Respond, AlarmFires, Pass, RecoverPending, RecoverNext, RecoverEnds, RowStep
<1>12. CASE Environment
    <2>1. ASSUME NEW d \in Command, TimerElapses(d) PROVE RowStep(c)
        <3>1. row' = [row EXCEPT ![d] = [row[d] EXCEPT !.timer = "due"]]
            BY <1>0, <2>1 DEF TimerElapses
        <3> QED
            BY <1>1, <1>2, <2>1, <3>1 DEF RowStep
    <2>2. ASSUME NEW d \in Command, WriteLands(d) \/ WriteIsLost(d) PROVE RowStep(c)
        BY <2>2 DEF WriteLands, WriteIsLost, RowStep
    <2>3. CASE Crash
        BY <2>3 DEF Crash, RowStep
    <2> QED
        BY <1>12, <2>1, <2>2, <2>3 DEF Environment
<1> QED
    BY <1>3, <1>5, <1>8, <1>9, <1>10, <1>11, <1>12 DEF Next

\* Responses and failures stay in the row that stores them.
LEMMA RowGrows ==
    ASSUME TypeOK, RowsFit, Next, NEW c \in Command
    PROVE  /\ row[c].response # "none" => row'[c].response = row[c].response
           /\ row[c].failure => row'[c].failure
           /\ row'[c].state = "failed" => row'[c].failure
           /\ row[c] \in Row
<1>0. row[c] \in Row /\ (row[c].state = "failed" => row[c].failure)
    BY DEF TypeOK, RowsFit, Faithful
<1>1. RowStep(c)
    BY RowSteps
<1> USE DEF Row
<1>2. CASE row'[c] = row[c]
    BY <1>0, <1>2
<1>3. ASSUME NEW h, row'[c] = [row[c] EXCEPT !.state = "received", !.hash = h]
      PROVE  /\ row'[c].response = row[c].response
             /\ row'[c].failure = row[c].failure /\ row'[c].state = "received"
    BY <1>0, <1>3
<1>4. CASE row'[c] = Leased(row[c])
    BY <1>0, <1>4 DEF Leased
<1>5. CASE row'[c] = AuthorityResult(row[c])
    BY <1>0, <1>5 DEF AuthorityResult
<1>6. CASE row'[c] = Failure(row[c])
    BY <1>0, <1>6 DEF Failure
<1>7. CASE row'[c] = OutcomeUnknown(row[c]) \/ row'[c] = Deferred(row[c])
    BY <1>0, <1>7 DEF OutcomeUnknown, Deferred
<1>8. ASSUME NEW st, NEW rp, row'[c] = Persisted(row[c], st, rp)
      PROVE  /\ row[c].response # "none" => row'[c].response = row[c].response
             /\ row'[c].failure = row[c].failure /\ row'[c].state = st
    BY <1>0, <1>8 DEF Persisted
<1>9. CASE row'[c] = [row[c] EXCEPT !.failureProjected = TRUE]
           \/ row'[c] = [row[c] EXCEPT !.timer = "due"]
    BY <1>0, <1>9
<1> HIDE DEF Row
<1>10. \/ row'[c] = row[c]
       \/ \E h : row'[c] = [row[c] EXCEPT !.state = "received", !.hash = h]
       \/ row'[c] = Leased(row[c]) \/ row'[c] = AuthorityResult(row[c])
       \/ row'[c] = Failure(row[c])
       \/ row'[c] = OutcomeUnknown(row[c]) \/ row'[c] = Deferred(row[c])
       \/ \E rp : row'[c] = Persisted(row[c], "projection_pending", rp)
       \/ \E rp : row'[c] = Persisted(row[c], "complete", rp)
       \/ row'[c] = [row[c] EXCEPT !.failureProjected = TRUE]
       \/ row'[c] = [row[c] EXCEPT !.timer = "due"]
    BY <1>1, Zenon DEF RowStep
<1>11. CASE \E h : row'[c] = [row[c] EXCEPT !.state = "received", !.hash = h]
    BY <1>0, <1>3, <1>11
<1>12. CASE \E rp : row'[c] = Persisted(row[c], "projection_pending", rp)
    BY <1>0, <1>8, <1>12
<1>13. CASE \E rp : row'[c] = Persisted(row[c], "complete", rp)
    BY <1>0, <1>8, <1>13
<1> QED
    BY <1>2, <1>4, <1>5, <1>6, <1>7, <1>9, <1>10, <1>11, <1>12, <1>13

\* What held of an older copy still holds after a step.
LEMMA FaithfulStays ==
    ASSUME TypeOK, RowsFit, Next, NEW c \in Command, NEW old, Faithful(old, row[c])
    PROVE  Faithful(old, row'[c])
BY RowGrows DEF Faithful

\* A row that says failed has its failure stored, after every step.
LEMMA RowsFitStep ==
    ASSUME TypeOK, RowsFit, Next
    PROVE  RowsFit'
BY RowGrows DEF RowsFit, Faithful

\* D1's idempotency row is written once, with the projection or with a failure,
\* and an older version never replaces a newer one.
LEMMA AuditSteps ==
    ASSUME TypeOK, Next, NEW c \in Command
    PROVE  /\ \A e \in Entity : proj'[e].version >= proj[e].version
           /\ \/ idem'[c] = idem[c]
              \/ /\ idem[c] = "none"
                 /\ idem'[c] \in {"committed", "repaired"}
                 /\ proj'[EntityOf[c]].version >= WrittenVersion(c)
              \/ /\ idem[c] = "none" /\ idem'[c] = "failed"
                 /\ \E s \in Slot : FailureProjects(s) /\ task[s].cmd = c
           /\ \A s \in Slot : ProjectCommits(s) /\ task[s].cmd = c => idem'[c] # "none"
<1> USE DEF airtableVars, storageVars, memoryVars, d1Vars
<1>0. /\ idem \in [Command -> {"none", "committed", "repaired", "failed"}]
      /\ proj \in [Entity -> [version : Nat, by : Command \cup {NoCommand}]]
      /\ \A d \in Command : EntityOf[d] \in Entity /\ WrittenVersion(d) \in Nat
    BY EntityOfAssumption, VersionAssumption DEF TypeOK, WrittenVersion
<1>1. ASSUME NEW d \in Command, NEW reply, ProjectionBatch(d, reply)
      PROVE  /\ \A e \in Entity : proj'[e].version >= proj[e].version
             /\ idem'[d] # "none"
             /\ \/ idem'[c] = idem[c]
                \/ /\ idem[c] = "none"
                   /\ idem'[c] \in {"committed", "repaired"}
                   /\ proj'[EntityOf[c]].version >= WrittenVersion(c)
    <2>1. CASE idem[d] # "none"
        BY <1>0, <1>1, <2>1 DEF ProjectionBatch
    <2>2. CASE idem[d] = "none"
        <3>1. /\ idem' = [idem EXCEPT ![d] = IF reply = "repair" THEN "repaired" ELSE "committed"]
              /\ proj' = IF proj[EntityOf[d]].version <= WrittenVersion(d)
                         THEN [proj EXCEPT ![EntityOf[d]] = [version |-> WrittenVersion(d), by |-> d]]
                         ELSE proj
            BY <1>1, <2>2 DEF ProjectionBatch
        <3>2. idem'[d] \in {"committed", "repaired"} /\ \A x \in Command : x # d => idem'[x] = idem[x]
            BY <1>0, <3>1
        <3>3. /\ \A e \in Entity : proj'[e].version >= proj[e].version
              /\ proj'[EntityOf[d]].version >= WrittenVersion(d)
            <4>1. CASE proj[EntityOf[d]].version <= WrittenVersion(d)
                <5>1. \A e \in Entity : proj'[e] = IF e = EntityOf[d]
                                                   THEN [version |-> WrittenVersion(d), by |-> d]
                                                   ELSE proj[e]
                    BY <1>0, <3>1, <4>1
                <5> QED
                    BY <1>0, <4>1, <5>1
            <4>2. CASE ~(proj[EntityOf[d]].version <= WrittenVersion(d))
                BY <1>0, <3>1, <4>2
            <4> QED
                BY <4>1, <4>2
        <3> QED
            BY <2>2, <3>2, <3>3
    <2> QED
        BY <2>1, <2>2
<1>2. ASSUME UNCHANGED <<idem, proj>>
      PROVE  /\ \A e \in Entity : proj'[e].version >= proj[e].version
             /\ idem'[c] = idem[c]
    BY <1>0, <1>2
<1>3. ASSUME NEW s \in Slot, ProjectCommits(s) \/ ProjectDrainFails(s)
      PROVE  task[s].cmd \in Command /\ \E reply : ProjectionBatch(task[s].cmd, reply)
    <2>1. task[s].phase # "idle"
        BY <1>3 DEF ProjectCommits, ProjectDrainFails
    <2> QED
        BY <1>3, <2>1, ActiveTask DEF ProjectCommits, ProjectDrainFails
<1>4. ASSUME NEW s \in Slot, FailureProjects(s)
      PROVE  /\ UNCHANGED proj
             /\ \/ idem'[c] = idem[c]
                \/ idem[c] = "none" /\ idem'[c] = "failed" /\ task[s].cmd = c
    BY <1>0, <1>4 DEF FailureProjects
<1>5. \A s \in Slot : ProjectCommits(s) /\ task[s].cmd = c => idem'[c] # "none"
    BY <1>1, <1>3
<1>6. ASSUME NEW s \in Slot, Projection(s)
      PROVE  \/ UNCHANGED <<idem, proj>>
             \/ ProjectCommits(s) \/ ProjectDrainFails(s) \/ FailureProjects(s)
    BY <1>6 DEF Projection, ProjectFails, FinishProjection, ReportRepair, FailureProjectionFails
<1>7. CASE UNCHANGED <<idem, proj>>
    BY <1>2, <1>5, <1>7
<1>8. CASE \E s \in Slot : Projection(s)
    <2>1. PICK s \in Slot : Projection(s)
        BY <1>8
    <2>2. CASE ProjectCommits(s) \/ ProjectDrainFails(s)
        BY <1>1, <1>3, <1>5, <2>2
    <2>3. CASE FailureProjects(s)
        <3>1. \A e \in Entity : proj'[e].version >= proj[e].version
            BY <1>0, <1>4, <2>3
        <3> QED
            BY <1>4, <1>5, <2>3, <3>1
    <2> QED
        BY <1>6, <1>7, <2>1, <2>2, <2>3
<1>9. CASE ~ \E s \in Slot : Projection(s)
    <2>1. UNCHANGED <<idem, proj>>
        BY <1>9
        DEF Next, BeginAttempt, StartJob, Respond, Provider, StoreReplays, StoreReadFails,
            StoreConflicts, StoreSends, WriteAnswered, WriteRefused, WriteUnanswered,
            ResultPersisted, FailurePersisted, Recover, RecoverReadFails, RecoverApplied,
            RecoverWaits, RecoverRetries, RecoverDefers, Execute, ExecuteReplaysFailure,
            ExecuteReplaysResponse, ExecuteJoins, ExecuteEnqueues, AlarmFires, Pass,
            RecoverPending, RecoverNext, RecoverEnds, Environment, TimerElapses, WriteLands,
            WriteIsLost, Crash
    <2> QED
        BY <1>7, <2>1
<1> QED
    BY <1>8, <1>9

\* A row is only completed by a task whose batch is in D1.
LEMMA AuditFitsStep ==
    ASSUME TypeOK, LedgerInv, Next
    PROVE  AuditFits'
<1> SUFFICES ASSUME NEW c \in Command
             PROVE  /\ idem'[c] = "failed" => row'[c].failure
                    /\ idem'[c] \in {"committed", "repaired"} =>
                          proj'[EntityOf[c]].version >= WrittenVersion(c)
                    /\ row'[c].state = "complete" => idem'[c] # "none"
    BY DEF AuditFits, WrittenVersion
<1>0. RowsFit /\ TasksFit /\ AuditFits
    BY DEF LedgerInv
<1>1. /\ row[c].failure => row'[c].failure
      /\ row[c] \in Row
    BY <1>0, RowGrows
<1>2. EntityOf[c] \in Entity /\ WrittenVersion(c) \in Nat
    BY EntityOfAssumption, VersionAssumption DEF WrittenVersion
<1>3. idem'[c] = "failed" => row'[c].failure
    <2>1. ASSUME NEW s \in Slot, FailureProjects(s), task[s].cmd = c
          PROVE  row[c].failure
        BY <1>0, <2>1 DEF FailureProjects, TasksFit, TaskFits
    <2> QED
        BY <1>0, <1>1, <2>1, AuditSteps DEF AuditFits
<1>4. idem'[c] \in {"committed", "repaired"} => proj'[EntityOf[c]].version >= WrittenVersion(c)
    <2>1. CASE idem'[c] = idem[c]
        <3>1. proj[EntityOf[c]].version \in Nat /\ proj'[EntityOf[c]].version >= proj[EntityOf[c]].version
            BY <1>2, AuditSteps DEF TypeOK
        <3>2. proj' \in [Entity -> [version : Nat, by : Command \cup {NoCommand}]]
            BY NextTypeOK DEF TypeOK
        <3>3. proj'[EntityOf[c]].version \in Nat
            BY <1>2, <3>2
        <3> QED
            BY <1>0, <1>2, <2>1, <3>1, <3>3 DEF AuditFits
    <2> QED
        BY <2>1, AuditSteps
<1>5. row'[c].state = "complete" => idem'[c] # "none"
    <2>1. idem[c] # "none" => idem'[c] # "none"
        BY AuditSteps
    <2>2. ASSUME NEW s \in Slot, task[s].cmd = c, FinishProjection(s) PROVE idem[c] # "none"
        BY <1>0, <2>2 DEF FinishProjection, TasksFit, TaskFits
    <2>3. row'[c].state = "complete" =>
              row[c].state = "complete" \/ \E s \in Slot : task[s].cmd = c /\ FinishProjection(s)
        <3>1. RowStep(c)
            BY RowSteps
        <3>2. /\ Leased(row[c]).state = "leased" /\ AuthorityResult(row[c]).state = "airtable_committed"
              /\ Failure(row[c]).state = "failed" /\ OutcomeUnknown(row[c]).state = "outcome_unknown"
              /\ Deferred(row[c]).state = "outcome_unknown"
            BY <1>1 DEF Leased, AuthorityResult, Failure, OutcomeUnknown, Deferred, Row
        <3>3. ASSUME NEW rp PROVE Persisted(row[c], "projection_pending", rp).state = "projection_pending"
            BY <1>1 DEF Persisted, Row
        <3>4. /\ [row[c] EXCEPT !.failureProjected = TRUE].state = row[c].state
              /\ [row[c] EXCEPT !.timer = "due"].state = row[c].state
            BY <1>1 DEF Row
        <3>5. ASSUME NEW h PROVE [row[c] EXCEPT !.state = "received", !.hash = h].state = "received"
            BY <1>1 DEF Row
        <3>6. \/ row'[c] = row[c]
              \/ \E h : row'[c] = [row[c] EXCEPT !.state = "received", !.hash = h]
              \/ row'[c] = Leased(row[c]) \/ row'[c] = AuthorityResult(row[c])
              \/ row'[c] = Failure(row[c])
              \/ row'[c] = OutcomeUnknown(row[c]) \/ row'[c] = Deferred(row[c])
              \/ \E rp : row'[c] = Persisted(row[c], "projection_pending", rp)
              \/ \E s \in Slot : task[s].cmd = c /\ FinishProjection(s)
              \/ row'[c] = [row[c] EXCEPT !.failureProjected = TRUE]
              \/ row'[c] = [row[c] EXCEPT !.timer = "due"]
            BY <3>1, Zenon DEF RowStep
        <3>7. CASE \E h : row'[c] = [row[c] EXCEPT !.state = "received", !.hash = h]
            BY <3>5, <3>7
        <3>8. CASE \E rp : row'[c] = Persisted(row[c], "projection_pending", rp)
            BY <3>3, <3>8
        <3>9. CASE row'[c] = [row[c] EXCEPT !.failureProjected = TRUE] \/ row'[c] = [row[c] EXCEPT !.timer = "due"]
            BY <3>4, <3>9
        <3> QED
            BY <3>2, <3>6, <3>7, <3>8, <3>9
    <2> QED
        BY <1>0, <2>1, <2>2, <2>3 DEF AuditFits
<1> QED
    BY <1>3, <1>4, <1>5

\* A task goes on to phase ph with row r, and is otherwise as it was.
Moved(s, ph, r) ==
    /\ task'[s].phase = ph /\ task'[s].copy = r
    /\ task'[s].kind = task[s].kind /\ task'[s].cmd = task[s].cmd /\ task'[s].by = task[s].by

\* The steps with which a task ends.
Ends(s) ==
    \/ Crash
    \/ FinishProjection(s) \/ ReportRepair(s)
    \/ FailureProjects(s) \/ FailureProjectionFails(s)
    \/ s = "base" /\ (Respond \/ RecoverReadFails \/ RecoverWaits \/ RecoverDefers)

\* The steps with which it goes on, and from which phase.
Advances(s) ==
    \/ s = "base" /\ base.phase = "attempting" /\ BeginAttempt /\ Moved(s, "reading", BlankRow)
    \/ s = "base" /\ base.phase = "reading" /\ StoreSends /\ Moved(s, "writing", BlankRow)
    \/ /\ s = "base" /\ base.phase \in {"reading", "writing", "recovering"}
       /\ ResultPersisted /\ Moved(s, "projecting", row'[base.cmd])
    \/ /\ s = "base" /\ base.phase \in {"reading", "writing"}
       /\ FailurePersisted /\ Moved(s, "failing", row'[base.cmd])
    \/ /\ s = "base" /\ base.phase = "writing"
       /\ WriteUnanswered /\ Moved(s, "recovering", row'[base.cmd])
    \/ /\ s = "base" /\ base.phase = "recovering"
       /\ RecoverRetries /\ Moved(s, "attempting", base.copy)
    \/ task[s].phase = "projecting" /\ ProjectCommits(s) /\ Moved(s, "finishing", task[s].copy)
    \/ /\ task[s].phase \in {"projecting", "finishing"}
       /\ ToReporting(s) /\ Moved(s, "reporting", task[s].copy)

\* A task begins: from the queue, or with waitUntil.
Begins(s) ==
    /\ task[s].phase = "idle"
    /\ \/ /\ s = "base" /\ StartJob
          /\ LET j == Head(queue)
                 subject == IF j.kind = "execute" THEN Inserted(row[j.cmd], j.hash) ELSE j.copy
             IN  task'[s] = [phase |-> IF j.kind = "failure" THEN "failing" ELSE FirstPhase(subject),
                             kind |-> j.kind, cmd |-> j.cmd, copy |-> subject, by |-> j.by]
       \/ /\ s # "base" /\ Respond
          /\ task'[s] = [phase |-> "projecting", kind |-> "side", cmd |-> base.cmd,
                         copy |-> base.copy, by |-> "client"]
       \/ /\ s # "base"
          /\ \E c \in Command :
                /\ row[c].state = "failed" /\ UNCHANGED row
                /\ task'[s] = [phase |-> "failing", kind |-> "side", cmd |-> c,
                               copy |-> row[c], by |-> "client"]

TaskStep(s) ==
    \/ task'[s] = task[s]
    \/ task'[s] = Idle /\ Ends(s)
    \/ Advances(s)
    \/ Begins(s)

\* The base slot is the running job.
LEMMA ContinueMoves ==
    ASSUME TypeOK, base.phase # "idle", NEW ph, NEW r, Continue(ph, r)
    PROVE  /\ Moved("base", ph, r)
           /\ \A s \in Slot \ {"base"} : task'[s] = task[s]
<1>1. base \in [phase : Phase \ {"idle"}, kind : Kind, cmd : Command,
                copy : Row, by : {"client"} \cup Worker]
    BY BaseSlot DEF TypeOK, Task, Idle, base
<1>2. task' = [task EXCEPT !["base"] = [[base EXCEPT !.phase = ph] EXCEPT !.copy = r]]
    BY BaseSlot DEF Continue, base, TypeOK
<1> DEFINE t == [[base EXCEPT !.phase = ph] EXCEPT !.copy = r]
<1>3. /\ t.phase = ph /\ t.copy = r
      /\ t.kind = base.kind /\ t.cmd = base.cmd /\ t.by = base.by
    BY <1>1
<1>4. task' = [task EXCEPT !["base"] = t]
    BY <1>2
<1> HIDE DEF t
<1>5. task'["base"] = t /\ \A s \in Slot \ {"base"} : task'[s] = task[s]
    BY <1>4, BaseSlot DEF TypeOK
<1> QED
    BY <1>3, <1>5 DEF Moved, base

\* So is a task outside the queue, or in it, whose phase alone changes.
LEMMA PhaseMoves ==
    ASSUME TypeOK, NEW s \in Slot, task[s].phase # "idle", NEW ph,
           task' = [task EXCEPT ![s].phase = ph]
    PROVE  /\ Moved(s, ph, task[s].copy)
           /\ \A u \in Slot \ {s} : task'[u] = task[u]
<1> DEFINE t == [task[s] EXCEPT !.phase = ph]
<1>1. task[s] \in [phase : Phase \ {"idle"}, kind : Kind, cmd : Command,
                   copy : Row, by : {"client"} \cup Worker]
    BY DEF TypeOK, Task, Idle
<1>2. /\ t.phase = ph /\ t.copy = task[s].copy
      /\ t.kind = task[s].kind /\ t.cmd = task[s].cmd /\ t.by = task[s].by
    BY <1>1
<1>3. task' = [task EXCEPT ![s] = t]
    BY DEF TypeOK
<1> HIDE DEF t
<1>4. task'[s] = t /\ \A u \in Slot \ {s} : task'[u] = task[u]
    BY <1>3 DEF TypeOK
<1> QED
    BY <1>2, <1>4 DEF Moved

\* Every step leaves a slot alone, ends its task, moves it on or begins one.
LEMMA TaskSteps ==
    ASSUME TypeOK, Next, NEW u \in Slot
    PROVE  TaskStep(u)
<1> USE DEF storageVars, d1Vars, memoryVars, airtableVars
<1>0. task \in [Slot -> Task] /\ Side \subseteq Slot /\ "base" \notin Side /\ "base" \in Slot
    BY NamesAssumption DEF TypeOK, Slot
<1>1. CASE UNCHANGED task
    BY <1>1 DEF TaskStep
<1>2. ASSUME base.phase # "idle", NEW ph, NEW r, Continue(ph, r)
      PROVE  \/ u # "base" /\ task'[u] = task[u]
             \/ u = "base" /\ Moved(u, ph, r)
    BY <1>2, ContinueMoves
<1>3. ASSUME base.phase # "idle", EndBase
      PROVE  \/ u # "base" /\ task'[u] = task[u]
             \/ u = "base" /\ task'[u] = Idle
    BY <1>0, <1>3 DEF EndBase
<1>4. CASE StartJob
    <2> DEFINE j == Head(queue)
               subject == IF j.kind = "execute" THEN Inserted(row[j.cmd], j.hash) ELSE j.copy
               t == [phase |-> IF j.kind = "failure" THEN "failing" ELSE FirstPhase(subject),
                     kind |-> j.kind, cmd |-> j.cmd, copy |-> subject, by |-> j.by]
    <2>1. task' = [task EXCEPT !["base"] = t]
        BY <1>4 DEF StartJob
    <2>2. CASE u = "base"
        <3>1. task'[u] = t
            <4> HIDE DEF t
            <4> QED
                BY <1>0, <2>1, <2>2
        <3>2. task[u].phase = "idle"
            BY <1>4, <2>2 DEF StartJob, base
        <3> QED
            BY <1>4, <2>2, <3>1, <3>2 DEF TaskStep, Begins
    <2>3. CASE u # "base"
        <3> HIDE DEF t
        <3> QED
            BY <1>0, <2>1, <2>3 DEF TaskStep
    <2> QED
        BY <2>2, <2>3
<1>5. CASE Respond
    <2>1. CASE base.copy.state = "complete"
        BY <1>0, <1>5, <2>1 DEF Respond, TaskStep, Ends
    <2>2. CASE base.copy.state # "complete"
        <3> DEFINE t == [phase |-> "projecting", kind |-> "side", cmd |-> base.cmd,
                         copy |-> base.copy, by |-> "client"]
        <3>1. PICK s \in Side :
                  task[s] = Idle /\ task' = [task EXCEPT !["base"] = Idle, ![s] = t]
            BY <1>5, <2>2 DEF Respond
        <3>2. /\ u = "base" => task'[u] = Idle
              /\ u = s => task'[u] = t /\ u # "base" /\ task[u] = Idle
              /\ u # "base" /\ u # s => task'[u] = task[u]
            <4> HIDE DEF t
            <4> QED
                BY <1>0, <3>1
        <3> QED
            BY <1>5, <3>2, IdleIsIdle DEF TaskStep, Ends, Begins
    <2> QED
        BY <2>1, <2>2
<1>6. CASE BeginAttempt
    <2>1. base.phase = "attempting" /\ Continue("reading", BlankRow)
        BY <1>6 DEF BeginAttempt
    <2> QED
        BY <1>2, <1>6, <2>1 DEF TaskStep, Advances
<1>7. ASSUME base.phase \in {"reading", "writing", "recovering"}, ResultPersisted
      PROVE  TaskStep(u)
    <2>1. Continue("projecting", row'[base.cmd])
        BY <1>7 DEF ResultPersisted
    <2> QED
        BY <1>2, <1>7, <2>1 DEF TaskStep, Advances
<1>8. ASSUME base.phase \in {"reading", "writing"}, FailurePersisted
      PROVE  TaskStep(u)
    <2>1. Continue("failing", row'[base.cmd])
        BY <1>8 DEF FailurePersisted
    <2> QED
        BY <1>2, <1>8, <2>1 DEF TaskStep, Advances
<1>9. CASE Provider
    <2>1. CASE StoreSends
        <3>1. base.phase = "reading" /\ Continue("writing", BlankRow)
            BY <2>1 DEF StoreSends
        <3> QED
            BY <1>2, <2>1, <3>1 DEF TaskStep, Advances
    <2>2. CASE WriteUnanswered
        <3>1. base.phase = "writing" /\ Continue("recovering", row'[base.cmd])
            BY <2>2 DEF WriteUnanswered
        <3> QED
            BY <1>2, <2>2, <3>1 DEF TaskStep, Advances
    <2> QED
        BY <1>7, <1>8, <1>9, <2>1, <2>2
        DEF Provider, StoreReplays, StoreReadFails, StoreConflicts, WriteAnswered, WriteRefused
<1>10. CASE Recover
    <2>1. CASE RecoverApplied
        BY <1>7, <2>1 DEF RecoverApplied
    <2>2. CASE RecoverRetries
        <3>1. base.phase = "recovering" /\ Continue("attempting", base.copy)
            BY <2>2 DEF RecoverRetries
        <3> QED
            BY <1>2, <2>2, <3>1 DEF TaskStep, Advances
    <2>3. CASE RecoverReadFails \/ RecoverWaits \/ RecoverDefers
        <3>1. base.phase = "recovering" /\ EndBase
            BY <2>3 DEF RecoverReadFails, RecoverWaits, RecoverDefers
        <3> QED
            BY <1>3, <2>3, <3>1 DEF TaskStep, Ends
    <2> QED
        BY <1>10, <2>1, <2>2, <2>3 DEF Recover
<1>11. CASE Execute
    <2>1. PICK c \in Command, h \in Hash :
              \/ ExecuteReplaysFailure(c, h) \/ ExecuteReplaysResponse(c, h)
              \/ ExecuteJoins(c, h) \/ ExecuteEnqueues(c, h)
        BY <1>11 DEF Execute
    <2>2. CASE ExecuteReplaysFailure(c, h)
        <3>1. row[c].state = "failed" /\ UNCHANGED row
            BY <2>2 DEF ExecuteReplaysFailure
        <3>2. CASE row[c].failureProjected
            BY <1>1, <2>2, <3>2 DEF ExecuteReplaysFailure
        <3>3. CASE ~row[c].failureProjected
            <4> DEFINE t == [phase |-> "failing", kind |-> "side", cmd |-> c,
                             copy |-> row[c], by |-> "client"]
            <4>1. PICK s \in Side : task[s] = Idle /\ task' = [task EXCEPT ![s] = t]
                BY <2>2, <3>3 DEF ExecuteReplaysFailure, Spawn
            <4>2. (task'[u] = t /\ u # "base" /\ task[u] = Idle) \/ task'[u] = task[u]
                <5> HIDE DEF t
                <5> QED
                    BY <1>0, <4>1
            <4> QED
                BY <3>1, <4>2, IdleIsIdle DEF TaskStep, Begins
        <3> QED
            BY <3>2, <3>3
    <2>3. CASE ExecuteReplaysResponse(c, h) \/ ExecuteJoins(c, h) \/ ExecuteEnqueues(c, h)
        BY <1>1, <2>3 DEF ExecuteReplaysResponse, ExecuteJoins, ExecuteEnqueues
    <2> QED
        BY <2>1, <2>2, <2>3
<1>12. ASSUME NEW s \in Slot, Projection(s) PROVE TaskStep(u)
    <2>1. ASSUME NEW a, SettleTask(s, a)
          PROVE  IF u = s THEN task'[u] = Idle ELSE task'[u] = task[u]
        BY <1>0, <2>1 DEF SettleTask
    <2>2. CASE ProjectCommits(s)
        <3>1. task[s].phase = "projecting" /\ task' = [task EXCEPT ![s].phase = "finishing"]
            BY <2>2 DEF ProjectCommits
        <3>2. Moved(s, "finishing", task[s].copy) /\ (u # s => task'[u] = task[u])
            BY <3>1, PhaseMoves
        <3> QED
            BY <2>2, <3>1, <3>2 DEF TaskStep, Advances
    <2>3. CASE ProjectDrainFails(s) \/ ProjectFails(s)
        <3>1. task[s].phase \in {"projecting", "finishing"} /\ ToReporting(s)
            BY <2>3 DEF ProjectDrainFails, ProjectFails
        <3>2. task' = [task EXCEPT ![s].phase = "reporting"]
            BY <3>1 DEF ToReporting
        <3>3. Moved(s, "reporting", task[s].copy) /\ (u # s => task'[u] = task[u])
            BY <3>1, <3>2, PhaseMoves
        <3> QED
            BY <3>1, <3>3 DEF TaskStep, Advances
    <2>4. CASE \/ FinishProjection(s) \/ ReportRepair(s)
               \/ FailureProjects(s) \/ FailureProjectionFails(s)
        <3>1. \E a : SettleTask(s, a)
            BY <2>4 DEF FinishProjection, ReportRepair, FailureProjects, FailureProjectionFails
        <3> QED
            BY <2>1, <2>4, <3>1 DEF TaskStep, Ends
    <2> QED
        BY <1>12, <2>2, <2>3, <2>4 DEF Projection
<1>13. CASE AlarmFires \/ \E w \in Worker : Pass(w)
    BY <1>1, <1>13 DEF AlarmFires, Pass, RecoverPending, RecoverNext, RecoverEnds
<1>14. CASE Environment
    <2>1. CASE Crash
        BY <2>1 DEF Crash, TaskStep, Ends
    <2>2. ASSUME NEW c \in Command, TimerElapses(c) \/ WriteLands(c) \/ WriteIsLost(c)
          PROVE  TaskStep(u)
        BY <1>1, <2>2 DEF TimerElapses, WriteLands, WriteIsLost
    <2> QED
        BY <1>14, <2>1, <2>2 DEF Environment
<1> QED
    BY <1>4, <1>5, <1>6, <1>9, <1>10, <1>11, <1>12, <1>13, <1>14 DEF Next

\* Whatever a task does, what it then says of its command is stored.
LEMMA TasksFitStep ==
    ASSUME TypeOK, LedgerInv, Next
    PROVE  TasksFit'
<1> SUFFICES ASSUME NEW s \in Slot, task'[s].phase # "idle"
             PROVE  TaskFits(s, task'[s], row'[task'[s].cmd], idem'[task'[s].cmd])
    BY DEF TasksFit, TaskFits, Faithful
<1> DEFINE t == task'[s]
           c == task'[s].cmd
<1>0. RowsFit /\ TasksFit /\ AuditFits /\ QueueFits
    BY DEF LedgerInv
<1>1. \A d \in Command : Faithful(row'[d], row'[d])
    BY <1>0, RowsFitStep DEF RowsFit, Faithful
<1>2. \A d \in Command :
          /\ \A old : Faithful(old, row[d]) => Faithful(old, row'[d])
          /\ row[d].failure => row'[d].failure
          /\ row[d].response # "none" => row'[d].response # "none"
          /\ idem[d] # "none" => idem'[d] # "none"
    BY <1>0, FaithfulStays, RowGrows, AuditSteps
<1>3. \A d : Faithful(BlankRow, d)
    BY DEF Faithful, BlankRow
<1>4. ASSUME task[s].phase # "idle"
      PROVE  /\ task[s].cmd \in Command
             /\ TaskFits(s, task[s], row[task[s].cmd], idem[task[s].cmd])
    BY <1>0, <1>4, ActiveTask DEF TasksFit
<1>5. CASE task'[s] = task[s]
    <2>1. /\ task[s].cmd \in Command
          /\ TaskFits(s, task[s], row[task[s].cmd], idem[task[s].cmd])
        BY <1>4, <1>5
    <2> QED
        BY <1>2, <1>5, <2>1 DEF TaskFits
<1>6. CASE task'[s] = Idle
    BY <1>6 DEF Idle
<1>7. CASE Advances(s)
    <2>1. task[s].phase # "idle" /\ task'[s].cmd = task[s].cmd
        BY <1>7 DEF Advances, Moved, base
    <2>2. /\ task[s].cmd \in Command
          /\ TaskFits(s, task[s], row[task[s].cmd], idem[task[s].cmd])
        BY <1>4, <2>1
    <2>3. Faithful(task[s].copy, row'[task[s].cmd])
        BY <1>2, <2>2 DEF TaskFits
    <2>4. /\ ProjectCommits(s) => idem'[task[s].cmd] # "none"
          /\ FailurePersisted /\ s = "base" => row'[task[s].cmd].failure
          /\ ToReporting(s) => row'[task[s].cmd].response # "none"
        <3>1. ProjectCommits(s) => idem'[task[s].cmd] # "none"
            BY <2>2, AuditSteps
        <3>2. row[task[s].cmd] \in Row /\ row \in [Command -> Row]
            BY <2>2 DEF TypeOK
        <3>3. FailurePersisted /\ s = "base" => row'[task[s].cmd] = Failure(row[task[s].cmd])
            BY <2>2, <3>2 DEF FailurePersisted, base
        <3>4. Failure(row[task[s].cmd]).failure
            BY <3>2 DEF Failure, Row
        <3>5. ToReporting(s) =>
                 row'[task[s].cmd] = Persisted(row[task[s].cmd], "projection_pending", Reply(s, "repair"))
            BY <2>2, <3>2 DEF ToReporting
        <3>6. Persisted(row[task[s].cmd], "projection_pending", Reply(s, "repair")).response # "none"
            BY <3>2 DEF Persisted, Reply, Row
        <3> QED
            BY <3>1, <3>3, <3>4, <3>5, <3>6
    <2> QED
        BY <1>1, <1>3, <1>7, <2>1, <2>2, <2>3, <2>4 DEF Advances, Moved, TaskFits, base
<1>8. CASE Begins(s)
    <2>1. ASSUME s = "base", StartJob,
                 task'[s] = [phase |-> IF Head(queue).kind = "failure" THEN "failing"
                                       ELSE FirstPhase(IF Head(queue).kind = "execute"
                                                       THEN Inserted(row[Head(queue).cmd], Head(queue).hash)
                                                       ELSE Head(queue).copy),
                             kind |-> Head(queue).kind, cmd |-> Head(queue).cmd,
                             copy |-> IF Head(queue).kind = "execute"
                                      THEN Inserted(row[Head(queue).cmd], Head(queue).hash)
                                      ELSE Head(queue).copy,
                             by |-> Head(queue).by]
          PROVE  TaskFits(s, task'[s], row'[task'[s].cmd], idem'[task'[s].cmd])
        <3>1. queue \in Seq(Job) /\ queue # <<>>
            BY <2>1 DEF StartJob, TypeOK
        <3>2. PICK j \in Job : j = Head(queue) /\ j = queue[1] /\ 1 \in 1..Len(queue)
            BY <3>1
        <3>3. PICK d \in Command : d = j.cmd
            BY DEF Job
        <3>4. JobFits(j, row[d])
            BY <1>0, <3>2, <3>3 DEF QueueFits
        <3>5. PICK r : r = IF j.kind = "execute" THEN Inserted(row[d], j.hash) ELSE j.copy
            OBVIOUS
        <3>6. Faithful(r, row'[d])
            <4>1. CASE j.kind = "execute"
                <5>1. row' = [row EXCEPT ![d] = r]
                    BY <2>1, <3>2, <3>3, <3>5, <4>1 DEF StartJob
                <5>2. row'[d] = r
                    BY <5>1 DEF TypeOK
                <5> QED
                    BY <1>1, <5>2
            <4>2. CASE j.kind # "execute"
                BY <1>2, <3>4, <3>5, <4>2 DEF JobFits
            <4> QED
                BY <4>1, <4>2
        <3>7. j.kind = "failure" => row'[d].failure
            BY <1>2, <3>4 DEF JobFits, Faithful
        <3>8. PICK ph : ph = IF j.kind = "failure" THEN "failing" ELSE FirstPhase(r)
            OBVIOUS
        <3>9. task'[s].phase = ph /\ task'[s].kind = j.kind /\ task'[s].cmd = d /\ task'[s].copy = r
            BY <2>1, <3>2, <3>3, <3>5, <3>8
        <3>10. /\ FirstPhase(r) \notin {"failing", "finishing", "reporting"}
               /\ FirstPhase(r) = "respond" => r.response # "none"
            BY DEF FirstPhase
        <3> QED
            BY <2>1, <3>6, <3>7, <3>8, <3>9, <3>10 DEF TaskFits
    <2>2. ASSUME s # "base", Respond,
                 task'[s] = [phase |-> "projecting", kind |-> "side", cmd |-> base.cmd,
                             copy |-> base.copy, by |-> "client"]
          PROVE  TaskFits(s, task'[s], row'[task'[s].cmd], idem'[task'[s].cmd])
        <3>1. base.phase = "respond"
            BY <2>2 DEF Respond
        <3>2. base.cmd \in Command /\ TaskFits("base", base, row[base.cmd], idem[base.cmd])
            BY <1>0, <3>1, BaseSlot, ActiveTask DEF TasksFit, base
        <3>3. Faithful(base.copy, row'[base.cmd]) /\ base.copy.response # "none"
            BY <1>2, <3>1, <3>2 DEF TaskFits
        <3> QED
            BY <2>2, <3>3 DEF TaskFits
    <2>3. ASSUME s # "base", NEW d \in Command, row[d].state = "failed", UNCHANGED row,
                 task'[s] = [phase |-> "failing", kind |-> "side", cmd |-> d,
                             copy |-> row[d], by |-> "client"]
          PROVE  TaskFits(s, task'[s], row'[task'[s].cmd], idem'[task'[s].cmd])
        BY <1>0, <1>1, <2>3 DEF TaskFits, RowsFit, Faithful
    <2> QED
        BY <1>8, <2>1, <2>2, <2>3, Zenon DEF Begins
<1> QED
    BY <1>5, <1>6, <1>7, <1>8, TaskSteps DEF TaskStep

\* recoverPending's loop hands on copies that are faithful.
LEMMA AdvanceFits ==
    ASSUME TypeOK, QueueFits, SelectionsFit, UNCHANGED row, NEW w \in Worker,
           NEW rows \in Seq([cmd : Command, copy : Row]),
           \A i \in 1..Len(rows) : Faithful(rows[i].copy, row[rows[i].cmd]),
           Advance(w, rows)
    PROVE  QueueFits' /\ SelectionsFit'
<1> DEFINE R == [cmd : Command, copy : Row]
           ready == {i \in 1..Len(rows) : ~InFlight(rows[i].cmd)}
<1>0. rows \in Seq(R) /\ queue \in Seq(Job)
    BY DEF TypeOK
<1>1. ASSUME NEW n, worker' = [worker EXCEPT ![w] = n],
             \A i \in 1..Len(n.rows) : Faithful(n.rows[i].copy, row[n.rows[i].cmd])
      PROVE  SelectionsFit'
    <2> SUFFICES ASSUME NEW v \in Worker, NEW i \in 1..Len(worker'[v].rows)
                 PROVE  Faithful(worker'[v].rows[i].copy, row[worker'[v].rows[i].cmd])
        BY DEF SelectionsFit, Faithful
    <2>0. worker'[v] = IF v = w THEN n ELSE worker[v]
        <3>1. DOMAIN worker = Worker
            BY DEF TypeOK
        <3> QED
            BY <1>1, <3>1
    <2> QED
        BY <1>1, <2>0 DEF SelectionsFit
<1>2. CASE ready = {}
    <2> DEFINE n == [run |-> TRUE, busy |-> FALSE, rows |-> <<>>]
    <2>1. worker' = [worker EXCEPT ![w] = n] /\ UNCHANGED queue
        BY <1>2 DEF Advance
    <2>2. 1..Len(n.rows) = {}
        OBVIOUS
    <2>3. QueueFits'
        BY <2>1 DEF QueueFits, JobFits, Faithful
    <2> HIDE DEF n
    <2> QED
        BY <1>1, <2>1, <2>2, <2>3
<1>3. CASE ready # {}
    <2>1. PICK i \in 1..Len(rows) :
            /\ queue' = Append(queue,
                  [kind |-> IF rows[i].copy.state = "failed"
                            THEN "failure" ELSE "recover",
                   cmd |-> rows[i].cmd, copy |-> rows[i].copy,
                   by |-> w, hash |-> NoHash])
            /\ worker' = [worker EXCEPT ![w] =
                  [run |-> TRUE, busy |-> TRUE,
                   rows |-> SubSeq(rows, i + 1, Len(rows))]]
        BY <1>3 DEF Advance
    <2> DEFINE job == [kind |-> IF rows[i].copy.state = "failed"
                                THEN "failure" ELSE "recover",
                       cmd |-> rows[i].cmd, copy |-> rows[i].copy,
                       by |-> w, hash |-> NoHash]
               rest == SubSeq(rows, i + 1, Len(rows))
               n == [run |-> TRUE, busy |-> TRUE, rows |-> rest]
    <2>2. queue' = Append(queue, job) /\ worker' = [worker EXCEPT ![w] = n]
        BY <2>1
    <2>3. w # "client"
        BY NamesAssumption DEF Worker
    <2>4. JobFits(job, row[job.cmd])
        BY <2>3 DEF JobFits
    <2>5. n.rows = rest
        OBVIOUS
    <2>6. ASSUME NEW k \in 1..Len(rest)
          PROVE  Faithful(rest[k].copy, row[rest[k].cmd])
        <3>1. rest[k] = rows[i + k] /\ i + k \in 1..Len(rows)
            <4> HIDE DEF R
            <4> QED
                BY <1>0
        <3> QED
            BY <3>1
    <2> HIDE DEF job, n, rest
    <2>7. SelectionsFit'
        BY <1>1, <2>2, <2>5, <2>6
    <2>8. QueueFits'
        <3> SUFFICES ASSUME NEW k \in 1..Len(queue')
                     PROVE  JobFits(queue'[k], row[queue'[k].cmd])
            BY DEF QueueFits, JobFits, Faithful
        <3>1. \/ k \in 1..Len(queue) /\ queue'[k] = queue[k]
              \/ queue'[k] = job
            BY <1>0, <2>2
        <3> QED
            BY <2>4, <3>1 DEF QueueFits
    <2> QED
        BY <2>7, <2>8
<1> QED
    BY <1>2, <1>3

\* What waits in the queue or in a selection is a job of a command.
LEMMA JobsHaveCommands ==
    ASSUME TypeOK
    PROVE  \A i \in 1..Len(queue) : queue[i] \in Job /\ queue[i].cmd \in Command
<1> SUFFICES ASSUME NEW i \in 1..Len(queue) PROVE queue[i] \in Job /\ queue[i].cmd \in Command
    OBVIOUS
<1>1. queue[i] \in Job
    BY DEF TypeOK
<1> QED
    BY <1>1 DEF Job

\* The copies that wait in the queue and in the selections stay faithful.
LEMMA CopiesFitStep ==
    ASSUME TypeOK, LedgerInv, Next
    PROVE  QueueFits' /\ SelectionsFit'
<1> USE DEF storageVars, d1Vars, memoryVars, airtableVars
<1>0. RowsFit /\ QueueFits /\ SelectionsFit /\ queue \in Seq(Job)
    BY DEF LedgerInv, TypeOK
<1>1. \A d \in Command : \A old : Faithful(old, row[d]) => Faithful(old, row'[d])
    BY <1>0, FaithfulStays
<1>2. \A i \in 1..Len(queue) : JobFits(queue[i], row'[queue[i].cmd])
    BY <1>0, <1>1, JobsHaveCommands DEF QueueFits, JobFits
<1>3. \A w \in Worker : \A i \in 1..Len(worker[w].rows) :
          Faithful(worker[w].rows[i].copy, row'[worker[w].rows[i].cmd])
    BY <1>0, <1>1, SelectedRows DEF SelectionsFit
<1>4. queue' = queue => QueueFits'
    BY <1>2 DEF QueueFits, JobFits, Faithful
<1>5. (\A w \in Worker : worker'[w].rows = worker[w].rows) => SelectionsFit'
    BY <1>3 DEF SelectionsFit, Faithful
<1>6. ASSUME NEW w \in Worker, NEW rows \in Selections, Advance(w, rows), UNCHANGED row
      PROVE  QueueFits' /\ SelectionsFit'
    <2>1. rows \in Seq([cmd : Command, copy : Row])
        BY SelectionsType
    <2>2. ASSUME NEW i \in 1..Len(rows)
          PROVE  rows[i].cmd \in Command /\ rows[i].copy = row[rows[i].cmd]
        <3> DEFINE due == {c \in Command : Due(row[c])}
        <3>1. /\ rows \in [1..Cardinality(due) -> [cmd : due, copy : {row[c] : c \in due}]]
              /\ \A k \in DOMAIN rows : rows[k].copy = row[rows[k].cmd]
            BY DEF Selections
        <3>2. i \in DOMAIN rows
            BY <2>1
        <3>3. due \subseteq Command
            OBVIOUS
        <3> HIDE DEF due
        <3> QED
            BY <3>1, <3>2, <3>3
    <2>3. \A i \in 1..Len(rows) : Faithful(rows[i].copy, row[rows[i].cmd])
        BY <1>0, <2>2 DEF RowsFit
    <2> QED
        BY <1>0, <1>6, <2>1, <2>3, AdvanceFits
<1>7. ASSUME NEW a, Settle(a) PROVE \A w \in Worker : worker'[w].rows = worker[w].rows
    <2>1. worker \in [Worker -> [run : BOOLEAN, busy : BOOLEAN,
                                 rows : Seq([cmd : Command, copy : Row])]]
        BY DEF TypeOK
    <2> QED
        BY <1>7, <2>1 DEF Settle
<1>8. CASE StartJob
    <2>1. queue # <<>> /\ queue' = Tail(queue) /\ worker' = worker
        BY <1>8 DEF StartJob
    <2>2. QueueFits'
        <3> SUFFICES ASSUME NEW i \in 1..Len(queue')
                     PROVE  JobFits(queue'[i], row'[queue'[i].cmd])
            BY DEF QueueFits, JobFits, Faithful
        <3>1. i + 1 \in 1..Len(queue) /\ queue'[i] = queue[i + 1]
            BY <1>0, <2>1
        <3> QED
            BY <1>2, <3>1
    <2> QED
        BY <1>5, <2>1, <2>2
<1>9. CASE Respond \/ BeginAttempt \/ Provider \/ Recover
    <2>1. UNCHANGED queue
        BY <1>9
        DEF BeginAttempt, Respond, Provider, StoreReplays, StoreReadFails,
            StoreConflicts, StoreSends, WriteAnswered, WriteRefused, WriteUnanswered,
            ResultPersisted, FailurePersisted, Recover, RecoverReadFails, RecoverApplied,
            RecoverWaits, RecoverRetries, RecoverDefers
    <2>2. worker' = worker \/ \E a : Settle(a)
        BY <1>9
        DEF BeginAttempt, Respond, Provider, StoreReplays, StoreReadFails,
            StoreConflicts, StoreSends, WriteAnswered, WriteRefused, WriteUnanswered,
            ResultPersisted, FailurePersisted, Recover, RecoverReadFails, RecoverApplied,
            RecoverWaits, RecoverRetries, RecoverDefers
    <2> QED
        BY <1>4, <1>5, <1>7, <2>1, <2>2
<1>10. ASSUME NEW s \in Slot, Projection(s) PROVE QueueFits' /\ SelectionsFit'
    <2>1. UNCHANGED queue
        BY <1>10
        DEF Projection, ProjectCommits, ProjectDrainFails, ProjectFails, FinishProjection,
            ReportRepair, FailureProjects, FailureProjectionFails
    <2>2. worker' = worker \/ \E a : Settle(a)
        BY <1>10
        DEF Projection, ProjectCommits, ProjectDrainFails, ProjectFails, FinishProjection,
            ReportRepair, FailureProjects, FailureProjectionFails, SettleTask
    <2> QED
        BY <1>4, <1>5, <1>7, <2>1, <2>2
<1>11. CASE Execute
    <2>1. PICK c \in Command, h \in Hash :
              \/ ExecuteReplaysFailure(c, h) \/ ExecuteReplaysResponse(c, h)
              \/ ExecuteJoins(c, h) \/ ExecuteEnqueues(c, h)
        BY <1>11 DEF Execute
    <2>2. UNCHANGED worker
        BY <2>1 DEF ExecuteReplaysFailure, ExecuteReplaysResponse, ExecuteJoins, ExecuteEnqueues
    <2>3. CASE ExecuteEnqueues(c, h)
        <3> DEFINE job == [kind |-> "execute", cmd |-> c, copy |-> BlankRow,
                           by |-> "client", hash |-> h]
        <3>1. JobFits(job, row'[job.cmd])
            BY DEF JobFits, Faithful, BlankRow
        <3>2. queue' = Append(queue, job)
            BY <2>3 DEF ExecuteEnqueues
        <3>3. QueueFits'
            <4> SUFFICES ASSUME NEW k \in 1..Len(queue')
                         PROVE  JobFits(queue'[k], row'[queue'[k].cmd])
                BY DEF QueueFits, JobFits, Faithful
            <4> HIDE DEF job
            <4>1. \/ k \in 1..Len(queue) /\ queue'[k] = queue[k]
                  \/ queue'[k] = job
                BY <1>0, <3>2
            <4> QED
                BY <1>2, <3>1, <4>1
        <3> QED
            BY <1>5, <2>2, <3>3
    <2>4. CASE ~ExecuteEnqueues(c, h)
        <3>1. UNCHANGED queue
            BY <2>1, <2>4 DEF ExecuteReplaysFailure, ExecuteReplaysResponse, ExecuteJoins
        <3> QED
            BY <1>4, <1>5, <2>2, <3>1
    <2> QED
        BY <2>3, <2>4
<1>12. CASE AlarmFires
    <2>1. "alarm" \in Worker
        BY DEF Worker
    <2> QED
        BY <1>6, <1>12, <2>1 DEF AlarmFires
<1>13. ASSUME NEW w \in Worker, RecoverPending(w) PROVE QueueFits' /\ SelectionsFit'
    BY <1>6, <1>13 DEF RecoverPending
<1>14. ASSUME NEW w \in Worker, RecoverNext(w) PROVE QueueFits' /\ SelectionsFit'
    <2> DEFINE rows == worker[w].rows
    <2>1. rows \in Seq([cmd : Command, copy : Row])
        BY DEF TypeOK
    <2>2. \A i \in 1..Len(rows) : Faithful(rows[i].copy, row[rows[i].cmd])
        BY <1>0 DEF SelectionsFit
    <2>3. Advance(w, rows) /\ UNCHANGED row
        BY <1>14 DEF RecoverNext
    <2> HIDE DEF rows
    <2> QED
        BY <1>0, <2>1, <2>2, <2>3, AdvanceFits
<1>15. ASSUME NEW w \in Worker, RecoverEnds(w) PROVE QueueFits' /\ SelectionsFit'
    <2>1. UNCHANGED queue
        BY <1>15 DEF RecoverEnds
    <2>2. ASSUME NEW v \in Worker PROVE worker'[v].rows = worker[v].rows
        <3>1. worker \in [Worker -> [run : BOOLEAN, busy : BOOLEAN,
                                     rows : Seq([cmd : Command, copy : Row])]]
            BY DEF TypeOK
        <3> QED
            BY <1>15, <3>1 DEF RecoverEnds
    <2> QED
        BY <1>4, <1>5, <2>1, <2>2
<1>16. CASE Environment
    <2>1. CASE Crash
        BY <2>1 DEF Crash, QueueFits, SelectionsFit
    <2>2. ASSUME NEW c \in Command, TimerElapses(c) \/ WriteLands(c) \/ WriteIsLost(c)
          PROVE  QueueFits' /\ SelectionsFit'
        BY <1>4, <1>5, <2>2 DEF TimerElapses, WriteLands, WriteIsLost
    <2> QED
        BY <1>16, <2>1, <2>2 DEF Environment
<1> QED
    BY <1>8, <1>9, <1>10, <1>11, <1>12, <1>13, <1>14, <1>15, <1>16 DEF Next, Pass

\* With nothing stored and nothing in memory there is nothing to fit.
LEMMA InitLedger == Init => LedgerInv
BY DEF Init, LedgerInv, RowsFit, QueueFits, SelectionsFit, TasksFit, AuditFits,
       Faithful, BlankRow, Idle

\* Every step keeps copies and tasks true to what is stored.
LEMMA NextLedger == TypeOK /\ LedgerInv /\ [Next]_vars => LedgerInv'
<1> SUFFICES ASSUME TypeOK, LedgerInv, [Next]_vars PROVE LedgerInv'
    OBVIOUS
<1>1. CASE Next
    <2>1. RowsFit'
        BY <1>1, RowsFitStep DEF LedgerInv
    <2> QED
        BY <1>1, <2>1, TasksFitStep, CopiesFitStep, AuditFitsStep DEF LedgerInv
<1>2. CASE UNCHANGED vars
    BY <1>2 DEF LedgerInv, RowsFit, QueueFits, SelectionsFit, TasksFit, AuditFits,
        Faithful, TaskFits, JobFits, WrittenVersion,
        vars, airtableVars, storageVars, memoryVars, d1Vars
<1> QED
    BY <1>1, <1>2

\* Every copy of a row that the object keeps in memory is faithful to the row, and
\* every task has what its phase says in storage or in D1, however many
\* recoveries hand the same command on at once.
THEOREM LedgerIsFaithful == Spec => []LedgerInv
<1> QED
    BY InitLedger, NextLedger, TypeCorrect, PTL DEF Spec

\* A complete row is in D1 at its version or later: for all commands and however
\* late writes land, the row is completed only behind its projection's batch.
THEOREM CompletedIsProjected == Spec => []CompleteIsProjected
<1>1. TypeOK /\ LedgerInv => CompleteIsProjected
    <2> SUFFICES ASSUME TypeOK, LedgerInv, NEW c \in Command,
                        row[c].state = "complete", ~row[c].failure
                 PROVE  proj[EntityOf[c]].version >= WrittenVersion(c)
        BY DEF CompleteIsProjected
    <2>1. idem[c] \in {"none", "committed", "repaired", "failed"}
        BY DEF TypeOK
    <2> QED
        BY <2>1 DEF LedgerInv, AuditFits
<1> QED
    BY <1>1, LedgerIsFaithful, TypeCorrect, PTL

\* An answer told now was told before, or is the answer of this step.
LEMMA TellsOnly ==
    ASSUME TypeOK, NEW d \in Command, NEW H, NEW given, Tell(d, H, given),
           NEW c \in Command, NEW a, Told(c, a)'
    PROVE  Told(c, a) \/ (c = d /\ a = given /\ H # {})
<1>1. PICK h \in Hash : <<h, a>> \in told'[c]
    BY DEF Told
<1>2. told'[c] = IF c = d THEN told[c] \cup {<<x, given>> : x \in H} ELSE told[c]
    BY DEF Tell, TypeOK
<1> QED
    BY <1>1, <1>2 DEF Told

\* Only a stored response, or the base job, says "committed" or "repair".
LEMMA TellSteps ==
    ASSUME TypeOK, Next, NEW c \in Command, NEW a \in {"committed", "repair"}, Told(c, a)'
    PROVE  \/ Told(c, a)
           \/ UNCHANGED row /\ row[c].response = a
           \/ /\ base.cmd = c /\ waiting[c] # {}
              /\ \/ Respond /\ a = base.copy.response
                 \/ FinishProjection("base") /\ a = Reply("base", "committed")
                 \/ ReportRepair("base") /\ a = Reply("base", "repair")
<1> USE DEF storageVars, d1Vars, memoryVars, airtableVars
<1>1. CASE UNCHANGED told
    BY <1>1 DEF Told
<1>2. ASSUME base.phase # "idle", NEW given, Settle(given)
      PROVE  \/ Told(c, a)
             \/ base.cmd = c /\ waiting[c] # {} /\ a = given /\ given \in Answer
    <2>1. CASE base.kind # "failure" /\ given \in Answer
        <3>1. base.cmd \in Command /\ Tell(base.cmd, waiting[base.cmd], given)
            BY <1>2, <2>1, ActiveBase DEF Settle
        <3>2. Told(c, a) \/ (c = base.cmd /\ a = given /\ waiting[base.cmd] # {})
            BY <3>1, TellsOnly
        <3> QED
            BY <2>1, <3>2
    <2>2. CASE ~(base.kind # "failure" /\ given \in Answer)
        BY <1>1, <1>2, <2>2 DEF Settle, Told
    <2> QED
        BY <2>1, <2>2
<1>3. CASE Respond
    BY <1>2, <1>3 DEF Respond
<1>4. CASE StartJob \/ BeginAttempt \/ Provider
    BY <1>1, <1>4
    DEF BeginAttempt, StartJob, Provider, StoreReplays, StoreReadFails,
        StoreConflicts, StoreSends, WriteAnswered, WriteRefused, WriteUnanswered,
        ResultPersisted, FailurePersisted
<1>5. CASE Recover
    <2>1. CASE RecoverApplied \/ RecoverRetries
        BY <1>1, <2>1 DEF RecoverApplied, RecoverRetries, ResultPersisted
    <2>2. CASE RecoverReadFails \/ RecoverWaits \/ RecoverDefers
        BY <1>2, <2>2 DEF RecoverReadFails, RecoverWaits, RecoverDefers, Answer
    <2> QED
        BY <1>5, <2>1, <2>2 DEF Recover
<1>6. CASE Execute
    <2>1. PICK d \in Command, h \in Hash :
              \/ ExecuteReplaysFailure(d, h) \/ ExecuteReplaysResponse(d, h)
              \/ ExecuteJoins(d, h) \/ ExecuteEnqueues(d, h)
        BY <1>6 DEF Execute
    <2>2. CASE ExecuteReplaysFailure(d, h)
        BY <2>2, TellsOnly DEF ExecuteReplaysFailure
    <2>3. CASE ExecuteReplaysResponse(d, h)
        BY <2>3, TellsOnly DEF ExecuteReplaysResponse
    <2>4. CASE ExecuteJoins(d, h) \/ ExecuteEnqueues(d, h)
        BY <1>1, <2>4 DEF ExecuteJoins, ExecuteEnqueues
    <2> QED
        BY <2>1, <2>2, <2>3, <2>4
<1>7. ASSUME NEW s \in Slot, Projection(s)
      PROVE  \/ Told(c, a)
             \/ /\ base.cmd = c /\ waiting[c] # {}
                /\ \/ FinishProjection("base") /\ a = Reply("base", "committed")
                   \/ ReportRepair("base") /\ a = Reply("base", "repair")
    <2>1. ASSUME NEW given, SettleTask(s, given), task[s].phase # "idle"
          PROVE  \/ Told(c, a)
                 \/ s = "base" /\ base.cmd = c /\ waiting[c] # {} /\ a = given
        <3>1. CASE s = "base"
            BY <1>2, <2>1, <3>1 DEF SettleTask, base
        <3>2. CASE s # "base"
            BY <2>1, <3>2 DEF SettleTask, Told
        <3> QED
            BY <3>1, <3>2
    <2>2. CASE FinishProjection(s)
        BY <2>1, <2>2 DEF FinishProjection
    <2>3. CASE ReportRepair(s)
        BY <2>1, <2>3 DEF ReportRepair
    <2>4. CASE FailureProjects(s) \/ FailureProjectionFails(s)
        BY <2>1, <2>4 DEF FailureProjects, FailureProjectionFails
    <2>5. CASE ProjectCommits(s) \/ ProjectDrainFails(s) \/ ProjectFails(s)
        BY <2>5 DEF ProjectCommits, ProjectDrainFails, ProjectFails, Told
    <2> QED
        BY <1>7, <2>2, <2>3, <2>4, <2>5 DEF Projection
<1>8. CASE AlarmFires \/ (\E w \in Worker : Pass(w)) \/ Environment
    BY <1>1, <1>8
    DEF AlarmFires, Pass, RecoverPending, RecoverNext, RecoverEnds, Environment,
        TimerElapses, WriteLands, WriteIsLost, Crash
<1> QED
    BY <1>3, <1>4, <1>5, <1>6, <1>7, <1>8 DEF Next

\* A caller begins to wait only while there is no response; a job that ends
\* answers all who wait for it.
LEMMA WaitSteps ==
    ASSUME TypeOK, Next, NEW c \in Command, waiting'[c] # {}
    PROVE  /\ waiting[c] # {} \/ (UNCHANGED row /\ row[c].response = "none")
           /\ ~Crash
           /\ ~(base.cmd = c /\ base.kind # "failure" /\ base.phase # "idle"
                /\ (FinishProjection("base") \/ ReportRepair("base")))
<1> USE DEF storageVars, d1Vars, memoryVars, airtableVars
<1>0. waiting \in [Command -> SUBSET Hash]
    BY DEF TypeOK
<1>1. UNCHANGED waiting => waiting[c] # {}
    OBVIOUS
<1>2. ASSUME NEW given, Settle(given)
      PROVE  /\ waiting[c] # {}
             /\ ~(base.cmd = c /\ base.kind # "failure")
    BY <1>0, <1>2 DEF Settle
<1>3. ~Crash
    BY DEF Crash
<1>4. ~(base.cmd = c /\ base.kind # "failure" /\ base.phase # "idle"
        /\ (FinishProjection("base") \/ ReportRepair("base")))
    BY <1>2 DEF FinishProjection, ReportRepair, SettleTask
<1>5. CASE Respond \/ Recover
    <2>1. UNCHANGED waiting \/ \E given : Settle(given)
        BY <1>5
        DEF Respond, Recover, RecoverReadFails, RecoverWaits, RecoverDefers, RecoverApplied,
            RecoverRetries, ResultPersisted
    <2> QED
        BY <1>1, <1>2, <1>3, <1>4, <2>1
<1>6. CASE StartJob \/ BeginAttempt \/ Provider
    <2>1. UNCHANGED waiting
        BY <1>6
        DEF BeginAttempt, StartJob, Provider, StoreReplays, StoreReadFails,
            StoreConflicts, StoreSends, WriteAnswered, WriteRefused, WriteUnanswered,
            ResultPersisted, FailurePersisted
    <2> QED
        BY <1>3, <1>4, <2>1
<1>7. CASE Execute
    <2>1. PICK d \in Command, h \in Hash :
              \/ ExecuteReplaysFailure(d, h) \/ ExecuteReplaysResponse(d, h)
              \/ ExecuteJoins(d, h) \/ ExecuteEnqueues(d, h)
        BY <1>7 DEF Execute
    <2>2. UNCHANGED waiting \/ (UNCHANGED row /\ row[d].response = "none"
                                /\ \A x \in Command \ {d} : waiting'[x] = waiting[x])
        BY <1>0, <2>1 DEF ExecuteReplaysFailure, ExecuteReplaysResponse, ExecuteJoins,
                     ExecuteEnqueues, Unanswered
    <2> QED
        BY <1>3, <1>4, <2>2
<1>8. ASSUME NEW s \in Slot, Projection(s) PROVE waiting[c] # {}
    <2>1. UNCHANGED waiting \/ \E given : Settle(given)
        BY <1>8
        DEF Projection, ProjectCommits, ProjectDrainFails, ProjectFails, FinishProjection,
            ReportRepair, FailureProjects, FailureProjectionFails, SettleTask
    <2> QED
        BY <1>2, <2>1
<1>9. CASE AlarmFires \/ (\E w \in Worker : Pass(w)) \/ Environment
    <2>1. UNCHANGED waiting
        BY <1>3, <1>9
        DEF AlarmFires, Pass, RecoverPending, RecoverNext, RecoverEnds, Environment,
            TimerElapses, WriteLands, WriteIsLost
    <2> QED
        BY <1>3, <1>4, <2>1
<1> QED
    BY <1>3, <1>4, <1>5, <1>6, <1>7, <1>8, <1>9 DEF Next

\* A response is stored by finishProjection only.
LEMMA ResponseSteps ==
    ASSUME TypeOK, Next, NEW c \in Command, row'[c].response # row[c].response
    PROVE  \E s \in Slot :
              /\ task[s].cmd = c /\ task[s].phase \in {"projecting", "finishing"}
              /\ \/ /\ FinishProjection(s) /\ task[s].phase = "finishing"
                    /\ row'[c] = Persisted(row[c], "complete", Reply(s, "committed"))
                 \/ /\ ToReporting(s)
                    /\ row'[c] = Persisted(row[c], "projection_pending", Reply(s, "repair"))
<1>0. row[c] \in Row
    BY DEF TypeOK
<1>1. /\ Leased(row[c]).response = row[c].response
      /\ AuthorityResult(row[c]).response = row[c].response
      /\ Failure(row[c]).response = row[c].response
      /\ OutcomeUnknown(row[c]).response = row[c].response
      /\ Deferred(row[c]).response = row[c].response
    BY <1>0 DEF Row, Leased, AuthorityResult, Failure, OutcomeUnknown, Deferred
<1>2. /\ [row[c] EXCEPT !.failureProjected = TRUE].response = row[c].response
      /\ [row[c] EXCEPT !.timer = "due"].response = row[c].response
    BY <1>0 DEF Row
<1>3. ASSUME NEW h PROVE [row[c] EXCEPT !.state = "received", !.hash = h].response = row[c].response
    BY <1>0 DEF Row
<1>4. RowStep(c)
    BY RowSteps
<1>5. \/ row'[c] = row[c]
      \/ \E h : row'[c] = [row[c] EXCEPT !.state = "received", !.hash = h]
      \/ row'[c] = Leased(row[c]) \/ row'[c] = AuthorityResult(row[c])
      \/ row'[c] = Failure(row[c])
      \/ row'[c] = OutcomeUnknown(row[c]) \/ row'[c] = Deferred(row[c])
      \/ row'[c] = [row[c] EXCEPT !.failureProjected = TRUE]
      \/ row'[c] = [row[c] EXCEPT !.timer = "due"]
      \/ \E s \in Slot :
            /\ task[s].cmd = c /\ task[s].phase \in {"projecting", "finishing"}
            /\ ToReporting(s)
            /\ row'[c] = Persisted(row[c], "projection_pending", Reply(s, "repair"))
      \/ \E s \in Slot :
            /\ task[s].cmd = c /\ FinishProjection(s)
            /\ row'[c] = Persisted(row[c], "complete", Reply(s, "committed"))
    BY <1>4, Zenon DEF RowStep
<1>6. \A s : FinishProjection(s) => task[s].phase = "finishing"
    BY DEF FinishProjection
<1>7. CASE \E h : row'[c] = [row[c] EXCEPT !.state = "received", !.hash = h]
    BY <1>3, <1>7
<1> QED
    BY <1>1, <1>2, <1>5, <1>6, <1>7, Zenon

\* A response is stored and its callers are answered in one step, but for
\* "repair", where the job has yet to record the repair.
LEMMA CallersWaitStep ==
    ASSUME TypeOK, LedgerInv, CallersWait, Next
    PROVE  CallersWait'
<1> SUFFICES ASSUME NEW c \in Command, waiting'[c] # {}, row'[c].response # "none"
             PROVE  /\ base'.cmd = c /\ base'.kind # "failure" /\ base'.phase = "reporting"
                    /\ base'.copy.response = "none" /\ row'[c].response = "repair"
    BY DEF CallersWait, base
<1>0. /\ base' = task'["base"] /\ base = task["base"]
      /\ TasksFit /\ RowsFit
    BY DEF base, LedgerInv
<1>1. CASE row[c].response # "none"
    <2>1. waiting[c] # {}
        BY <1>1, WaitSteps
    <2>2. /\ base.cmd = c /\ base.kind # "failure" /\ base.phase = "reporting"
          /\ base.copy.response = "none" /\ row[c].response = "repair"
        BY <1>1, <2>1 DEF CallersWait
    <2>3. row'[c].response = row[c].response
        BY <1>0, <1>1, RowGrows
    <2>4. TaskStep("base")
        BY BaseSlot, TaskSteps
    <2>5. ~Ends("base")
        BY <2>2, WaitSteps
        DEF Ends, FailureProjects, FailureProjectionFails, Respond, RecoverReadFails,
            RecoverWaits, RecoverDefers, base
    <2>6. ~Advances("base")
        BY <1>0, <2>2 DEF Advances
    <2>7. ~Begins("base")
        BY <2>2 DEF Begins, StartJob
    <2> QED
        BY <1>0, <2>2, <2>3, <2>4, <2>5, <2>6, <2>7 DEF TaskStep
<1>2. CASE row[c].response = "none"
    <2>1. PICK s \in Slot :
              /\ task[s].cmd = c /\ task[s].phase \in {"projecting", "finishing"}
              /\ \/ /\ FinishProjection(s) /\ task[s].phase = "finishing"
                    /\ row'[c] = Persisted(row[c], "complete", Reply(s, "committed"))
                 \/ /\ ToReporting(s)
                    /\ row'[c] = Persisted(row[c], "projection_pending", Reply(s, "repair"))
        BY <1>2, ResponseSteps
    <2>2. TaskFits(s, task[s], row[c], idem[c])
        BY <1>0, <2>1 DEF TasksFit
    <2>3. task[s].copy.response = "none"
        BY <1>2, <2>2 DEF TaskFits, Faithful
    <2>4. s = "base" /\ task[s].kind # "failure"
        BY <2>1, <2>2, <2>3 DEF TaskFits
    <2>5. ~FinishProjection("base")
        BY <1>0, <2>1, <2>4, WaitSteps
    <2>6. ToReporting("base") /\ row'[c] = Persisted(row[c], "projection_pending", "repair")
        BY <2>1, <2>3, <2>4, <2>5 DEF Reply
    <2>7. row'[c].response = "repair"
        <3>1. row[c] \in Row
            BY DEF TypeOK
        <3> QED
            BY <1>2, <2>6, <3>1 DEF Persisted, Row
    <2>8. Moved("base", "reporting", base.copy)
        <3>1. task' = [task EXCEPT !["base"].phase = "reporting"]
            BY <2>6 DEF ToReporting
        <3> QED
            BY <1>0, <2>1, <2>4, <3>1, BaseSlot, PhaseMoves
    <2> QED
        BY <1>0, <2>1, <2>3, <2>4, <2>7, <2>8 DEF Moved
<1> QED
    BY <1>1, <1>2

\* What is answered is what is stored, whoever answers.
LEMMA AnswersStoredStep ==
    ASSUME TypeOK, LedgerInv, CallersWait, AnswersStored, Next
    PROVE  AnswersStored'
<1> SUFFICES ASSUME NEW c \in Command, NEW a \in {"committed", "repair"}, Told(c, a)'
             PROVE  row'[c].response = a
    BY DEF AnswersStored, Told
<1>0. /\ base = task["base"] /\ TasksFit /\ RowsFit /\ row[c] \in Row
    BY DEF base, LedgerInv, TypeOK
<1>1. CASE Told(c, a)
    <2>1. row[c].response = a
        BY <1>1 DEF AnswersStored
    <2> QED
        BY <1>0, <2>1, RowGrows
<1>2. CASE UNCHANGED row /\ row[c].response = a
    BY <1>2
<1>3. ASSUME base.cmd = c, waiting[c] # {},
             \/ Respond /\ a = base.copy.response
             \/ FinishProjection("base") /\ a = Reply("base", "committed")
             \/ ReportRepair("base") /\ a = Reply("base", "repair")
      PROVE  row'[c].response = a
    <2>1. base.phase \in {"respond", "finishing", "reporting"}
        BY <1>3 DEF Respond, FinishProjection, ReportRepair, base
    <2>2. TaskFits("base", base, row[c], idem[c])
        BY <1>0, <1>3, <2>1, BaseSlot DEF TasksFit
    <2>3. CASE base.copy.response # "none"
        <3>1. a = base.copy.response
            BY <1>0, <1>3, <2>3 DEF Reply
        <3>2. row[c].response = a
            BY <2>2, <2>3, <3>1 DEF TaskFits, Faithful
        <3> QED
            BY <1>0, <3>2, RowGrows
    <2>4. CASE base.copy.response = "none"
        <3>1. CASE Respond
            BY <2>2, <2>4, <3>1 DEF TaskFits, Respond
        <3>2. CASE FinishProjection("base") /\ a = Reply("base", "committed")
            <4>1. row[c].response = "none"
                BY <1>0, <1>3, <3>2 DEF CallersWait, FinishProjection
            <4>2. row'[c] = Persisted(row[c], "complete", Reply("base", "committed"))
                BY <1>0, <1>3, <3>2 DEF FinishProjection, TypeOK
            <4> QED
                BY <1>0, <3>2, <4>1, <4>2 DEF Persisted, Row
        <3>3. CASE ReportRepair("base") /\ a = Reply("base", "repair")
            <4>1. row[c].response # "none"
                BY <1>0, <2>2, <3>3 DEF TaskFits, ReportRepair
            <4>2. row[c].response = "repair" /\ a = "repair"
                BY <1>0, <1>3, <2>4, <3>3, <4>1 DEF CallersWait, Reply
            <4> QED
                BY <3>3, <4>2 DEF ReportRepair
        <3> QED
            BY <1>3, <3>1, <3>2, <3>3
    <2> QED
        BY <2>3, <2>4
<1> QED
    BY <1>1, <1>2, <1>3, TellSteps

\* The response stored is the acknowledgement every caller was given, and nobody
\* still waits for it but while the job that stored "repair" says so.
RepliesInv == AnswersStored /\ CallersWait

\* Every step keeps answers and responses together.
LEMMA NextReplies == TypeOK /\ LedgerInv /\ RepliesInv /\ [Next]_vars => RepliesInv'
<1> SUFFICES ASSUME TypeOK, LedgerInv, RepliesInv, [Next]_vars PROVE RepliesInv'
    OBVIOUS
<1>1. CASE Next
    BY <1>1, CallersWaitStep, AnswersStoredStep DEF RepliesInv
<1>2. CASE UNCHANGED vars
    BY <1>2 DEF RepliesInv, AnswersStored, CallersWait, Told, base, vars, airtableVars,
        storageVars, memoryVars, d1Vars
<1> QED
    BY <1>1, <1>2

\* Every acknowledgement ever given is the response the row stores, for all
\* commands, callers and recoveries.
THEOREM RepliesAreStored == Spec => []RepliesInv
<1>1. Init => RepliesInv
    BY DEF Init, RepliesInv, AnswersStored, CallersWait, Told
<1> QED
    BY <1>1, NextReplies, LedgerIsFaithful, TypeCorrect, PTL DEF Spec

\* No command is acknowledged both as durable and as awaiting repair, whoever
\* asked and however often: both answers would be the one stored response.
THEOREM AcknowledgementsAgree == Spec => []SuccessRepliesAgree
<1>1. RepliesInv => SuccessRepliesAgree
    BY DEF RepliesInv, AnswersStored, SuccessRepliesAgree
<1> QED
    BY <1>1, RepliesAreStored, PTL

\* A task of c, outside the queue, that finishes its projection has a response.
LEMMA SideTaskHasResponse ==
    ASSUME LedgerInv, NEW s \in Slot, s # "base", task[s].phase # "idle",
           task[s].phase # "failing"
    PROVE  row[task[s].cmd].response # "none"
BY DEF LedgerInv, TasksFit, TaskFits, Faithful

\* A client's job keeps the row it leased to itself until it has an outcome.
LEMMA ClientsJobStep ==
    ASSUME TypeOK, LedgerInv, ClientsJob, Next
    PROVE  ClientsJob'
<1> DEFINE c == base.cmd
           Trying == {"attempting", "reading", "writing", "recovering"}
<1>0. base' = task'["base"] /\ base = task["base"] /\ QueueFits
    BY DEF base, LedgerInv
<1>1. TaskStep("base")
    BY BaseSlot, TaskSteps
<1>2. CASE base' = base
    <2> SUFFICES ASSUME base.by = "client", base.phase \in Trying
                 PROVE  /\ row'[c].response = "none"
                        /\ base.phase \in {"reading", "writing"} => row'[c].state = "leased"
        BY <1>2 DEF ClientsJob
    <2>1. base.phase # "idle" /\ c \in Command /\ row[c] \in Row
        BY ActiveBase DEF TypeOK
    <2>2. /\ row[c].response = "none"
          /\ base.phase \in {"reading", "writing"} => row[c].state = "leased"
        BY DEF ClientsJob
    <2>3. ASSUME NEW s \in Slot, task[s].cmd = c, task[s].phase \in Projecting PROVE FALSE
        <3>1. s # "base"
            BY <1>0, <2>3 DEF Projecting
        <3> QED
            BY <2>2, <2>3, <3>1, SideTaskHasResponse DEF Projecting
    <2>4. row'[c].response = "none"
        BY <2>1, <2>2, <2>3, ResponseSteps DEF Projecting
    <2>5. ASSUME base.phase \in {"reading", "writing"} PROVE row'[c].state = row[c].state
        <3>1. ~BeginAttempt /\ ~RecoverDefers /\ ~StartJob
            BY <2>5 DEF BeginAttempt, RecoverDefers, StartJob
        <3>2. \A ph, r : Continue(ph, r) => ph = base.phase
            BY <1>0, <1>2, <2>1, ContinueMoves DEF Moved
        <3>3. ~ResultPersisted /\ ~FailurePersisted /\ ~WriteUnanswered
            BY <2>5, <3>2 DEF ResultPersisted, FailurePersisted, WriteUnanswered
        <3>4. \A s \in Slot : task[s].cmd = c => ~FinishProjection(s)
            BY <2>3 DEF FinishProjection, Projecting
        <3>5. \/ row'[c] = row[c]
              \/ row'[c] = [row[c] EXCEPT !.failureProjected = TRUE]
              \/ row'[c] = [row[c] EXCEPT !.timer = "due"]
            <4>1. RowStep(c)
                BY <2>1, RowSteps
            <4>2. \A s \in Slot : task[s].cmd = c => task[s].phase \notin {"projecting", "finishing"}
                BY <2>3 DEF Projecting
            <4> QED
                BY <3>1, <3>3, <3>4, <4>1, <4>2, Zenon DEF RowStep
        <3> QED
            BY <2>1, <3>5 DEF Row
    <2> QED
        BY <2>2, <2>4, <2>5
<1>3. CASE base' = Idle
    BY <1>3 DEF ClientsJob, Idle
<1>4. CASE Advances("base")
    <2> SUFFICES ASSUME base'.by = "client", base'.phase \in Trying
                 PROVE  /\ row'[base'.cmd].response = "none"
                        /\ base'.phase \in {"reading", "writing"} =>
                              row'[base'.cmd].state = "leased"
        BY DEF ClientsJob
    <2>1. base'.cmd = base.cmd /\ base'.by = base.by /\ base.phase # "idle"
        BY <1>0, <1>4 DEF Advances, Moved
    <2>2. c \in Command /\ row[c] \in Row
        BY <2>1, ActiveBase DEF TypeOK
    <2>3. CASE base.phase = "attempting" /\ BeginAttempt
        <3>1. row'[c] = Leased(row[c]) /\ row[c].response = "none"
            BY <2>1, <2>2, <2>3 DEF BeginAttempt, ClientsJob, TypeOK
        <3>2. Leased(row[c]).response = row[c].response /\ Leased(row[c]).state = "leased"
            BY <2>2 DEF Leased, Row
        <3> QED
            BY <2>1, <3>1, <3>2
    <2>4. CASE base.phase = "reading" /\ StoreSends
        BY <2>1, <2>4 DEF StoreSends, storageVars, ClientsJob
    <2>5. CASE base.phase = "writing" /\ WriteUnanswered
        <3>1. row'[c] = OutcomeUnknown(row[c]) /\ row[c].response = "none"
            BY <2>1, <2>2, <2>5 DEF WriteUnanswered, ClientsJob, TypeOK
        <3>2. OutcomeUnknown(row[c]).response = row[c].response
            BY <2>2 DEF OutcomeUnknown, Row
        <3>3. base'.phase = "recovering"
            BY <1>0, <2>1, <2>5, ContinueMoves DEF WriteUnanswered, Moved
        <3> QED
            BY <2>1, <3>1, <3>2, <3>3
    <2>6. CASE base.phase = "recovering" /\ RecoverRetries
        <3>1. base'.phase = "attempting" /\ UNCHANGED row
            BY <1>0, <2>1, <2>6, ContinueMoves DEF RecoverRetries, storageVars, Moved
        <3> QED
            BY <2>1, <2>6, <3>1 DEF ClientsJob
    <2> QED
        BY <1>0, <1>4, <2>3, <2>4, <2>5, <2>6 DEF Advances, Moved
<1>5. CASE Begins("base")
    <2>1. StartJob
        BY <1>5 DEF Begins
    <2>2. queue \in Seq(Job) /\ queue # <<>>
        BY <2>1 DEF StartJob, TypeOK
    <2>3. PICK j \in Job : j = Head(queue) /\ j = queue[1] /\ 1 \in 1..Len(queue)
        BY <2>2
    <2>4. PICK d \in Command : d = j.cmd
        BY DEF Job
    <2>5. JobFits(j, row[d])
        BY <1>0, <2>3, <2>4 DEF QueueFits
    <2> SUFFICES ASSUME base'.by = "client"
                 PROVE  /\ base'.phase \in Trying => row'[base'.cmd].response = "none"
                        /\ base'.phase \in {"reading", "writing"} =>
                              row'[base'.cmd].state = "leased"
        BY DEF ClientsJob
    <2>6. PICK r : r = IF j.kind = "execute" THEN Inserted(row[d], j.hash) ELSE j.copy
        OBVIOUS
    <2>7. PICK ph : ph = IF j.kind = "failure" THEN "failing" ELSE FirstPhase(r)
        OBVIOUS
    <2>8. base' = [phase |-> ph, kind |-> j.kind, cmd |-> d, copy |-> r, by |-> j.by]
        BY <1>0, <1>5, <2>3, <2>4, <2>6, <2>7 DEF Begins
    <2>9. j.by = "client" /\ base'.phase = ph /\ base'.cmd = d
        BY <2>8
    <2>10. j.kind = "execute"
        BY <2>5, <2>9 DEF JobFits
    <2>11. row' = [row EXCEPT ![d] = r]
        BY <2>1, <2>3, <2>4, <2>6, <2>10 DEF StartJob
    <2>12. row'[d] = r
        BY <2>11 DEF TypeOK
    <2>13. /\ FirstPhase(r) \notin {"reading", "writing"}
           /\ FirstPhase(r) \in Trying => r.response = "none"
        BY DEF FirstPhase
    <2> QED
        BY <2>7, <2>9, <2>10, <2>12, <2>13
<1> QED
    BY <1>0, <1>1, <1>2, <1>3, <1>4, <1>5 DEF TaskStep

\* A pending row with no alarm after a step had none before, and none of the
\* steps that set the alarm was taken.
LEMMA Rearmed ==
    ASSUME TypeOK, Next, NEW c \in Command, Pending(row'[c]), ~alarm', ~worker'["alarm"].run
    PROVE  /\ ~alarm /\ ~worker["alarm"].run
           /\ ~Crash /\ ~BeginAttempt /\ ~RecoverWaits /\ ~RecoverDefers
           /\ \A s \in Slot : ~ReportRepair(s)
           /\ ~FailureProjectionFails("base")
           /\ ~(RecoverReadFails /\ base.by # "client")
<1> USE DEF storageVars, d1Vars, memoryVars, airtableVars
<1>0. /\ worker \in [Worker -> [run : BOOLEAN, busy : BOOLEAN,
                                rows : Seq([cmd : Command, copy : Row])]]
      /\ "alarm" \in Worker
    BY DEF TypeOK, Worker
<1>1. \A w, rows : Advance(w, rows) /\ w \in Worker => worker'[w].run /\ \A v \in Worker \ {w} : worker'[v] = worker[v]
    <2> SUFFICES ASSUME NEW w \in Worker, NEW rows, Advance(w, rows)
                 PROVE  worker'[w].run /\ \A v \in Worker \ {w} : worker'[v] = worker[v]
        OBVIOUS
    <2>1. PICK n : worker' = [worker EXCEPT ![w] = n] /\ n.run
        <3>1. PICK b, rs : worker' = [worker EXCEPT ![w] = [run |-> TRUE, busy |-> b, rows |-> rs]]
            BY Zenon DEF Advance
        <3>2. PICK n : n = [run |-> TRUE, busy |-> b, rows |-> rs]
            OBVIOUS
        <3>3. n.run
            BY <3>2
        <3> QED
            BY <3>1, <3>2, <3>3, Zenon
    <2> QED
        BY <1>0, <2>1
<1>2. \A given : Settle(given) => worker'["alarm"].run = worker["alarm"].run
    BY <1>0 DEF Settle
<1>3. ~AlarmFires
    BY <1>0, <1>1 DEF AlarmFires
<1>4. /\ ~BeginAttempt /\ ~RecoverWaits /\ ~RecoverDefers
      /\ \A s \in Slot : ~ReportRepair(s)
    BY DEF BeginAttempt, RecoverWaits, RecoverDefers, ReportRepair
<1>5. ~RearmIfPending
    BY DEF RearmIfPending
<1>6. ~FailureProjectionFails("base")
    BY <1>5 DEF FailureProjectionFails
<1>7. ~(RecoverReadFails /\ base.by # "client")
    <2> SUFFICES ASSUME RecoverReadFails, base.by # "client" PROVE FALSE
        OBVIOUS
    <2>1. base.phase # "idle" /\ RearmAfterError
        BY DEF RecoverReadFails
    <2>2. base.by \in Worker
        BY <2>1, ActiveBase
    <2> QED
        BY <1>5, <2>1, <2>2 DEF RearmAfterError
<1>8. ~Crash
    BY DEF Crash
<1>9. ~RecoverEnds("alarm")
    BY <1>5 DEF RecoverEnds
<1>10. ASSUME NEW w \in Worker, RecoverEnds(w)
       PROVE  ~alarm /\ ~worker["alarm"].run
    <2>1. w # "alarm"
        BY <1>9, <1>10
    <2>2. worker'["alarm"] = worker["alarm"] /\ alarm' = alarm
        BY <1>0, <1>10, <2>1 DEF RecoverEnds
    <2> QED
        BY <2>2
<1>11. ASSUME NEW w \in Worker, RecoverPending(w) \/ RecoverNext(w)
       PROVE  ~alarm /\ ~worker["alarm"].run
    <2>1. PICK rows : Advance(w, rows)
        BY <1>11 DEF RecoverPending, RecoverNext
    <2>2. worker["alarm"] = worker'["alarm"] /\ alarm' = alarm
        BY <1>0, <1>1, <1>11, <2>1 DEF RecoverPending, RecoverNext
    <2> QED
        BY <2>2
<1>12. ASSUME NEW s \in Slot, Projection(s) PROVE ~alarm /\ ~worker["alarm"].run
    <2>1. alarm' = alarm \/ FinishProjection(s) \/ (s = "base" /\ FailureProjectionFails("base"))
        BY <1>4, <1>12
        DEF Projection, ProjectCommits, ProjectDrainFails, ProjectFails, FinishProjection,
            ReportRepair, FailureProjects, FailureProjectionFails
    <2>2. ~alarm
        BY <1>6, <2>1 DEF FinishProjection
    <2>3. worker' = worker \/ \E given : Settle(given)
        BY <1>12
        DEF Projection, ProjectCommits, ProjectDrainFails, ProjectFails, FinishProjection,
            ReportRepair, FailureProjects, FailureProjectionFails, SettleTask
    <2> QED
        BY <1>2, <2>2, <2>3
<1>13. ASSUME Recover \/ Respond
       PROVE  ~alarm /\ ~worker["alarm"].run
    <2>1. ~alarm
        BY <1>4, <1>5, <1>13
        DEF Recover, RecoverReadFails, RecoverApplied, RecoverRetries, Respond, ResultPersisted,
            RearmAfterError
    <2>2. worker' = worker \/ \E given : Settle(given)
        BY <1>4, <1>13
        DEF Recover, RecoverReadFails, RecoverApplied, RecoverRetries, Respond, ResultPersisted
    <2> QED
        BY <1>2, <2>1, <2>2
<1>14. ASSUME Provider \/ StartJob \/ Execute
       PROVE  ~alarm /\ ~worker["alarm"].run
    <2>1. alarm' = alarm /\ worker' = worker
        BY <1>14
        DEF StartJob, Provider, StoreReplays, StoreReadFails,
            StoreConflicts, StoreSends, WriteAnswered, WriteRefused, WriteUnanswered,
            ResultPersisted, FailurePersisted, Execute, ExecuteReplaysFailure,
            ExecuteReplaysResponse, ExecuteJoins, ExecuteEnqueues
    <2> QED
        BY <2>1
<1>15. ASSUME Environment
       PROVE  ~alarm /\ ~worker["alarm"].run
    <2>1. alarm' = alarm /\ worker' = worker
        BY <1>8, <1>15 DEF Environment, TimerElapses, WriteLands, WriteIsLost
    <2> QED
        BY <2>1
<1>16. ~alarm /\ ~worker["alarm"].run
    BY <1>3, <1>4, <1>10, <1>11, <1>12, <1>13, <1>14, <1>15 DEF Next, Pass
<1> QED
    BY <1>4, <1>6, <1>7, <1>8, <1>16

\* A task that is finishing the projection of a row goes on until the row is
\* complete or the alarm is set.
LEMMA ProjectionGoesOn ==
    ASSUME TypeOK, Next, NEW c \in Command, Pending(row'[c]), ~alarm', ~worker'["alarm"].run,
           NEW s \in Slot, task[s].cmd = c, task[s].phase \in Projecting
    PROVE  task'[s].cmd = c /\ task'[s].phase \in Projecting
<1>1. TaskStep(s)
    BY TaskSteps
<1>2. ~FinishProjection(s)
    <2> SUFFICES ASSUME FinishProjection(s) PROVE FALSE
        OBVIOUS
    <2>1. row'[c] = Persisted(row[c], "complete", Reply(s, "committed")) /\ row[c] \in Row
        BY DEF FinishProjection, TypeOK
    <2>2. row'[c].state = "complete"
        BY <2>1 DEF Persisted, Row
    <2> QED
        BY <2>2 DEF Pending
<1>3. ~Ends(s)
    BY <1>2, Rearmed
    DEF Ends, Projecting, FailureProjects, FailureProjectionFails, Respond, RecoverReadFails, base
<1>4. ~Begins(s)
    BY DEF Begins, Projecting
<1> QED
    BY <1>1, <1>3, <1>4 DEF TaskStep, Advances, Moved, Projecting, base

\* What looks after a pending row, or the step that makes a row pending, leaves
\* something that looks after it.
LEMMA RecoveryIsScheduledStep ==
    ASSUME TypeOK, LedgerInv, ClientsJob, RecoveryIsScheduled, Next
    PROVE  RecoveryIsScheduled'
<1> SUFFICES ASSUME NEW c \in Command, Pending(row'[c]), ~alarm', ~worker'["alarm"].run
             PROVE  Arranged(c)'
    BY DEF RecoveryIsScheduled, Arranged, Pending
<1>0. base' = task'["base"] /\ base = task["base"] /\ row[c] \in Row
    BY DEF base, TypeOK
<1>1. /\ ~alarm /\ ~worker["alarm"].run
      /\ ~Crash /\ ~BeginAttempt /\ ~RecoverWaits /\ ~RecoverDefers
      /\ \A s \in Slot : ~ReportRepair(s)
      /\ ~FailureProjectionFails("base")
      /\ ~(RecoverReadFails /\ base.by # "client")
    BY Rearmed
<1>2. ASSUME NEW s \in Slot, task'[s].cmd = c, task'[s].phase \in Projecting
      PROVE  Arranged(c)'
    BY <1>2 DEF Arranged
<1>3. ASSUME NEW s \in Slot, task[s].cmd = c, task[s].phase \in Projecting
      PROVE  Arranged(c)'
    BY <1>2, <1>3, ProjectionGoesOn
<1>4. TaskStep("base")
    BY BaseSlot, TaskSteps
<1>5. RowStep(c)
    BY RowSteps
<1>6. base.cmd = c => base.phase # "idle"
    <2>1. base \in Task
        BY BaseSlot DEF TypeOK, base
    <2> QED
        BY <2>1, NamesAssumption DEF Task, Idle
<1>7. ASSUME NEW ph, NEW r, Continue(ph, r), base.cmd = c
      PROVE  /\ base'.cmd = c /\ base'.phase = ph /\ base'.by = base.by
             /\ task'["base"].cmd = c /\ task'["base"].phase = ph
    BY <1>0, <1>6, <1>7, ContinueMoves DEF Moved
<1>8. CASE base.cmd = c /\ ResultPersisted
    BY <1>2, <1>7, <1>8, BaseSlot DEF ResultPersisted, Projecting
<1>9. CASE base.cmd = c /\ FailurePersisted
    <2>1. base'.cmd = c /\ base'.phase = "failing"
        BY <1>7, <1>9 DEF FailurePersisted
    <2>2. row'[c] = Failure(row[c])
        BY <1>9 DEF FailurePersisted, TypeOK
    <2>3. row'[c].state = "failed"
        BY <1>0, <2>2 DEF Failure, Row
    <2> QED
        BY <2>1, <2>3 DEF Arranged, base
<1>10. CASE Pending(row[c]) /\ base.cmd = c /\ base.phase = "failing" /\ row[c].state = "failed"
    <2>1. ASSUME row'[c].state = "failed", base' = base PROVE Arranged(c)'
        BY <1>10, <2>1 DEF Arranged, base
    <2>2. ~FailureProjects("base") /\ row'[c] # [row[c] EXCEPT !.failureProjected = TRUE]
        <3>1. [row[c] EXCEPT !.failureProjected = TRUE].state = "failed"
              /\ [row[c] EXCEPT !.failureProjected = TRUE].failureProjected
            BY <1>0, <1>10 DEF Row
        <3>2. FailureProjects("base") => row'[c] = [row[c] EXCEPT !.failureProjected = TRUE]
            BY <1>0, <1>10 DEF FailureProjects, TypeOK
        <3> QED
            BY <3>1, <3>2 DEF Pending
    <2>3. base' = base
        <3>1. ~Ends("base")
            BY <1>0, <1>1, <1>10, <2>2, BaseSlot
            DEF Ends, FinishProjection, Respond, RecoverReadFails
        <3>2. ~Advances("base")
            BY <1>0, <1>10 DEF Advances
        <3>3. ~Begins("base")
            BY <1>0, <1>10 DEF Begins
        <3> QED
            BY <1>0, <1>4, <3>1, <3>2, <3>3 DEF TaskStep
    <2>4. \A ph, r : Continue(ph, r) => ph = "failing"
        BY <1>7, <1>10, <2>3
    <2>5. ~ResultPersisted /\ ~WriteUnanswered /\ ~StartJob
        BY <1>10, <2>4 DEF ResultPersisted, WriteUnanswered, StartJob
    <2>6. CASE \E s \in Slot : task[s].cmd = c /\ task[s].phase \in {"projecting", "finishing"}
        BY <1>3, <2>6 DEF Projecting
    <2>7. CASE ~ \E s \in Slot : task[s].cmd = c /\ task[s].phase \in {"projecting", "finishing"}
        <3>1. \A s \in Slot : ~(task[s].cmd = c /\ FinishProjection(s))
            BY <2>7 DEF FinishProjection
        <3>2. row'[c] = row[c] \/ row'[c] = [row[c] EXCEPT !.timer = "due"] \/ FailurePersisted
            BY <1>1, <1>5, <2>2, <2>5, <2>7, <3>1, Zenon DEF RowStep
        <3>3. [row[c] EXCEPT !.timer = "due"].state = "failed"
            BY <1>0, <1>10 DEF Row
        <3> QED
            BY <1>9, <1>10, <2>1, <2>3, <3>2, <3>3
    <2> QED
        BY <2>6, <2>7
<1>11. CASE Pending(row[c]) /\ base.cmd = c /\ base.phase \in {"attempting", "recovering"}
            /\ base.by # "client"
    <2>1. CASE base' = base
        BY <1>11, <2>1 DEF Arranged, base
    <2>2. CASE base' # base
        <3>1. ~Ends("base")
            BY <1>0, <1>1, <1>11, BaseSlot
            DEF Ends, FinishProjection, FailureProjects, Respond
        <3>2. ~Begins("base")
            BY <1>0, <1>11 DEF Begins
        <3>3. CASE RecoverRetries
            BY <1>7, <1>11, <3>3 DEF RecoverRetries, Arranged, base
        <3>4. ~ProjectCommits("base")
            BY <1>0, <1>11 DEF ProjectCommits
        <3> QED
            BY <1>0, <1>1, <1>4, <1>8, <1>11, <2>2, <3>1, <3>2, <3>3, <3>4 DEF TaskStep, Advances
    <2> QED
        BY <2>1, <2>2
<1>12. CASE Pending(row[c])
    BY <1>1, <1>3, <1>10, <1>11, <1>12 DEF RecoveryIsScheduled, Arranged
<1>13. CASE ~Pending(row[c])
    <2>1. CASE base.cmd = c /\ WriteUnanswered
        <3>1. base.phase = "writing"
            BY <2>1 DEF WriteUnanswered
        <3>2. base.by # "client"
            BY <1>13, <2>1, <3>1 DEF ClientsJob, Pending
        <3>3. base'.cmd = c /\ base'.phase = "recovering" /\ base'.by # "client"
            BY <1>7, <2>1, <3>2 DEF WriteUnanswered
        <3> QED
            BY <3>3 DEF Arranged, base
    <2>2. CASE \E s \in Slot : task[s].cmd = c /\ task[s].phase \in {"projecting", "finishing"}
        BY <1>3, <2>2 DEF Projecting
    <2>3. row'[c] # row[c]
        BY <1>13
    <2>4. ~Pending([row[c] EXCEPT !.timer = "due"]) /\ ~Pending([row[c] EXCEPT !.failureProjected = TRUE])
        BY <1>0, <1>13 DEF Pending, Row
    <2>5. \A h : ~Pending([row[c] EXCEPT !.state = "received", !.hash = h])
        <3> SUFFICES ASSUME NEW h PROVE ~Pending([row[c] EXCEPT !.state = "received", !.hash = h])
            OBVIOUS
        <3>1. [row[c] EXCEPT !.state = "received", !.hash = h].state = "received"
            BY <1>0 DEF Row
        <3> QED
            BY <3>1 DEF Pending
    <2>6. \A s \in Slot : FinishProjection(s) => task[s].phase = "finishing"
        BY DEF FinishProjection
    <2>7. \/ base.cmd = c /\ ResultPersisted
          \/ base.cmd = c /\ FailurePersisted
          \/ base.cmd = c /\ WriteUnanswered
          \/ \E s \in Slot : task[s].cmd = c /\ task[s].phase \in {"projecting", "finishing"}
        <3>1. row'[c] # [row[c] EXCEPT !.timer = "due"]
              /\ row'[c] # [row[c] EXCEPT !.failureProjected = TRUE]
              /\ \A h : row'[c] # [row[c] EXCEPT !.state = "received", !.hash = h]
            BY <2>4, <2>5, Zenon
        <3>2. ~BeginAttempt /\ ~RecoverDefers
            BY <1>1
        <3>3. \A s \in Slot : FinishProjection(s) => task[s].phase \in {"projecting", "finishing"}
            BY <2>6
        <3> QED
            BY <1>5, <2>3, <3>1, <3>2, <3>3, Zenon DEF RowStep
    <2> QED
        BY <1>8, <1>9, <2>1, <2>2, <2>7
<1> QED
    BY <1>12, <1>13

\* Whoever works on a pending row, the alarm or a task knows of it.
RecoveryInv == ClientsJob /\ RecoveryIsScheduled

\* Every step keeps every pending row looked after.
LEMMA NextRecovery == TypeOK /\ LedgerInv /\ RecoveryInv /\ [Next]_vars => RecoveryInv'
<1> SUFFICES ASSUME TypeOK, LedgerInv, RecoveryInv, [Next]_vars PROVE RecoveryInv'
    OBVIOUS
<1>1. CASE Next
    BY <1>1, ClientsJobStep, RecoveryIsScheduledStep DEF RecoveryInv
<1>2. CASE UNCHANGED vars
    BY <1>2 DEF RecoveryInv, ClientsJob, RecoveryIsScheduled, Arranged, Pending, base, vars,
        airtableVars, storageVars, memoryVars, d1Vars
<1> QED
    BY <1>1, <1>2

\* A pending row is looked after, and a client's job has its leased row to itself.
THEOREM RecoveryIsArranged == Spec => []RecoveryInv
<1>1. Init => RecoveryInv
    BY BaseSlot DEF Init, RecoveryInv, ClientsJob, RecoveryIsScheduled, Pending, BlankRow, base, Idle
<1> QED
    BY <1>1, NextRecovery, LedgerIsFaithful, TypeCorrect, PTL DEF Spec

\* No pending row is ever without something that looks after it: for every number
\* of commands, recoveries, side tasks and evictions, and however late writes land.
THEOREM RecoveryIsAlwaysScheduled == Spec => []RecoveryIsScheduled
<1>1. RecoveryInv => RecoveryIsScheduled
    BY DEF RecoveryInv
<1> QED
    BY <1>1, RecoveryIsArranged, PTL

=============================================================================
