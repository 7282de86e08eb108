----------------------- MODULE BaseAuthorityStoreProofs -----------------------
(***************************************************************************)
(* BaseAuthority implements VersionedStore: although Airtable has no       *)
(* compare-and-swap, commands take effect atomically, at most once, each   *)
(* on the version it expects.  Nothing is assumed of when a write lands    *)
(* whose answer was lost; a record is excused only once such a write has   *)
(* changed it out of turn (InTurn), which Airtable's unconditional update  *)
(* cannot rule out.                                                        *)
(***************************************************************************)
EXTENDS BaseAuthorityProofs

\* The phase a job moves to is the phase it is in.
LEMMA ContinuePhase ==
    ASSUME TypeOK, base.phase # "idle", NEW ph, NEW r, Continue(ph, r)
    PROVE  base'.phase = ph /\ base'.cmd = base.cmd
<1> DEFINE t == [[base EXCEPT !.phase = ph] EXCEPT !.copy = r]
<1>1. base \in [phase : Phase \ {"idle"}, kind : Kind, cmd : Command,
                copy : Row, by : {"client"} \cup Worker]
    BY BaseSlot DEF TypeOK, Task, Idle, base
<1>2. task' = [task EXCEPT !["base"] = t]
    BY BaseSlot DEF Continue, base, TypeOK
<1>3. t.phase = ph /\ t.cmd = base.cmd
    BY <1>1
<1>4. base' = t
    <2>1. "base" \in DOMAIN task
        BY BaseSlot DEF TypeOK
    <2> HIDE DEF t
    <2> QED
        BY <1>2, <2>1 DEF base
<1> QED
    BY <1>3, <1>4

\* A step that changes a record writes for the job that is about to, or is an
\* unanswered write that lands.
LEMMA AirtableSteps ==
    ASSUME TypeOK, Next
    PROVE  \/ UNCHANGED <<rec, landed, stray>>
           \/ /\ base.phase = "writing"
              /\ rec' = Written(base.cmd)
              /\ landed' = [landed EXCEPT ![base.cmd] = @ + 1]
              /\ stray' = stray
              /\ base'.phase # "writing"
           \/ \E c \in Command : WriteLands(c)
<1> USE DEF airtableVars, storageVars, memoryVars, d1Vars
<1>1. CASE BeginAttempt \/ StartJob \/ Respond \/ Recover \/ AlarmFires
           \/ Execute \/ (\E s \in Slot : Projection(s)) \/ \E w \in Worker : Pass(w)
    BY <1>1
    DEF BeginAttempt, StartJob, Respond, Recover, RecoverReadFails, RecoverApplied,
        RecoverWaits, RecoverRetries, RecoverDefers, AlarmFires, Execute,
        ExecuteReplaysFailure, ExecuteReplaysResponse, ExecuteJoins, ExecuteEnqueues,
        Projection, ProjectCommits, ProjectDrainFails, ProjectFails, FinishProjection,
        ReportRepair, FailureProjects, FailureProjectionFails, Pass, RecoverPending,
        RecoverNext, RecoverEnds
<1>2. CASE Provider
    <2>1. CASE WriteAnswered
        <3>1. base'.phase = "projecting"
            BY <2>1, ContinuePhase DEF WriteAnswered, ResultPersisted
        <3> QED
            BY <2>1, <3>1 DEF WriteAnswered
    <2>2. CASE WriteUnanswered
        <3>1. base'.phase = "recovering"
            BY <2>2, ContinuePhase DEF WriteUnanswered
        <3> QED
            BY <2>2, <3>1 DEF WriteUnanswered, LostWrite
    <2>3. CASE StoreReplays \/ StoreReadFails \/ StoreConflicts \/ StoreSends \/ WriteRefused
        BY <2>3 DEF StoreReplays, StoreReadFails, StoreConflicts, StoreSends, WriteRefused
    <2> QED
        BY <1>2, <2>1, <2>2, <2>3 DEF Provider
<1>3. CASE Environment
    <2>1. CASE \E c \in Command : TimerElapses(c) \/ WriteLands(c) \/ WriteIsLost(c)
        BY <2>1 DEF TimerElapses, WriteIsLost
    <2>2. CASE Crash
        <3>1. CASE base.phase = "writing"
            <4>1. base'.phase # "writing"
                BY <2>2, BaseSlot, IdleIsIdle DEF Crash, base
            <4> QED
                BY <2>2, <3>1, <4>1 DEF Crash, LostWrite
        <3>2. CASE base.phase # "writing"
            BY <2>2, <3>2 DEF Crash
        <3> QED
            BY <3>1, <3>2
    <2> QED
        BY <1>3, <2>1, <2>2 DEF Environment
<1> QED
    BY <1>1, <1>2, <1>3 DEF Next

\* A job starts writing only from a read that found the expected version.
LEMMA WritingStarts ==
    ASSUME TypeOK, Next
    PROVE  \/ base' = base
           \/ base'.phase # "writing"
           \/ /\ Current(base.cmd).version = ExpectedVersion[base.cmd]
              /\ base'.cmd = base.cmd /\ base.cmd \in Command
              /\ UNCHANGED airtableVars
<1>0. task \in [Slot -> Task] /\ "base" \in Slot
    BY BaseSlot DEF TypeOK
<1>1. ASSUME task' = [task EXCEPT !["base"] = Idle] PROVE base' = Idle
    BY <1>0, <1>1 DEF base
<1>2. CASE UNCHANGED task
    BY <1>2 DEF base
<1>3. CASE Execute
    <2>1. \/ UNCHANGED task
          \/ \E c \in Command : Spawn("failing", c, row[c])
        BY <1>3 DEF Execute, ExecuteReplaysFailure, ExecuteReplaysResponse, ExecuteJoins,
                    ExecuteEnqueues, memoryVars
    <2>2. ASSUME NEW c \in Command, Spawn("failing", c, row[c]) PROVE base' = base
        BY <1>0, <2>2, NamesAssumption DEF Spawn, base
    <2> QED
        BY <1>2, <2>1, <2>2
<1>4. CASE StartJob
    <2>1. base'.phase = "failing" \/ \E r : base'.phase = FirstPhase(r)
        BY <1>0, <1>4 DEF StartJob, base
    <2> QED
        BY <2>1 DEF FirstPhase
<1>5. CASE Respond
    BY <1>0, <1>1, <1>5, IdleIsIdle, NamesAssumption DEF Respond, base
<1>6. CASE BeginAttempt \/ Provider
    <2>1. base.phase # "idle" /\ \E ph, r : Continue(ph, r) /\ (ph = "writing" => StoreSends)
        BY <1>6 DEF BeginAttempt, Provider, StoreReplays, StoreReadFails, StoreConflicts,
               StoreSends, WriteAnswered, WriteRefused, WriteUnanswered,
               ResultPersisted, FailurePersisted
    <2> QED
        BY <2>1, ContinuePhase, ActiveBase DEF StoreSends
<1>7. CASE Recover
    <2>1. \/ EndBase
          \/ base.phase # "idle" /\ \E ph \in {"projecting", "attempting"} : \E r : Continue(ph, r)
        BY <1>7 DEF Recover, RecoverReadFails, RecoverApplied, RecoverWaits,
               RecoverRetries, RecoverDefers, ResultPersisted
    <2> QED
        BY <1>1, <2>1, ContinuePhase, IdleIsIdle DEF EndBase
<1>8. ASSUME NEW s \in Slot, Projection(s) PROVE base' = base \/ base'.phase # "writing"
    <2>1. \/ task' = [task EXCEPT ![s] = Idle]
          \/ \E ph \in {"finishing", "reporting"} : task' = [task EXCEPT ![s].phase = ph]
        BY <1>8 DEF Projection, ProjectCommits, ProjectDrainFails, ProjectFails,
               FinishProjection, ReportRepair, FailureProjects, FailureProjectionFails,
               SettleTask, ToReporting
    <2>2. CASE s # "base"
        BY <1>0, <2>1, <2>2 DEF base
    <2>3. CASE s = "base"
        <3>1. CASE task' = [task EXCEPT ![s] = Idle]
            BY <1>1, <2>3, <3>1, IdleIsIdle
        <3>2. ASSUME NEW ph \in {"finishing", "reporting"}, task' = [task EXCEPT ![s].phase = ph]
              PROVE  base'.phase # "writing"
            <4>0. base.phase # "idle"
                BY <1>8, <2>3 DEF Projection, ProjectCommits, ProjectDrainFails, ProjectFails,
                   FinishProjection, ReportRepair, FailureProjects, FailureProjectionFails, base
            <4>1. base \in [phase : Phase \ {"idle"}, kind : Kind, cmd : Command,
                            copy : Row, by : {"client"} \cup Worker]
                BY <1>0, <4>0 DEF Task, Idle, base
            <4>2. base' = [base EXCEPT !.phase = ph]
                BY <1>0, <2>3, <3>2 DEF base
            <4> QED
                BY <4>1, <4>2
        <3> QED
            BY <2>1, <3>1, <3>2
    <2> QED
        BY <2>2, <2>3
<1>9. CASE AlarmFires \/ (\E w \in Worker : Pass(w)) \/ Environment
    <2>1. UNCHANGED task \/ base' = Idle
        BY <1>9, BaseSlot
        DEF AlarmFires, Pass, RecoverPending, RecoverNext, RecoverEnds, Environment,
            TimerElapses, WriteLands, WriteIsLost, Crash, memoryVars, base
    <2> QED
        BY <1>2, <2>1, IdleIsIdle
<1> QED
    BY <1>3, <1>4, <1>5, <1>6, <1>7, <1>8, <1>9 DEF Next

\* Nothing has been written, nor is about to be, at the start.
LEMMA InitStoreInv == Init => StoreInv
BY EntityOfAssumption, NamesAssumption
DEF Init, StoreInv, LandedIsPast, ReadIsFresh, AtMostOnceUnlessStray,
    VersionHasOneWriter, base, Idle, Slot

\* What a write does to the record it is for, and to the counts.
LEMMA WriteEffect ==
    ASSUME TypeOK, NEW c \in Command, rec' = Written(c),
           landed' = [landed EXCEPT ![c] = @ + 1]
    PROVE  /\ \A d \in Command : Current(d)' =
                  IF EntityOf[d] = EntityOf[c]
                  THEN [version |-> ExpectedVersion[c] + 1, last |-> c] ELSE Current(d)
           /\ \A d \in Command : landed'[d] = IF d = c THEN landed[c] + 1 ELSE landed[d]
           /\ \A d \in Command : landed[d] \in Nat
           /\ \A d \in Command : ExpectedVersion[d] \in Nat
<1>1. \A d \in Command : EntityOf[d] \in Entity
    BY EntityOfAssumption
<1>2. DOMAIN rec = Entity /\ landed \in [Command -> Nat]
    BY DEF TypeOK
<1>3. \A d \in Command : rec'[EntityOf[d]] =
          IF EntityOf[d] = EntityOf[c]
          THEN [version |-> ExpectedVersion[c] + 1, last |-> c] ELSE rec[EntityOf[d]]
    BY <1>1, <1>2 DEF Written, WrittenVersion
<1> QED
    BY <1>2, <1>3, VersionAssumption DEF Current

\* A write in turn, to a record no stray write has reached, keeps the order of the
\* versions and takes effect for the first time.
LEMMA WriteInTurn ==
    ASSUME TypeOK, StoreInv, NEW c \in Command, EntityOf[c] \notin stray,
           Current(c).version = ExpectedVersion[c], stray' = stray,
           rec' = Written(c), landed' = [landed EXCEPT ![c] = @ + 1]
    PROVE  landed[c] = 0 /\ LandedIsPast' /\ AtMostOnceUnlessStray' /\ VersionHasOneWriter'
<1>1. /\ \A d \in Command : Current(d)' =
              IF EntityOf[d] = EntityOf[c]
              THEN [version |-> ExpectedVersion[c] + 1, last |-> c] ELSE Current(d)
      /\ \A d \in Command : landed'[d] = IF d = c THEN landed[c] + 1 ELSE landed[d]
      /\ \A d \in Command : landed[d] \in Nat
      /\ \A d \in Command : ExpectedVersion[d] \in Nat
    BY WriteEffect
<1>2. \A d \in Command : landed[d] > 0 /\ EntityOf[d] = EntityOf[c]
                         => ExpectedVersion[c] > ExpectedVersion[d]
    BY DEF StoreInv, LandedIsPast, Current
<1>3. landed[c] = 0
    BY <1>1, <1>2
<1>4. LandedIsPast'
    <2> SUFFICES ASSUME NEW d \in Command, EntityOf[d] \notin stray, landed'[d] > 0
                 PROVE  Current(d)'.version > ExpectedVersion[d]
        BY DEF LandedIsPast
    <2>1. CASE EntityOf[d] = EntityOf[c]
        <3>1. Current(d)'.version = ExpectedVersion[c] + 1
            BY <1>1, <2>1
        <3>2. d = c \/ ExpectedVersion[c] > ExpectedVersion[d]
            BY <1>1, <1>2, <2>1
        <3> QED
            BY <1>1, <3>1, <3>2
    <2>2. CASE EntityOf[d] # EntityOf[c]
        BY <1>1, <2>2 DEF StoreInv, LandedIsPast
    <2> QED
        BY <2>1, <2>2
<1>5. AtMostOnceUnlessStray'
    BY <1>1, <1>3 DEF StoreInv, AtMostOnceUnlessStray
<1>6. VersionHasOneWriter'
    BY <1>1, <1>2 DEF StoreInv, VersionHasOneWriter
<1> QED
    BY <1>3, <1>4, <1>5, <1>6

\* A stray write reaches its own record only.
LEMMA StrayWrite ==
    ASSUME TypeOK, StoreInv, NEW c \in Command, EntityOf[c] \in stray',
           stray \subseteq stray',
           rec' = Written(c), landed' = [landed EXCEPT ![c] = @ + 1]
    PROVE  LandedIsPast' /\ AtMostOnceUnlessStray' /\ VersionHasOneWriter'
<1>1. /\ \A d \in Command : EntityOf[d] # EntityOf[c] => Current(d)' = Current(d)
      /\ \A d \in Command : EntityOf[d] # EntityOf[c] => landed'[d] = landed[d]
    BY WriteEffect
<1>2. LandedIsPast'
    BY <1>1 DEF StoreInv, LandedIsPast
<1>3. AtMostOnceUnlessStray'
    BY <1>1 DEF StoreInv, AtMostOnceUnlessStray
<1>4. VersionHasOneWriter'
    BY <1>1 DEF StoreInv, VersionHasOneWriter
<1> QED
    BY <1>2, <1>3, <1>4

\* Every step keeps reads fresh, writes single and versions owned.
LEMMA NextStoreInv ==
    ASSUME TypeOK, StoreInv, [Next]_vars PROVE StoreInv'
<1>1. CASE UNCHANGED vars
    BY <1>1 DEF vars, airtableVars, memoryVars, StoreInv, LandedIsPast, ReadIsFresh,
                AtMostOnceUnlessStray, VersionHasOneWriter, Current, base
<1>2. CASE Next /\ UNCHANGED <<rec, landed, stray>>
    <2>1. LandedIsPast' /\ AtMostOnceUnlessStray' /\ VersionHasOneWriter'
        BY <1>2 DEF StoreInv, LandedIsPast, AtMostOnceUnlessStray, VersionHasOneWriter,
                    Current
    <2>2. ReadIsFresh'
        BY <1>2, WritingStarts DEF StoreInv, ReadIsFresh, Current
    <2> QED
        BY <2>1, <2>2 DEF StoreInv
<1>3. ASSUME base.phase = "writing", base'.phase # "writing", stray' = stray,
             rec' = Written(base.cmd), landed' = [landed EXCEPT ![base.cmd] = @ + 1]
      PROVE  StoreInv'
    <2> DEFINE c == base.cmd
    <2>1. c \in Command
        BY <1>3, ActiveBase
    <2>2. EntityOf[c] \notin stray => Current(c).version = ExpectedVersion[c]
        BY <1>3 DEF StoreInv, ReadIsFresh
    <2>3. rec' = Written(c) /\ landed' = [landed EXCEPT ![c] = @ + 1]
        BY <1>3
    <2> HIDE DEF c
    <2>4. LandedIsPast' /\ AtMostOnceUnlessStray' /\ VersionHasOneWriter'
        BY <1>3, <2>1, <2>2, <2>3, WriteInTurn, StrayWrite
    <2> QED
        BY <1>3, <2>4 DEF StoreInv, ReadIsFresh
<1>4. ASSUME NEW c \in Command, WriteLands(c) PROVE StoreInv'
    <2>1. /\ rec' = Written(c) /\ landed' = [landed EXCEPT ![c] = @ + 1]
          /\ UNCHANGED task
          /\ stray' = IF InTurn(c) THEN stray ELSE stray \cup {EntityOf[c]}
        BY <1>4 DEF WriteLands, memoryVars
    <2>2. LandedIsPast' /\ AtMostOnceUnlessStray' /\ VersionHasOneWriter'
        <3>1. CASE InTurn(c) /\ EntityOf[c] \notin stray
            BY <2>1, <3>1, WriteInTurn DEF InTurn, Current
        <3>2. CASE ~(InTurn(c) /\ EntityOf[c] \notin stray)
            BY <2>1, <3>2, StrayWrite
        <3> QED
            BY <3>1, <3>2
    <2>3. ReadIsFresh'
        <3> SUFFICES ASSUME base'.phase = "writing", EntityOf[base'.cmd] \notin stray'
                     PROVE  Current(base.cmd)'.version = ExpectedVersion[base'.cmd]
            BY DEF ReadIsFresh
        <3>1. base' = base
            BY <2>1 DEF base
        <3>2. base.cmd \in Command
            BY <3>1, ActiveBase
        <3>3. EntityOf[base.cmd] # EntityOf[c] /\ EntityOf[base.cmd] \notin stray
            BY <2>1, <3>1 DEF InTurn
        <3>4. rec'[EntityOf[base.cmd]] = rec[EntityOf[base.cmd]]
            BY <2>1, <3>2, <3>3, EntityOfAssumption DEF Written, TypeOK
        <3> QED
            BY <3>1, <3>3, <3>4 DEF StoreInv, ReadIsFresh, Current
    <2> QED
        BY <2>2, <2>3 DEF StoreInv
<1> QED
    BY <1>1, <1>2, <1>3, <1>4, AirtableSteps

\* A read, its version check and its unconditional write act as one, whenever
\* unanswered writes land, on every record none of them has changed out of turn.
THEOREM StoreInvariant == Spec => []StoreInv
<1>1. Init => StoreInv
    BY InitStoreInv
<1>2. TypeOK /\ StoreInv /\ [Next]_vars => StoreInv'
    BY NextStoreInv
<1> QED
    BY <1>1, <1>2, TypeCorrect, PTL DEF Spec

\* However often a command is retried by its clients, the alarm, the repair queue
\* and the readback, its write takes effect at most once, unless an unanswered write
\* has changed its record out of turn.
THEOREM WritesHappenOnce == Spec => []AtMostOnceUnlessStray
<1>1. StoreInv => AtMostOnceUnlessStray
    BY DEF StoreInv
<1> QED
    BY <1>1, StoreInvariant, PTL

-----------------------------------------------------------------------------
(* The refinement *)

\* The initial states are initial states of the abstract store.
LEMMA InitStore == Init => Store!StoreInit
<1> SUFFICES ASSUME Init PROVE Store!StoreInit
    OBVIOUS
<1>1. [e \in Entity |-> rec[e].version] = [e \in Entity |-> 0]
    BY DEF Init
<1>2. {c \in Command : landed[c] > 0} = {}
    BY DEF Init
<1>3. {c \in Command : Acknowledged(c)} = {}
    BY DEF Init, Acknowledged, Told
<1> QED
    BY <1>1, <1>2, <1>3 DEF Store!StoreInit

\* A step that answers callers of one command, at most.
LEMMA Answers ==
    ASSUME TypeOK, Next
    PROVE  \/ UNCHANGED told
           \/ UNCHANGED airtableVars
              /\ \E c \in Command : \E H, a : Tell(c, H, a)
<1> USE DEF storageVars, memoryVars, d1Vars
<1>1. ASSUME NEW a, Settle(a), base.phase # "idle"
      PROVE  UNCHANGED told \/ \E c \in Command : \E H, b : Tell(c, H, b)
    BY <1>1, ActiveBase DEF Settle
<1>2. CASE Execute
    BY <1>2 DEF Execute, ExecuteReplaysFailure, ExecuteReplaysResponse, ExecuteJoins,
                ExecuteEnqueues
<1>3. CASE Respond
    BY <1>1, <1>3 DEF Respond
<1>4. CASE BeginAttempt \/ StartJob \/ Provider
    BY <1>4 DEF BeginAttempt, StartJob, Provider, StoreReplays, StoreReadFails,
           StoreConflicts, StoreSends, WriteAnswered, WriteRefused, WriteUnanswered,
           ResultPersisted, FailurePersisted
<1>5. CASE Recover
    BY <1>1, <1>5 DEF Recover, RecoverReadFails, RecoverApplied, RecoverWaits, RecoverRetries,
           RecoverDefers, ResultPersisted
<1>6. ASSUME NEW s \in Slot, Projection(s)
      PROVE  /\ UNCHANGED airtableVars
             /\ UNCHANGED told \/ \E c \in Command : \E H, b : Tell(c, H, b)
    <2>0. UNCHANGED airtableVars /\ task[s].phase # "idle"
        BY <1>6 DEF Projection, ProjectCommits, ProjectDrainFails, ProjectFails,
               FinishProjection, ReportRepair, FailureProjects, FailureProjectionFails
    <2>1. UNCHANGED told \/ \E a : SettleTask(s, a)
        BY <1>6 DEF Projection, ProjectCommits, ProjectDrainFails, ProjectFails,
               FinishProjection, ReportRepair, FailureProjects, FailureProjectionFails
    <2> QED
        BY <1>1, <2>0, <2>1 DEF SettleTask, base
<1>7. CASE AlarmFires \/ (\E w \in Worker : Pass(w)) \/ Environment
    BY <1>7 DEF AlarmFires, Pass, RecoverPending, RecoverNext, RecoverEnds, Environment,
            TimerElapses, WriteLands, WriteIsLost, Crash
<1> QED
    BY <1>2, <1>3, <1>4, <1>5, <1>6, <1>7 DEF Next

\* Answering a command acknowledges it and no other.
LEMMA AnswerStep ==
    ASSUME TypeOK, NEW c \in Command, NEW H, NEW a, Tell(c, H, a),
           UNCHANGED airtableVars, CommittedIsApplied'
    PROVE  [Store!StoreNext]_(Store!storeVars)
<1>1. \A d \in Command : d # c => (Acknowledged(d)' <=> Acknowledged(d))
    BY DEF Tell, Acknowledged, Told, TypeOK
<1>2. Acknowledged(c) => Acknowledged(c)'
    BY DEF Tell, Acknowledged, Told, TypeOK
<1>3. /\ UNCHANGED [e \in Entity |-> rec[e].version]
      /\ UNCHANGED {d \in Command : landed[d] > 0}
    BY DEF airtableVars
<1>4. CASE Acknowledged(c)' <=> Acknowledged(c)
    <2>1. UNCHANGED {d \in Command : Acknowledged(d)}
        BY <1>1, <1>4
    <2> QED
        BY <1>3, <2>1 DEF Store!storeVars
<1>5. CASE Acknowledged(c)' /\ ~Acknowledged(c)
    <2>1. {d \in Command : Acknowledged(d)}' = {d \in Command : Acknowledged(d)} \cup {c}
        BY <1>1, <1>5
    <2>2. c \in {d \in Command : landed[d] > 0}
        BY <1>5 DEF CommittedIsApplied, airtableVars
    <2> QED
        BY <1>3, <2>1, <2>2 DEF Store!StoreNext, Store!Acknowledge
<1> QED
    BY <1>2, <1>4, <1>5

\* What a write does to the abstract store.
LEMMA OverwriteStep ==
    ASSUME TypeOK, NEW c \in Command, UNCHANGED told,
           rec' = Written(c), landed' = [landed EXCEPT ![c] = @ + 1]
    PROVE  Store!Overwrite(c)
<1>1. /\ \A d \in Command : landed'[d] = IF d = c THEN landed[c] + 1 ELSE landed[d]
      /\ \A d \in Command : landed[d] \in Nat
    BY WriteEffect
<1>2. {d \in Command : landed[d] > 0}' = {d \in Command : landed[d] > 0} \cup {c}
    BY <1>1
<1>3. UNCHANGED {d \in Command : Acknowledged(d)}
    BY DEF Acknowledged, Told
<1>4. [e \in Entity |-> rec[e].version]' =
          [[e \in Entity |-> rec[e].version] EXCEPT ![EntityOf[c]] = ExpectedVersion[c] + 1]
    <2>1. DOMAIN rec = Entity /\ EntityOf[c] \in Entity
        BY EntityOfAssumption DEF TypeOK
    <2>2. \A e \in Entity : rec'[e].version =
              IF e = EntityOf[c] THEN ExpectedVersion[c] + 1 ELSE rec[e].version
        BY <2>1 DEF Written, WrittenVersion
    <2> QED
        BY <2>1, <2>2
<1> QED
    BY <1>2, <1>3, <1>4 DEF Store!Overwrite

\* A write in turn, to a record no stray write has reached, is one atomic
\* compare-and-swap.
LEMMA ApplyStep ==
    ASSUME TypeOK, StoreInv, NEW c \in Command, UNCHANGED told, stray' = stray,
           EntityOf[c] \notin stray, Current(c).version = ExpectedVersion[c],
           rec' = Written(c), landed' = [landed EXCEPT ![c] = @ + 1]
    PROVE  Store!StoreNext
<1>1. Store!Overwrite(c)
    BY OverwriteStep
<1>2. c \notin {d \in Command : landed[d] > 0}
    <2>1. landed[c] = 0
        BY WriteInTurn
    <2> QED
        BY <2>1
<1>3. [e \in Entity |-> rec[e].version][EntityOf[c]] = ExpectedVersion[c]
    BY EntityOfAssumption DEF Current
<1>4. Store!Apply(c)
    BY <1>1, <1>2, <1>3 DEF Store!Apply
<1> QED
    BY <1>4 DEF Store!StoreNext

\* An unconditional write to a record that a stray write reaches, or has reached.
StrayStep == \E c \in Command : EntityOf[c] \in stray' /\ Store!Overwrite(c)

\* Every step is a step of the abstract store, a write to such a record, or nothing.
LEMMA StepStore ==
    ASSUME TypeOK, StoreInv, CommittedIsApplied', [Next]_vars
    PROVE  [Store!StoreNext \/ StrayStep]_(Store!storeVars)
<1>1. CASE UNCHANGED <<rec, landed, told>>
    <2>1. UNCHANGED [e \in Entity |-> rec[e].version]
        BY <1>1
    <2>2. UNCHANGED {c \in Command : landed[c] > 0}
        BY <1>1
    <2>3. UNCHANGED {c \in Command : Acknowledged(c)}
        BY <1>1 DEF Acknowledged, Told
    <2> QED
        BY <2>1, <2>2, <2>3 DEF Store!storeVars
<1>2. CASE Next /\ ~UNCHANGED told
    BY <1>2, Answers, AnswerStep
<1>3. ASSUME Next, UNCHANGED told, base.phase = "writing", stray' = stray,
             rec' = Written(base.cmd), landed' = [landed EXCEPT ![base.cmd] = @ + 1]
      PROVE  Store!StoreNext \/ StrayStep
    <2>1. base.cmd \in Command
        BY <1>3, ActiveBase
    <2>2. EntityOf[base.cmd] \notin stray
          => Current(base.cmd).version = ExpectedVersion[base.cmd]
        BY <1>3 DEF StoreInv, ReadIsFresh
    <2> QED
        BY <1>3, <2>1, <2>2, ApplyStep, OverwriteStep DEF StrayStep
<1>4. ASSUME NEW c \in Command, WriteLands(c) PROVE Store!StoreNext \/ StrayStep
    <2>1. /\ rec' = Written(c) /\ landed' = [landed EXCEPT ![c] = @ + 1]
          /\ UNCHANGED told
          /\ stray' = IF InTurn(c) THEN stray ELSE stray \cup {EntityOf[c]}
        BY <1>4 DEF WriteLands
    <2>2. CASE InTurn(c) /\ EntityOf[c] \notin stray
        BY <2>1, <2>2, ApplyStep DEF InTurn, Current
    <2>3. CASE ~(InTurn(c) /\ EntityOf[c] \notin stray)
        BY <2>1, <2>3, OverwriteStep DEF StrayStep
    <2> QED
        BY <2>2, <2>3
<1>5. CASE UNCHANGED vars
    BY <1>1, <1>5 DEF vars, airtableVars
<1> QED
    BY <1>1, <1>2, <1>3, <1>4, <1>5, AirtableSteps

\* BaseAuthority, Airtable and D1 implement a compare-and-swap store of versioned
\* records that acknowledges a command only once it has been applied: every step is
\* one of that store, save the writes to a record an unanswered write has changed
\* out of turn.
THEOREM ImplementsStore == Spec => ImplementsStoreUnlessStray
<1>1. Init => Store!StoreInit
    BY InitStore
<1>2. TypeOK /\ StoreInv /\ CommittedIsApplied' /\ [Next]_vars
          => [Store!StoreNext \/ StrayStep]_(Store!storeVars)
    BY StepStore
<1> QED
    BY <1>1, <1>2, TypeCorrect, StoreInvariant, CommitsAreApplied, PTL
    DEF Spec, ImplementsStoreUnlessStray, StrayStep

=============================================================================
