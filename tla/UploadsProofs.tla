---------------------------- MODULE UploadsProofs ----------------------------
(***************************************************************************)
(* Theorems about Uploads for every number of stores, readers and runs of  *)
(* the cleanup, and every limit of attempts.                               *)
(***************************************************************************)
EXTENDS Uploads, TLAPS

\* The intent has left the way to a ready file, and does not come back to it.
Closed == intent.status \in {"cleanup", "expired", "failed"}

\* The object may be missing: it was lost, refused, or given up.
Excused == Closed \/ lost \/ ~good

\* The capability lapses before the lease of any attempt it allowed.
LeaseOutlivesCapability ==
    intent.status = "uploading" /\ timer.age < uploadCapabilityLifetime => timer.lease > 0

\* A store at work holds the lease, unless the intent was taken from it.
StoresHold ==
    \A s \in Stores :
        /\ store[s].phase \in {"put", "head", "scrub", "reject", "complete"} =>
              Closed \/ (intent.status = "uploading" /\ intent.lease = s)
        /\ store[s].phase \in {"orphan", "requeue"} => Closed

\* What a store is about to report as uploaded is in R2.
StoredIsThere ==
    \A s \in Stores :
        store[s].phase = "complete" \/ (store[s].phase = "put" /\ put[s] = "stored") =>
            bucket # None \/ lost \/ Closed

\* A reader at work saw what is there, or has a reason to remove it.
ReadersSaw ==
    \A r \in Readers :
        /\ reader[r].phase \in ReaderPhases =>
              Closed \/ intent.status \in {"uploaded", "finalized"}
        /\ reader[r].phase = "sample" => bucket = reader[r].saw \/ Excused
        /\ reader[r].phase = "commit" => good /\ (bucket = reader[r].saw \/ Excused)
        /\ reader[r].phase = "get" =>
              Closed \/ (file.status = "ready" /\ file.version = reader[r].saw)
        /\ reader[r].phase \in {"discard", "mark", "requeue"} => Excused

\* A cleanup removes only what is given up.
CleanersRemove ==
    \A k \in Cleaners :
        cleaner[k] \in {"delete", "complete", "remove", "record"} => Closed

ReadyIsGood == file.status = "ready" => good

\* Together inductive, over rows that agree.
Safe ==
    /\ LeaseOutlivesCapability
    /\ StoresHold
    /\ StoredIsThere
    /\ ReadersSaw
    /\ CleanersRemove
    /\ ReadyIsGood
    /\ AnsweredIsStored

IInv == TypeOK /\ RowsAgree /\ Safe

-----------------------------------------------------------------------------
(* Types *)

LEMMA Bounds ==
    /\ 0 \in 0 .. uploadCleanupGrace /\ uploadCleanupGrace \in 0 .. uploadCleanupGrace
    /\ 0 \in 0 .. uploadLease /\ uploadLease \in 0 .. uploadLease
    /\ 0 \in 0 .. TerminalInterval /\ TerminalInterval \in 0 .. TerminalInterval
BY BoundsAssumption DEF uploadCleanupGrace, uploadLease

LEMMA Ended ==
    ASSUME intent \in Intent, NEW status \in IntentStatus \ {"uploading"}
    PROVE  /\ IntentBecomes(status) \in Intent
           /\ IntentBecomes(status).status # "uploading"
BY DEF IntentBecomes, Intent

LEMMA Requeued ==
    ASSUME file \in File, intent \in Intent, timer \in Timer, QueueCleanup
    PROVE  /\ file' \in File /\ intent' \in Intent /\ timer' \in Timer
           /\ intent'.status # "uploading"
<1>1. intent' \in Intent /\ intent'.status # "uploading"
  BY Ended DEF QueueCleanup, IntentStatus, Open
<1>2. file' \in File
  BY DEF QueueCleanup, File
<1>3. timer' \in Timer
  BY Bounds DEF QueueCleanup, Timer
<1> QED
  BY <1>1, <1>2, <1>3

LEMMA Rejection ==
    ASSUME file \in File, intent \in Intent, timer \in Timer, NEW s \in Stores, Rejected(s)
    PROVE  /\ file' \in File /\ intent' \in Intent /\ timer' \in Timer
           /\ intent' = intent \/ intent'.status # "uploading"
<1>1. intent' \in Intent /\ (intent' = intent \/ intent'.status # "uploading")
  BY Ended DEF Rejected, IntentStatus, Open
<1>2. timer' \in Timer
  BY Bounds DEF Rejected, Timer
<1>3. file' \in File
  BY DEF Rejected, File
<1> QED
  BY <1>1, <1>2, <1>3

LEMMA Marking ==
    ASSUME file \in File, intent \in Intent, timer \in Timer, Marked
    PROVE  /\ file' \in File /\ intent' \in Intent /\ timer' \in Timer
           /\ intent' = intent \/ intent'.status # "uploading"
<1>1. intent' \in Intent /\ (intent' = intent \/ intent'.status # "uploading")
  BY Ended DEF Marked, IntentStatus, Open
<1>2. timer' \in Timer
  BY Bounds DEF Marked, Timer
<1>3. file' \in File
  BY DEF Marked, File
<1> QED
  BY <1>1, <1>2, <1>3

LEMMA StoreMoves ==
    ASSUME store \in [Stores -> StoreCall], NEW s \in Stores, store[s].phase \in StorePhases,
           (\E phase \in StorePhases : StoreGoes(s, phase)) \/ StoreEnds(s)
    PROVE  store' \in [Stores -> StoreCall]
BY DEF StoreGoes, StoreEnds, StoreCall, StorePhases, Idle, Done

LEMMA ReaderMoves ==
    ASSUME reader \in [Readers -> ReaderCall], NEW r \in Readers, reader[r].phase \in ReaderPhases,
           (\E phase \in ReaderPhases : ReaderGoes(r, phase)) \/ ReaderEnds(r)
    PROVE  reader' \in [Readers -> ReaderCall]
BY DEF ReaderGoes, ReaderEnds, ReaderCall, ReaderPhases, Idle, Done

LEMMA StoreKeepsTypes ==
    ASSUME TypeOK, NEW s \in Stores, Store(s)
    PROVE  TypeOK'
<1> USE DEF TypeOK, rows, calls
<1>StoreClaims. CASE StoreClaims(s)
  <2> USE <1>StoreClaims DEF StoreClaims
  <2>1. intent.attempts + 1 \in 1 .. maxUploadAttempts
    BY BoundsAssumption DEF Claimable, Intent
  <2>2. intent' \in Intent /\ intent'.lease # None
    BY <2>1, NoneAssumption DEF Intent, IntentStatus, Open
  <2>3. timer' \in Timer
    BY Bounds DEF Timer
  <2>4. store' \in [Stores -> StoreCall]
    BY <2>1 DEF StoreCall, StorePhases
  <2> QED
    BY <2>2, <2>3, <2>4
<1>PutLands. CASE PutLands(s)
  BY <1>PutLands DEF PutLands
<1>PutAnswered. CASE PutAnswered(s)
  BY <1>PutAnswered, StoreMoves DEF PutAnswered, StorePhases
<1>PutThrows. CASE PutThrows(s)
  BY <1>PutThrows, StoreMoves DEF PutThrows, StorePhases
<1>StoreHeads. CASE StoreHeads(s)
  BY <1>StoreHeads, StoreMoves DEF StoreHeads, StorePhases
<1>StoreScrubs. CASE StoreScrubs(s)
  BY <1>StoreScrubs, StoreMoves DEF StoreScrubs, StorePhases, DeleteThrows
<1>StoreRejects. CASE StoreRejects(s)
  BY <1>StoreRejects, StoreMoves, Rejection DEF StoreRejects, StorePhases
<1>StoreCompletes. CASE StoreCompletes(s)
  BY <1>StoreCompletes, StoreMoves, Ended DEF StoreCompletes, StorePhases, IntentStatus, Open
<1>StoreUndoes. CASE StoreUndoes(s)
  BY <1>StoreUndoes, StoreMoves DEF StoreUndoes, StorePhases, DeleteThrows
<1>StoreRequeues. CASE StoreRequeues(s)
  BY <1>StoreRequeues, StoreMoves, Requeued DEF StoreRequeues, StorePhases
<1>StoreDies. CASE StoreDies(s)
  BY <1>StoreDies, StoreMoves DEF StoreDies
<1> QED
  BY <1>StoreClaims, <1>PutLands, <1>PutAnswered, <1>PutThrows, <1>StoreHeads,
      <1>StoreScrubs, <1>StoreRejects, <1>StoreCompletes, <1>StoreUndoes, <1>StoreRequeues,
      <1>StoreDies DEF Store

LEMMA ReaderKeepsTypes ==
    ASSUME TypeOK, NEW r \in Readers, Reader(r)
    PROVE  TypeOK'
<1> USE DEF TypeOK, rows
<1>FinalizeCommits. CASE FinalizeCommits(r)
  <2> USE <1>FinalizeCommits DEF FinalizeCommits
  <2>1. reader[r].saw \in Stores \cup {None}
    BY DEF ReaderCall, Idle, Done
  <2>2. file' \in File
    BY <2>1 DEF File
  <2>3. intent' \in Intent /\ (intent'.status = "uploading" => intent'.lease # None)
    BY Ended DEF IntentStatus, Open
  <2>4. reader' \in [Readers -> ReaderCall]
    BY ReaderMoves DEF ReaderPhases
  <2> QED
    BY <2>2, <2>3, <2>4
<1>FinalizeReads. CASE FinalizeReads(r)
  BY <1>FinalizeReads DEF FinalizeReads, ReaderCall, ReaderPhases
<1>FinalizeHeads. CASE FinalizeHeads(r)
  BY <1>FinalizeHeads DEF FinalizeHeads, ReaderCall, ReaderPhases
<1>FinalizeSamples. CASE FinalizeSamples(r)
  BY <1>FinalizeSamples, ReaderMoves DEF FinalizeSamples, ReaderPhases
<1>DownloadReads. CASE DownloadReads(r)
  BY <1>DownloadReads DEF DownloadReads, ReaderCall, ReaderPhases, File
<1>DownloadGets. CASE DownloadGets(r)
  BY <1>DownloadGets, ReaderMoves DEF DownloadGets, ReaderPhases
<1>ReaderDiscards. CASE ReaderDiscards(r)
  BY <1>ReaderDiscards, ReaderMoves DEF ReaderDiscards, ReaderPhases, DeleteThrows
<1>ReaderMarks. CASE ReaderMarks(r)
  BY <1>ReaderMarks, ReaderMoves, Marking DEF ReaderMarks, ReaderPhases
<1>ReaderRequeues. CASE ReaderRequeues(r)
  BY <1>ReaderRequeues, ReaderMoves, Requeued DEF ReaderRequeues, ReaderPhases
<1>ReaderDies. CASE ReaderDies(r)
  BY <1>ReaderDies, ReaderMoves DEF ReaderDies
<1> QED
  BY <1>FinalizeCommits, <1>FinalizeReads, <1>FinalizeHeads, <1>FinalizeSamples,
      <1>DownloadReads, <1>DownloadGets, <1>ReaderDiscards, <1>ReaderMarks, <1>ReaderRequeues,
      <1>ReaderDies DEF Reader

LEMMA CleanerKeepsTypes ==
    ASSUME TypeOK, NEW k \in Cleaners, Cleaner(k)
    PROVE  TypeOK'
<1> USE DEF TypeOK, rows, CleanerGoes, CleanerPhases
<1>CleanerClaims. CASE CleanerClaims(k)
  <2> USE <1>CleanerClaims DEF CleanerClaims
  <2>1. intent' \in Intent /\ (intent'.status = "uploading" => intent'.lease # None)
    BY NoneAssumption DEF Intent, IntentStatus, Open
  <2>2. timer' \in Timer
    BY Bounds DEF Timer
  <2> QED
    BY <2>1, <2>2
<1>CleanerCompletes. CASE CleanerCompletes(k)
  <2> USE <1>CleanerCompletes DEF CleanerCompletes
  <2>1. intent' \in Intent /\ (intent'.status = "uploading" => intent'.lease # None)
    BY Ended DEF IntentStatus, Open
  <2>2. timer' \in Timer
    BY Bounds DEF Timer
  <2>3. file' \in File
    BY DEF File
  <2> QED
    BY <2>1, <2>2, <2>3
<1>CleanerRecords. CASE CleanerRecords(k)
  <2>1. timer' \in Timer
    BY <1>CleanerRecords, Bounds DEF CleanerRecords, Timer
  <2> QED
    BY <1>CleanerRecords, <2>1 DEF CleanerRecords
<1>CleanerSelects. CASE CleanerSelects(k)
  BY <1>CleanerSelects DEF CleanerSelects
<1>CleanerDeletes. CASE CleanerDeletes(k)
  BY <1>CleanerDeletes DEF CleanerDeletes
<1>CleanerReconciles. CASE CleanerReconciles(k)
  BY <1>CleanerReconciles DEF CleanerReconciles
<1>CleanerRemoves. CASE CleanerRemoves(k)
  BY <1>CleanerRemoves DEF CleanerRemoves
<1>CleanerFails. CASE CleanerFails(k)
  BY <1>CleanerFails DEF CleanerFails, DeleteThrows
<1> QED
  BY <1>CleanerClaims, <1>CleanerCompletes, <1>CleanerRecords, <1>CleanerSelects,
      <1>CleanerDeletes, <1>CleanerReconciles, <1>CleanerRemoves, <1>CleanerFails DEF Cleaner

LEMMA TickKeepsTypes == TypeOK /\ Tick => TypeOK'
<1> SUFFICES ASSUME TypeOK, Tick PROVE TypeOK'
  OBVIOUS
<1>1. timer' \in Timer
  BY BoundsAssumption DEF TypeOK, Tick, Timer, Less, uploadCleanupGrace, uploadLease
<1> QED
  BY <1>1 DEF TypeOK, Tick, calls

LEMMA LoseKeepsTypes == TypeOK /\ Lose => TypeOK'
BY DEF TypeOK, Lose, rows, calls

LEMMA InitialTypes == Init => TypeOK
<1> SUFFICES ASSUME Init PROVE TypeOK
  OBVIOUS
<1>1. file \in File
  BY DEF Init, File
<1>2. intent \in Intent
  BY BoundsAssumption DEF Init, Intent, IntentStatus, Open
<1>3. timer \in Timer
  BY Bounds DEF Init, Timer
<1> QED
  BY <1>1, <1>2, <1>3 DEF Init, TypeOK, StoreCall, ReaderCall, CleanerPhases

LEMMA Stutter == TypeOK /\ UNCHANGED vars => TypeOK'
BY DEF TypeOK, vars, rows, calls

LEMMA NextKeepsTypes == TypeOK /\ [Next]_vars => TypeOK'
BY StoreKeepsTypes, ReaderKeepsTypes, CleanerKeepsTypes, TickKeepsTypes, LoseKeepsTypes, Stutter
   DEF Next

\* Rows, object and calls keep their types.
THEOREM TypeCorrect == Spec => []TypeOK
BY InitialTypes, NextKeepsTypes, PTL DEF Spec

-----------------------------------------------------------------------------
(* The two rows *)

LEMMA StoreKeepsRows ==
    ASSUME TypeOK, RowsAgree, NEW s \in Stores, Store(s)
    PROVE  RowsAgree'
<1> USE DEF RowsAgree, TypeOK, rows, calls, File, Intent, IntentStatus, Open
<1>StoreClaims. CASE StoreClaims(s)
  BY <1>StoreClaims DEF StoreClaims, Claimable
<1>PutLands. CASE PutLands(s)
  BY <1>PutLands DEF PutLands
<1>PutAnswered. CASE PutAnswered(s)
  BY <1>PutAnswered DEF PutAnswered
<1>PutThrows. CASE PutThrows(s)
  BY <1>PutThrows DEF PutThrows
<1>StoreHeads. CASE StoreHeads(s)
  BY <1>StoreHeads DEF StoreHeads
<1>StoreScrubs. CASE StoreScrubs(s)
  BY <1>StoreScrubs DEF StoreScrubs, DeleteThrows
<1>StoreRejects. CASE StoreRejects(s)
  BY <1>StoreRejects DEF StoreRejects, Rejected, IntentBecomes
<1>StoreCompletes. CASE StoreCompletes(s)
  BY <1>StoreCompletes DEF StoreCompletes, IntentBecomes
<1>StoreUndoes. CASE StoreUndoes(s)
  BY <1>StoreUndoes DEF StoreUndoes, DeleteThrows
<1>StoreRequeues. CASE StoreRequeues(s)
  BY <1>StoreRequeues DEF StoreRequeues, QueueCleanup, IntentBecomes
<1>StoreDies. CASE StoreDies(s)
  BY <1>StoreDies DEF StoreDies
<1> QED
  BY <1>StoreClaims, <1>PutLands, <1>PutAnswered, <1>PutThrows, <1>StoreHeads,
      <1>StoreScrubs, <1>StoreRejects, <1>StoreCompletes, <1>StoreUndoes, <1>StoreRequeues,
      <1>StoreDies DEF Store

LEMMA ReaderKeepsRows ==
    ASSUME TypeOK, RowsAgree, NEW r \in Readers, Reader(r)
    PROVE  RowsAgree'
<1> USE DEF RowsAgree, TypeOK, rows, calls, File, Intent, IntentStatus, Open
<1>FinalizeReads. CASE FinalizeReads(r)
  BY <1>FinalizeReads DEF FinalizeReads
<1>FinalizeHeads. CASE FinalizeHeads(r)
  BY <1>FinalizeHeads DEF FinalizeHeads
<1>FinalizeSamples. CASE FinalizeSamples(r)
  BY <1>FinalizeSamples DEF FinalizeSamples
<1>FinalizeCommits. CASE FinalizeCommits(r)
  <2>1. CASE Finalizable
    <3>1. intent'.status = "finalized"
      BY <1>FinalizeCommits, <2>1 DEF FinalizeCommits, Finalizable, IntentBecomes
    <3>2. file'.status = "ready"
      BY <1>FinalizeCommits, <2>1 DEF FinalizeCommits
    <3> QED
      BY <3>1, <3>2
  <2>2. CASE ~Finalizable
    BY <1>FinalizeCommits, <2>2 DEF FinalizeCommits
  <2> QED
    BY <2>1, <2>2
<1>DownloadReads. CASE DownloadReads(r)
  BY <1>DownloadReads DEF DownloadReads
<1>DownloadGets. CASE DownloadGets(r)
  BY <1>DownloadGets DEF DownloadGets
<1>ReaderDiscards. CASE ReaderDiscards(r)
  BY <1>ReaderDiscards DEF ReaderDiscards, DeleteThrows
<1>ReaderMarks. CASE ReaderMarks(r)
  BY <1>ReaderMarks DEF ReaderMarks, Marked, IntentBecomes
<1>ReaderRequeues. CASE ReaderRequeues(r)
  BY <1>ReaderRequeues DEF ReaderRequeues, QueueCleanup, IntentBecomes
<1>ReaderDies. CASE ReaderDies(r)
  BY <1>ReaderDies DEF ReaderDies
<1> QED
  BY <1>FinalizeReads, <1>FinalizeHeads, <1>FinalizeSamples, <1>FinalizeCommits,
      <1>DownloadReads, <1>DownloadGets, <1>ReaderDiscards, <1>ReaderMarks, <1>ReaderRequeues,
      <1>ReaderDies DEF Reader

LEMMA CleanerKeepsRows ==
    ASSUME TypeOK, RowsAgree, NEW k \in Cleaners, Cleaner(k)
    PROVE  RowsAgree'
<1> USE DEF RowsAgree, TypeOK, rows, calls, File, Intent, IntentStatus, Open
<1>CleanerSelects. CASE CleanerSelects(k)
  BY <1>CleanerSelects DEF CleanerSelects, Due
<1>CleanerClaims. CASE CleanerClaims(k)
  BY <1>CleanerClaims DEF CleanerClaims, Due
<1>CleanerDeletes. CASE CleanerDeletes(k)
  BY <1>CleanerDeletes DEF CleanerDeletes
<1>CleanerCompletes. CASE CleanerCompletes(k)
  BY <1>CleanerCompletes DEF CleanerCompletes, IntentBecomes
<1>CleanerReconciles. CASE CleanerReconciles(k)
  BY <1>CleanerReconciles DEF CleanerReconciles, Terminal
<1>CleanerRemoves. CASE CleanerRemoves(k)
  BY <1>CleanerRemoves DEF CleanerRemoves
<1>CleanerRecords. CASE CleanerRecords(k)
  BY <1>CleanerRecords DEF CleanerRecords
<1>CleanerFails. CASE CleanerFails(k)
  BY <1>CleanerFails DEF CleanerFails, DeleteThrows
<1> QED
  BY <1>CleanerSelects, <1>CleanerClaims, <1>CleanerDeletes, <1>CleanerCompletes,
      <1>CleanerReconciles, <1>CleanerRemoves, <1>CleanerRecords, <1>CleanerFails DEF Cleaner

-----------------------------------------------------------------------------
(* The object *)

LEMMA StoreKeepsSafe ==
    ASSUME TypeOK, RowsAgree, Safe, NEW s \in Stores, Store(s)
    PROVE  Safe'
<1> USE DEF Safe, TypeOK, RowsAgree, rows, calls, File, Intent, Timer, StoreCall,
    ReaderCall, ReaderPhases, IntentStatus, Open, Idle, Done, StoreGoes, StoreEnds, ReaderGoes,
    ReaderEnds, CleanerGoes, LeaseOutlivesCapability, StoresHold, StoredIsThere, ReadersSaw,
    CleanersRemove, ReadyIsGood, AnsweredIsStored, Closed, Excused, uploadCapabilityLifetime,
    uploadCleanupGrace, uploadLease
<1>StoreClaims. CASE StoreClaims(s)
  BY <1>StoreClaims DEF StoreClaims, Claimable
<1>PutLands. CASE PutLands(s)
  BY <1>PutLands DEF PutLands
<1>PutAnswered. CASE PutAnswered(s)
  BY <1>PutAnswered DEF PutAnswered
<1>PutThrows. CASE PutThrows(s)
  BY <1>PutThrows DEF PutThrows
<1>StoreHeads. CASE StoreHeads(s)
  BY <1>StoreHeads DEF StoreHeads
<1>StoreScrubs. CASE StoreScrubs(s)
  BY <1>StoreScrubs DEF StoreScrubs, DeleteThrows
<1>StoreRejects. CASE StoreRejects(s)
  BY <1>StoreRejects DEF StoreRejects, Rejected, IntentBecomes
<1>StoreCompletes. CASE StoreCompletes(s)
  BY <1>StoreCompletes DEF StoreCompletes, IntentBecomes
<1>StoreUndoes. CASE StoreUndoes(s)
  BY <1>StoreUndoes DEF StoreUndoes, DeleteThrows
<1>StoreRequeues. CASE StoreRequeues(s)
  BY <1>StoreRequeues DEF StoreRequeues, QueueCleanup, IntentBecomes
<1>StoreDies. CASE StoreDies(s)
  BY <1>StoreDies DEF StoreDies
<1> QED
  BY <1>StoreClaims, <1>PutLands, <1>PutAnswered, <1>PutThrows, <1>StoreHeads,
      <1>StoreScrubs, <1>StoreRejects, <1>StoreCompletes, <1>StoreUndoes, <1>StoreRequeues,
      <1>StoreDies DEF Store

LEMMA ReaderKeepsSafe ==
    ASSUME TypeOK, RowsAgree, Safe, NEW r \in Readers, Reader(r)
    PROVE  Safe'
<1> USE DEF Safe, TypeOK, RowsAgree, rows, calls, File, Intent, Timer, StoreCall,
    ReaderCall, ReaderPhases, IntentStatus, Open, Idle, Done, StoreGoes, StoreEnds, ReaderGoes,
    ReaderEnds, CleanerGoes, LeaseOutlivesCapability, StoresHold, StoredIsThere, ReadersSaw,
    CleanersRemove, ReadyIsGood, AnsweredIsStored, Closed, Excused, uploadCapabilityLifetime,
    uploadCleanupGrace, uploadLease
<1>FinalizeReads. CASE FinalizeReads(r)
  BY <1>FinalizeReads DEF FinalizeReads
<1>FinalizeHeads. CASE FinalizeHeads(r)
  BY <1>FinalizeHeads DEF FinalizeHeads
<1>FinalizeSamples. CASE FinalizeSamples(r)
  BY <1>FinalizeSamples DEF FinalizeSamples
<1>FinalizeCommits. CASE FinalizeCommits(r)
  <2>1. CASE Finalizable
    <3>1. intent.status = "uploaded" /\ intent'.status = "finalized" /\ good
      BY <1>FinalizeCommits, <2>1 DEF FinalizeCommits, Finalizable, IntentBecomes
    <3>2. file'.status = "ready" /\ file'.version = reader[r].saw
      BY <1>FinalizeCommits, <2>1 DEF FinalizeCommits
    <3>3. bucket = reader[r].saw \/ lost
      BY <1>FinalizeCommits, <3>1 DEF FinalizeCommits
    <3>4. timer' = timer /\ bucket' = bucket /\ put' = put /\ store' = store
          /\ cleaner' = cleaner /\ good' = good /\ lost' = lost
          /\ reader' = [reader EXCEPT ![r] = Done]
      BY <1>FinalizeCommits DEF FinalizeCommits
    <3> QED
      BY <3>1, <3>2, <3>3, <3>4
  <2>2. CASE ~Finalizable
    BY <1>FinalizeCommits, <2>2 DEF FinalizeCommits
  <2> QED
    BY <2>1, <2>2
<1>DownloadReads. CASE DownloadReads(r)
  BY <1>DownloadReads DEF DownloadReads
<1>DownloadGets. CASE DownloadGets(r)
  BY <1>DownloadGets DEF DownloadGets
<1>ReaderDiscards. CASE ReaderDiscards(r)
  <2>1. Excused
    BY <1>ReaderDiscards DEF ReaderDiscards
  <2>2. /\ file' = file /\ intent' = intent /\ timer' = timer /\ put' = put /\ store' = store
        /\ cleaner' = cleaner /\ good' = good /\ lost' = lost
    BY <1>ReaderDiscards DEF ReaderDiscards
  <2>3. \E phase \in {"mark", "requeue"} : reader' = [reader EXCEPT ![r].phase = phase]
    BY <1>ReaderDiscards DEF ReaderDiscards
  <2>4. Closed \/ intent.status \in {"uploaded", "finalized"}
    BY <1>ReaderDiscards DEF ReaderDiscards
  <2>5. StoresHold' /\ StoredIsThere'
    BY <2>1, <2>2, <2>4
  <2>6. ReadersSaw'
    BY <1>ReaderDiscards, <2>1, <2>2, <2>3, <2>4 DEF ReaderDiscards
  <2>7. AnsweredIsStored'
    BY <2>1, <2>2, <2>4
  <2> QED
    BY <2>2, <2>5, <2>6, <2>7
<1>ReaderMarks. CASE ReaderMarks(r)
  BY <1>ReaderMarks DEF ReaderMarks, Marked, IntentBecomes
<1>ReaderRequeues. CASE ReaderRequeues(r)
  BY <1>ReaderRequeues DEF ReaderRequeues, QueueCleanup, IntentBecomes
<1>ReaderDies. CASE ReaderDies(r)
  BY <1>ReaderDies DEF ReaderDies
<1> QED
  BY <1>FinalizeReads, <1>FinalizeHeads, <1>FinalizeSamples, <1>FinalizeCommits,
      <1>DownloadReads, <1>DownloadGets, <1>ReaderDiscards, <1>ReaderMarks, <1>ReaderRequeues,
      <1>ReaderDies DEF Reader

LEMMA CleanerKeepsSafe ==
    ASSUME TypeOK, RowsAgree, Safe, NEW k \in Cleaners, Cleaner(k)
    PROVE  Safe'
<1> USE DEF Safe, TypeOK, RowsAgree, rows, calls, File, Intent, Timer, StoreCall,
    ReaderCall, ReaderPhases, IntentStatus, Open, Idle, Done, StoreGoes, StoreEnds, ReaderGoes,
    ReaderEnds, CleanerGoes, LeaseOutlivesCapability, StoresHold, StoredIsThere, ReadersSaw,
    CleanersRemove, ReadyIsGood, AnsweredIsStored, Closed, Excused, uploadCapabilityLifetime,
    uploadCleanupGrace, uploadLease
<1>CleanerSelects. CASE CleanerSelects(k)
  BY <1>CleanerSelects DEF CleanerSelects, Due
<1>CleanerClaims. CASE CleanerClaims(k)
  <2>1. CASE Due
    <3>1. Closed'
      BY <1>CleanerClaims, <2>1 DEF CleanerClaims
    <3>2. /\ file' = file /\ bucket' = bucket /\ put' = put /\ store' = store
          /\ reader' = reader /\ good' = good /\ lost' = lost
      BY <1>CleanerClaims DEF CleanerClaims
    <3>3. file.status # "ready" /\ intent'.status = "cleanup"
      BY <1>CleanerClaims, <2>1 DEF CleanerClaims, Due
    <3> QED
      BY <3>1, <3>2, <3>3
  <2>2. CASE ~Due
    BY <1>CleanerClaims, <2>2 DEF CleanerClaims
  <2> QED
    BY <2>1, <2>2
<1>CleanerDeletes. CASE CleanerDeletes(k)
  BY <1>CleanerDeletes DEF CleanerDeletes
<1>CleanerCompletes. CASE CleanerCompletes(k)
  BY <1>CleanerCompletes DEF CleanerCompletes, IntentBecomes
<1>CleanerReconciles. CASE CleanerReconciles(k)
  BY <1>CleanerReconciles DEF CleanerReconciles, Terminal
<1>CleanerRemoves. CASE CleanerRemoves(k)
  BY <1>CleanerRemoves DEF CleanerRemoves
<1>CleanerRecords. CASE CleanerRecords(k)
  BY <1>CleanerRecords DEF CleanerRecords
<1>CleanerFails. CASE CleanerFails(k)
  BY <1>CleanerFails DEF CleanerFails, DeleteThrows
<1> QED
  BY <1>CleanerSelects, <1>CleanerClaims, <1>CleanerDeletes, <1>CleanerCompletes,
      <1>CleanerReconciles, <1>CleanerRemoves, <1>CleanerRecords, <1>CleanerFails DEF Cleaner

LEMMA TimeKeepsSafe ==
    ASSUME TypeOK, RowsAgree, Safe, Tick \/ Lose \/ UNCHANGED vars
    PROVE  RowsAgree' /\ Safe'
<1> USE DEF Safe, RowsAgree, vars, rows, calls, LeaseOutlivesCapability, StoresHold,
        StoredIsThere, ReadersSaw, CleanersRemove, ReadyIsGood, AnsweredIsStored, Closed, Excused
<1>1. CASE Tick
  <2>1. timer.age \in 0 .. 3
    BY DEF TypeOK, Timer, uploadCleanupGrace
  <2>2. timer'.age \in 1 .. 3
    BY <1>1, <2>1 DEF Tick, uploadCleanupGrace
  <2>3. /\ file' = file /\ intent' = intent /\ bucket' = bucket /\ put' = put /\ store' = store
        /\ reader' = reader /\ cleaner' = cleaner /\ good' = good /\ lost' = lost
    BY <1>1 DEF Tick
  <2>4. LeaseOutlivesCapability'
    BY <2>2 DEF uploadCapabilityLifetime
  <2> QED
    BY <2>3, <2>4
<1>2. CASE Lose
  BY <1>2 DEF Lose
<1>3. CASE UNCHANGED vars
  BY <1>3
<1> QED
  BY <1>1, <1>2, <1>3

LEMMA Initially == Init => IInv
BY InitialTypes DEF Init, IInv, Safe, RowsAgree, LeaseOutlivesCapability, StoresHold,
    StoredIsThere, ReadersSaw, CleanersRemove, ReadyIsGood, AnsweredIsStored, Closed, Excused,
    Open, Idle, StorePhases, ReaderPhases

LEMMA Inductive == IInv /\ [Next]_vars => IInv'
<1> SUFFICES ASSUME IInv, [Next]_vars
             PROVE  RowsAgree' /\ Safe'
  BY NextKeepsTypes DEF IInv
<1> USE DEF IInv
<1>1. ASSUME NEW s \in Stores, Store(s) PROVE RowsAgree' /\ Safe'
  BY <1>1, StoreKeepsRows, StoreKeepsSafe
<1>2. ASSUME NEW r \in Readers, Reader(r) PROVE RowsAgree' /\ Safe'
  BY <1>2, ReaderKeepsRows, ReaderKeepsSafe
<1>3. ASSUME NEW k \in Cleaners, Cleaner(k) PROVE RowsAgree' /\ Safe'
  BY <1>3, CleanerKeepsRows, CleanerKeepsSafe
<1> QED
  BY <1>1, <1>2, <1>3, TimeKeepsSafe DEF Next

LEMMA Invariance == Spec => []IInv
BY Initially, Inductive, PTL DEF Spec

\* file_objects and file_upload_intents never tell different stories, though
\* most statements of uploads/service.ts write only one of them.
THEOREM RowsStayInStep == Spec => []RowsAgree
BY Invariance, PTL DEF IInv

LEMMA SafeIsAnswered == IInv => AnsweredIsStored
BY DEF IInv, Safe

\* No late put, undone put, quarantine or cleanup of another call takes away the
\* object store or finalize has answered for, however many of them run.
THEOREM AnsweredFilesAreStored == Spec => []AnsweredIsStored
BY Invariance, SafeIsAnswered, PTL
=============================================================================
