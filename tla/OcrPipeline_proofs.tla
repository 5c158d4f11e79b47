-------------------------- MODULE OcrPipeline_proofs --------------------------
(***************************************************************************)
(* Safety of the OCR pipeline for every number of jobs and events and      *)
(* every configuration of the worker; and of the helper process the worker *)
(* has its pictures read by.                                               *)
(*                                                                         *)
(* The properties lean on each other: complete_job_at looks at nothing but *)
(* the id, so that a settled row stays settled follows from what the       *)
(* worker knows of its row, and that a done job has text from the outcome  *)
(* it carries to the completion.  IInv is their conjunction, with the two  *)
(* facts the code relies on silently: jobs are enqueued for persisted      *)
(* events only, and an open row nobody holds has an attempt to spare.      *)
(***************************************************************************)
EXTENDS OcrPipeline, OcrHelper, JobTable_proofs, Integers, SequenceTheorems

\* Nothing refers to an event that was never persisted.
KnownEvents ==
  /\ \A j \in Jobs : jobs[j] # NoRow => stage[jobs[j].event] # "unseen"
  /\ toEnqueue # None => stage[toEnqueue] # "unseen"
  /\ worker.pc \in Busy =>
       worker.job \in Jobs /\ worker.event \in Events /\ stage[worker.event] # "unseen"

\* The worker that is about to settle a job as done has seen the text.
OutcomeTrue ==
  /\ worker.pc = "finishing" /\ worker.outcome \in {"success", "already"}
  /\ stage[worker.event] = "live"
  => worker.event \in text

\* A daemon that is down has no worker.
IdleWhenDown == ~up => worker.pc = "off"

\* An open row that the worker does not hold may be claimed once more.
AttemptToSpare ==
  \A j \in WithStatus(Open) \ Held : jobs[j].attempts < MaxAttempts + faults

\* The running rows nobody holds, whose number a proof can only speak of when
\* it knows that there are finitely many.
Stranded == WithStatus({"running"}) \ Held

StrandedBounded == IsFiniteSet(Stranded) /\ StrandedOnlyByFaults

IInv ==
  /\ TypeOK /\ KnownEvents /\ IdleWhenDown /\ WorkerHoldsItsRow /\ OneOpenJob
  /\ OutcomeTrue /\ DoneHasText /\ RetryBudget /\ AttemptToSpare /\ StrandedBounded

-----------------------------------------------------------------------------
(* Facts about single operators. *)

LEMMA CircuitAfterType ==
  ASSUME OcrAssumption, circuit \in [fails : 0 .. Threshold, cooling : BOOLEAN], NEW o
  PROVE  CircuitAfter(o) \in [fails : 0 .. Threshold, cooling : BOOLEAN]
  BY DEF CircuitAfter, CircuitClosed, OcrAssumption

LEMMA FinalStatusType ==
  ASSUME NEW o
  PROVE  /\ FinalStatus(o) \in Settled \cup {"pending"}
         /\ FinalStatus(o) = "pending" => ~(worker.attempts >= MaxAttempts)
         /\ FinalStatus(o) = "done" => o \in {"success", "already"}
  BY DEF FinalStatus, Settled

\* The steps that leave the table alone.
OffTable ==
  \/ \E e \in Events : PersistFrame(e) \/ PruneMedia(e) \/ TrimEvent(e)
  \/ SkipEnqueue \/ EndTick \/ CheckDerived \/ LookUpArtifact \/ ReadBlob
  \/ EngineReturns \/ WriteText \/ LoseCompletion \/ CooldownEnds
  \/ \E S \in SUBSET {e \in Events : artifact[e] = "ok"} : Crash(S)
  \/ UNCHANGED vars

\* Next, with the steps sorted by what they do to the table.
LEMMA NextCases ==
  ASSUME [Next]_vars
  PROVE  \/ OffTable
         \/ \E j \in Jobs : EnqueueOcr(j) \/ TimePasses(j) \/ ClaimNext(j)
         \/ Tick \/ FinishJob \/ PruneJobs \/ Wipe
         \/ \E enabled \in BOOLEAN : Boot(enabled)
  BY DEF Next, WorkerStep, OffTable

LEMMA OffTableKeepsJobs ==
  ASSUME OffTable
  PROVE  UNCHANGED jobs
  BY DEF OffTable, PersistFrame, PruneMedia, TrimEvent, SkipEnqueue, EndTick,
         CheckDerived, LookUpArtifact, ReadBlob, EngineReturns, WriteText,
         LoseCompletion, CooldownEnds, Crash, vars, store

\* Whatever the pipeline does, it does to the table by one of its statements.
LEMMA NextIsTableStep ==
  ASSUME TypeOK, KnownEvents, [Next]_vars
  PROVE  [TableNext]_jobs
<1>1. CASE OffTable
  BY <1>1, OffTableKeepsJobs DEF TableNext
<1>2. ASSUME NEW j \in Jobs, EnqueueOcr(j) PROVE [TableNext]_jobs
  <2>1. toEnqueue \in Events
    BY <1>2 DEF EnqueueOcr, TypeOK
  <2>. QED BY <1>2, <2>1 DEF EnqueueOcr, TableNext
<1>3. ASSUME NEW j \in Jobs, TimePasses(j) PROVE [TableNext]_jobs
  BY <1>3 DEF TimePasses, TableNext
<1>4. ASSUME NEW j \in Jobs, ClaimNext(j) PROVE [TableNext]_jobs
  <2>1. {j} \in SUBSET Jobs /\ Claim({j})
    BY <1>4 DEF ClaimNext
  <2>. QED BY <2>1 DEF TableNext
<1>5. ASSUME FinishJob PROVE [TableNext]_jobs
  <2>. DEFINE s == FinalStatus(worker.outcome)
  <2>1. worker.job \in Jobs
    BY <1>5 DEF FinishJob, KnownEvents, Busy
  <2>2. Complete(worker.job, s, s # "pending")
    BY <1>5 DEF FinishJob
  <2>3. s \in Settled \cup {"pending"} /\ (s # "pending") \in BOOLEAN
    BY FinalStatusType
  <2>. HIDE DEF s
  <2>. QED BY <2>1, <2>2, <2>3 DEF TableNext
<1>6. ASSUME NEW enabled \in BOOLEAN, Boot(enabled) PROVE [TableNext]_jobs
  BY <1>6 DEF Boot, TableNext
<1>7. CASE Tick \/ PruneJobs \/ Wipe
  BY <1>7 DEF Tick, PruneJobs, Wipe, TableNext
<1>. QED
  BY <1>1, <1>2, <1>3, <1>4, <1>5, <1>6, <1>7, NextCases

-----------------------------------------------------------------------------
(* Type correctness. *)

WorkerRec == [pc : {"off", "asleep", "claiming"} \cup Busy,
              job : Jobs \cup {None}, event : Events \cup {None},
              attempts : Nat, left : 0 .. BatchSize, outcome : Outcomes]

\* What the worker's own moves make of its record.
LEMMA WorkerRecMoves ==
  ASSUME OcrAssumption, worker \in WorkerRec
  PROVE  /\ Off \in WorkerRec /\ Asleep \in WorkerRec
         /\ [Asleep EXCEPT !.pc = "claiming", !.left = BatchSize] \in WorkerRec
         /\ [Asleep EXCEPT !.pc = "claiming", !.left = worker.left] \in WorkerRec
         /\ \A p \in Busy : [worker EXCEPT !.pc = p] \in WorkerRec
         /\ \A o \in Outcomes : [worker EXCEPT !.pc = "finishing", !.outcome = o] \in WorkerRec
<1>1. Off \in WorkerRec
  BY DEF WorkerRec, Off, Outcomes, OcrAssumption
<1>2. Asleep \in WorkerRec
  BY <1>1 DEF WorkerRec, Asleep
<1>3. \A l \in 0 .. BatchSize : [Asleep EXCEPT !.pc = "claiming", !.left = l] \in WorkerRec
  BY <1>2 DEF WorkerRec
<1>4. worker.left \in 0 .. BatchSize /\ BatchSize \in 0 .. BatchSize
  BY DEF WorkerRec, OcrAssumption
<1>5. \A p \in Busy : [worker EXCEPT !.pc = p] \in WorkerRec
  BY DEF WorkerRec
<1>6. \A o \in Outcomes : [worker EXCEPT !.pc = "finishing", !.outcome = o] \in WorkerRec
  BY DEF WorkerRec, Busy
<1>. QED BY <1>1, <1>2, <1>3, <1>4, <1>5, <1>6

LEMMA AfterJobType ==
  ASSUME OcrAssumption, worker \in WorkerRec, NEW c, AfterJob(c)
  PROVE  worker' \in WorkerRec
  BY WorkerRecMoves DEF AfterJob

LEMMA TypeStep ==
  ASSUME OcrAssumption, TypeOK, KnownEvents, [Next]_vars
  PROVE  TypeOK'
<1>. worker \in WorkerRec
  BY DEF TypeOK, WorkerRec
<1>0. JobTableType'
  BY NextIsTableStep, TableTypeKept DEF TypeOK
<1>0a. ASSUME worker' \in WorkerRec,
              stage' \in [Events -> {"unseen", "live", "gone"}],
              artifact' \in [Events -> {"none", "ok", "lost"}],
              text' \subseteq Events,
              toEnqueue' \in Events \cup {None},
              circuit' \in [fails : 0 .. Threshold, cooling : BOOLEAN],
              up' \in BOOLEAN,
              faults' \in 0 .. MaxFaults
       PROVE  TypeOK'
  BY <1>0, <1>0a DEF TypeOK, WorkerRec
<1>1. ASSUME NEW e \in Events, PersistFrame(e) \/ PruneMedia(e) \/ TrimEvent(e) PROVE TypeOK'
  BY <1>1, <1>0a DEF PersistFrame, PruneMedia, TrimEvent, TypeOK
<1>2. ASSUME NEW j \in Jobs, EnqueueOcr(j) \/ TimePasses(j) PROVE TypeOK'
  BY <1>2, <1>0a DEF EnqueueOcr, TimePasses, store, TypeOK
<1>3. CASE SkipEnqueue \/ PruneJobs \/ UNCHANGED vars
  BY <1>3, <1>0a DEF SkipEnqueue, PruneJobs, store, vars, TypeOK
<1>4. CASE Wipe
  BY <1>4, <1>0a DEF Wipe, TypeOK
<1>5. CASE CooldownEnds
  BY <1>5, <1>0a DEF CooldownEnds, store, TypeOK
<1>6. CASE Tick \/ EndTick
  BY <1>6, <1>0a, WorkerRecMoves DEF Tick, EndTick, store, TypeOK
<1>7. ASSUME NEW j \in Jobs, ClaimNext(j) PROVE TypeOK'
  <2>1. jobs[j] \in Row
    BY <1>7, RowStatus DEF ClaimNext, Claim, Claimable, Open, TypeOK
  <2>2. jobs[j].event \in Events /\ jobs[j].attempts + 1 \in Nat
    BY <2>1 DEF Row
  <2>3. worker.left - 1 \in 0 .. BatchSize
    BY <1>7 DEF ClaimNext, WorkerRec, OcrAssumption
  <2>4. \A ev \in Events, n \in Nat, l \in 0 .. BatchSize :
          [worker EXCEPT !.pc = "checking", !.job = j, !.event = ev,
                         !.attempts = n, !.left = l] \in WorkerRec
    BY DEF WorkerRec, Busy
  <2>5. worker' \in WorkerRec
    BY <1>7, <2>2, <2>3, <2>4 DEF ClaimNext
  <2>. QED BY <1>7, <2>5, <1>0a DEF ClaimNext, store, TypeOK
<1>8. CASE CheckDerived \/ LookUpArtifact \/ ReadBlob \/ EngineReturns
  <2>1. worker' \in WorkerRec
    BY <1>8, WorkerRecMoves
    DEF CheckDerived, LookUpArtifact, ReadBlob, EngineReturns, Goto, FinishWith, Busy, Outcomes
  <2>. QED
    BY <1>8, <2>1, <1>0a
    DEF CheckDerived, LookUpArtifact, ReadBlob, EngineReturns, store, TypeOK
<1>9. CASE WriteText
  <2>1. worker' \in WorkerRec
    BY <1>9, WorkerRecMoves DEF WriteText, FinishWith, Outcomes
  <2>2. text' \subseteq Events
    BY <1>9 DEF WriteText, KnownEvents, Busy, TypeOK
  <2>. QED BY <1>9, <2>1, <2>2, <1>0a DEF WriteText, TypeOK
<1>10. CASE FinishJob \/ LoseCompletion
  <2>1. worker' \in WorkerRec
    BY <1>10, AfterJobType DEF FinishJob, LoseCompletion
  <2>2. circuit' \in [fails : 0 .. Threshold, cooling : BOOLEAN]
    BY <1>10, CircuitAfterType DEF FinishJob, LoseCompletion, TypeOK
  <2>. QED
    BY <1>10, <2>1, <2>2, <1>0a DEF FinishJob, LoseCompletion, store, TypeOK, OcrAssumption
<1>11. ASSUME NEW S \in SUBSET {e \in Events : artifact[e] = "ok"}, Crash(S) PROVE TypeOK'
  <2>1. faults' \in 0 .. MaxFaults
    BY <1>11 DEF Crash, TypeOK, OcrAssumption
  <2>2. artifact' \in [Events -> {"none", "ok", "lost"}]
    BY <1>11 DEF Crash, TypeOK
  <2>3. circuit' \in [fails : 0 .. Threshold, cooling : BOOLEAN]
    BY <1>11 DEF Crash, CircuitClosed, OcrAssumption
  <2>. QED BY <1>11, <2>1, <2>2, <2>3, <1>0a, WorkerRecMoves DEF Crash, TypeOK
<1>12. ASSUME NEW enabled \in BOOLEAN, Boot(enabled) PROVE TypeOK'
  BY <1>12, <1>0a, WorkerRecMoves DEF Boot, store, TypeOK
<1>. QED
  BY <1>1, <1>2, <1>3, <1>4, <1>5, <1>6, <1>7, <1>8, <1>9, <1>10, <1>11, <1>12
  DEF Next, WorkerStep

-----------------------------------------------------------------------------
(* How a step moves one row, the worker, and an event. *)

\* Status, event and attempts of the row stay as they are.
SameRow(j) ==
  /\ jobs[j] # NoRow /\ jobs'[j] # NoRow
  /\ jobs'[j].status = jobs[j].status
  /\ jobs'[j].event = jobs[j].event
  /\ jobs'[j].attempts = jobs[j].attempts

\* The worker lets go of a row it does not settle only in a fault.
NotDropped(j) == j \in Held => j \in Held' \/ faults' = faults + 1

Enqueued(j) ==
  /\ EnqueueOcr(j) /\ jobs[j] = NoRow
  /\ jobs'[j].status = "pending" /\ jobs'[j].event = toEnqueue /\ jobs'[j].attempts = 0

Claimed(j) ==
  /\ ClaimNext(j) /\ jobs[j] \in Row /\ jobs[j].status = "pending"
  /\ jobs'[j].status = "running" /\ jobs'[j].event = jobs[j].event
  /\ jobs'[j].attempts = jobs[j].attempts + 1

Finished(j) ==
  /\ FinishJob /\ j = worker.job /\ jobs[j].status = "running"
  /\ jobs'[j].status = FinalStatus(worker.outcome)
  /\ jobs'[j].event = jobs[j].event /\ jobs'[j].attempts = jobs[j].attempts

Requeued(j) ==
  /\ j \notin Held
  /\ jobs[j].status = "running" /\ jobs'[j].status = "pending"
  /\ jobs'[j].event = jobs[j].event /\ jobs'[j].attempts = jobs[j].attempts

SkippedAtBoot(j) ==
  /\ Held = {}
  /\ jobs[j].status \in Open /\ jobs'[j].status = "skipped"
  /\ jobs'[j].event = jobs[j].event /\ jobs'[j].attempts = jobs[j].attempts

\* The ways a row can move in one step of the pipeline.
RowMoves(j) ==
  \/ jobs'[j] = NoRow
  \/ SameRow(j) /\ NotDropped(j)
  \/ Enqueued(j) \/ Claimed(j) \/ Finished(j) \/ Requeued(j) \/ SkippedAtBoot(j)

\* A reclaim while no row is held re-queues stale rows and leaves the others.
LEMMA ReclaimRow ==
  ASSUME JobTableType, ReclaimStale, NEW j \in Jobs, worker.pc \notin Busy
  PROVE  jobs'[j] = NoRow \/ (SameRow(j) /\ NotDropped(j)) \/ Requeued(j)
<1>0. Held = {}
  BY DEF Held
<1>1. CASE StaleRunning(j)
  <2>1. jobs[j] \in Row /\ jobs[j].status = "running"
    BY <1>1, RowStatus DEF StaleRunning, Open
  <2>2. jobs'[j] = [jobs[j] EXCEPT !.status = "pending", !.due = TRUE, !.aged = FALSE]
    BY <1>1 DEF ReclaimStale
  <2>. QED BY <1>0, <2>1, <2>2 DEF Requeued, Row
<1>2. CASE ~StaleRunning(j)
  BY <1>0, <1>2 DEF ReclaimStale, SameRow, NotDropped
<1>. QED BY <1>1, <1>2

\* Off the table, only a crash or a lost completion takes the worker from its row.
LEMMA OffTableHolds ==
  ASSUME OffTable, NEW j \in Jobs, TypeOK
  PROVE  NotDropped(j)
<1>. worker \in WorkerRec
  BY DEF TypeOK, WorkerRec
<1>1. CASE worker.pc \notin Busy
  BY <1>1 DEF NotDropped, Held
<1>2. CASE UNCHANGED worker
  BY <1>2 DEF NotDropped, Held
<1>3. CASE faults' = faults + 1
  BY <1>3 DEF NotDropped
<1>4. CASE worker'.pc \in Busy /\ worker'.job = worker.job
  BY <1>4 DEF NotDropped, Held
<1>5. ASSUME NEW e \in Events, PersistFrame(e) \/ PruneMedia(e) \/ TrimEvent(e)
      PROVE  UNCHANGED worker
  BY <1>5 DEF PersistFrame, PruneMedia, TrimEvent
<1>6. CASE SkipEnqueue \/ CooldownEnds \/ UNCHANGED vars
  BY <1>2, <1>6 DEF SkipEnqueue, CooldownEnds, vars
<1>7. CASE EndTick
  BY <1>1, <1>7 DEF EndTick, Busy
<1>8. CASE CheckDerived \/ LookUpArtifact \/ ReadBlob \/ EngineReturns \/ WriteText
  <2>1. \/ \E p \in Busy : worker' = [worker EXCEPT !.pc = p]
        \/ \E o \in Outcomes : worker' = [worker EXCEPT !.pc = "finishing", !.outcome = o]
    BY <1>8
    DEF CheckDerived, LookUpArtifact, ReadBlob, EngineReturns, WriteText, Goto,
        FinishWith, Busy, Outcomes
  <2>2. worker'.pc \in Busy /\ worker'.job = worker.job
    BY <2>1 DEF WorkerRec, Busy
  <2>. QED BY <2>2, <1>4
<1>9. CASE LoseCompletion
  BY <1>3, <1>9 DEF LoseCompletion
<1>10. ASSUME NEW S \in SUBSET {e \in Events : artifact[e] = "ok"}, Crash(S)
       PROVE  faults' = faults + 1
  BY <1>10 DEF Crash
<1>. QED BY <1>2, <1>3, <1>5, <1>6, <1>7, <1>8, <1>9, <1>10 DEF OffTable

LEMMA RowMovesLemma ==
  ASSUME TypeOK, KnownEvents, WorkerHoldsItsRow, OneOpenJob, IdleWhenDown,
         [Next]_vars, NEW j \in Jobs
  PROVE  RowMoves(j)
<1>. JobTableType
  BY DEF TypeOK
<1>1. CASE OffTable
  BY <1>1, OffTableKeepsJobs, OffTableHolds DEF RowMoves, SameRow
<1>2. ASSUME NEW i \in Jobs, EnqueueOcr(i) PROVE RowMoves(j)
  BY <1>2 DEF EnqueueOcr, Enqueue, RowMoves, SameRow, NotDropped, Held, Enqueued, JobTableType
<1>3. ASSUME NEW i \in Jobs, TimePasses(i) PROVE RowMoves(j)
  <2>1. UNCHANGED worker
    BY <1>3 DEF TimePasses
  <2>2. jobs[i] \in Row
    BY <1>3, RowStatus DEF TimePasses, BackoffElapses, Ages, Open, Settled
  <2>3. jobs'[j] = NoRow \/ SameRow(j)
    BY <1>3, <2>2 DEF TimePasses, BackoffElapses, Ages, SameRow, JobTableType, Row, NoRow
  <2>. QED BY <2>1, <2>3 DEF RowMoves, NotDropped, Held
<1>4. ASSUME NEW i \in Jobs, ClaimNext(i) PROVE RowMoves(j)
  <2>1. jobs[i] \in Row /\ jobs[i].status = "pending"
    BY <1>4, RowStatus DEF ClaimNext, Claim, Claimable, Open
  <2>2. Held = {}
    BY <1>4 DEF ClaimNext, Held, Busy
  <2>3. CASE i = j
    BY <1>4, <2>1, <2>3 DEF ClaimNext, Claim, RowMoves, Claimed, Row
  <2>4. CASE i # j
    BY <1>4, <2>2, <2>4 DEF ClaimNext, Claim, RowMoves, SameRow, NotDropped
  <2>. QED BY <2>3, <2>4
<1>5. CASE FinishJob
  <2>. DEFINE w == worker.job
              s == FinalStatus(worker.outcome)
  <2>1. worker.pc \in Busy /\ w \in Jobs
    BY <1>5 DEF FinishJob, KnownEvents, Busy
  <2>2. CASE jobs[w] = NoRow
    BY <1>5, <2>1, <2>2 DEF FinishJob, Complete, RowMoves, SameRow, NotDropped, Held
  <2>3. CASE jobs[w] # NoRow
    <3>1. jobs[w] \in Row /\ jobs[w].status = "running"
      BY <2>1, <2>3, RowStatus DEF WorkerHoldsItsRow
    <3>2. OpenFor(jobs[w].event) \ {w} = {}
      BY <2>1, <3>1 DEF OneOpenJob, OpenFor, WithStatus, Open
    <3>3. Complete(w, s, s # "pending")
      BY <1>5 DEF FinishJob
    <3>. HIDE DEF s
    <3>4. jobs' = [jobs EXCEPT ![w] =
                    [@ EXCEPT !.status = s, !.due = (s # "pending"), !.aged = FALSE]]
      BY <3>2, <3>3, <2>3 DEF Complete
    <3>5. CASE j = w
      <4>1. /\ jobs'[j].status = s /\ jobs'[j].event = jobs[j].event
            /\ jobs'[j].attempts = jobs[j].attempts
        BY <2>1, <3>1, <3>4, <3>5 DEF JobTableType, Row
      <4>. QED BY <1>5, <3>1, <3>5, <4>1 DEF RowMoves, Finished, s
    <3>6. CASE j # w
      BY <2>1, <3>4, <3>6 DEF RowMoves, SameRow, NotDropped, Held, JobTableType
    <3>. QED BY <3>5, <3>6
  <2>. QED BY <2>2, <2>3
<1>6. CASE Tick
  BY <1>6, ReclaimRow DEF Tick, Busy, RowMoves
<1>7. ASSUME NEW enabled \in BOOLEAN, Boot(enabled) PROVE RowMoves(j)
  <2>1. worker.pc \notin Busy
    BY <1>7 DEF Boot, IdleWhenDown, Busy
  <2>2. CASE enabled
    BY <1>7, <2>1, <2>2, ReclaimRow DEF Boot, RowMoves
  <2>3. CASE ~enabled /\ jobs[j].status \in Open
    <3>1. jobs[j] \in Row
      BY <2>3, RowStatus
    <3>. QED BY <1>7, <2>1, <2>3, <3>1 DEF Boot, SkipOpen, RowMoves, SkippedAtBoot, Held, Row
  <2>4. CASE ~enabled /\ jobs[j].status \notin Open
    BY <1>7, <2>1, <2>4 DEF Boot, SkipOpen, RowMoves, SameRow, NotDropped, Held
  <2>. QED BY <2>2, <2>3, <2>4
<1>8. CASE PruneJobs
  BY <1>8 DEF PruneJobs, PruneCompleted, RowMoves, SameRow, NotDropped, Held
<1>9. CASE Wipe
  BY <1>9 DEF Wipe, DeleteAll, RowMoves
<1>. QED
  BY <1>1, <1>2, <1>3, <1>4, <1>5, <1>6, <1>7, <1>8, <1>9, NextCases

\* An event only moves forward, and loses its text only with itself.
LEMMA EventMoves ==
  ASSUME TypeOK, [Next]_vars, NEW e \in Events, stage[e] # "unseen"
  PROVE  /\ stage'[e] # "unseen"
         /\ stage'[e] = "live" => stage[e] = "live" /\ (e \in text => e \in text')
<1>1. CASE UNCHANGED store
  BY <1>1 DEF store
<1>2. ASSUME NEW x \in Events, PersistFrame(x) \/ PruneMedia(x) \/ TrimEvent(x)
      PROVE  /\ stage'[e] # "unseen"
             /\ stage'[e] = "live" => stage[e] = "live" /\ (e \in text => e \in text')
  BY <1>2 DEF PersistFrame, PruneMedia, TrimEvent, TypeOK
<1>3. CASE WriteText
  BY <1>3 DEF WriteText
<1>4. CASE Wipe
  BY <1>4 DEF Wipe, TypeOK
<1>5. ASSUME NEW S \in SUBSET {x \in Events : artifact[x] = "ok"}, Crash(S)
      PROVE  UNCHANGED <<stage, text>>
  BY <1>5 DEF Crash
<1>6. ASSUME NEW j \in Jobs, EnqueueOcr(j) \/ TimePasses(j) \/ ClaimNext(j)
      PROVE  UNCHANGED store
  BY <1>6 DEF EnqueueOcr, TimePasses, ClaimNext
<1>7. CASE \/ SkipEnqueue \/ EndTick \/ CheckDerived \/ LookUpArtifact \/ ReadBlob
           \/ EngineReturns \/ LoseCompletion \/ CooldownEnds \/ UNCHANGED vars
           \/ Tick \/ FinishJob \/ PruneJobs \/ \E enabled \in BOOLEAN : Boot(enabled)
  BY <1>1, <1>7
  DEF SkipEnqueue, EndTick, CheckDerived, LookUpArtifact, ReadBlob, EngineReturns,
      LoseCompletion, CooldownEnds, Tick, FinishJob, PruneJobs, Boot, vars, store
<1>. QED BY <1>1, <1>2, <1>3, <1>4, <1>5, <1>6, <1>7, NextCases DEF OffTable

\* The worker is idle after the step, has just claimed a row, or holds on to
\* the row it had with the attempt count it saw.
LEMMA WorkerMoves ==
  ASSUME TypeOK, IdleWhenDown, [Next]_vars
  PROVE  \/ worker'.pc \notin Busy
         \/ \E j \in Jobs : ClaimNext(j) /\ worker'.pc = "checking" /\ worker'.job = j
                            /\ worker'.event = jobs[j].event
                            /\ worker'.attempts = jobs[j].attempts + 1
         \/ /\ worker.pc \in Busy
            /\ worker'.job = worker.job /\ worker'.event = worker.event
            /\ worker'.attempts = worker.attempts
<1>. worker \in WorkerRec
  BY DEF TypeOK, WorkerRec
<1>. DEFINE Goal == \/ worker'.pc \notin Busy
                    \/ /\ worker.pc \in Busy
                       /\ worker'.job = worker.job /\ worker'.event = worker.event
                       /\ worker'.attempts = worker.attempts
<1>1. CASE UNCHANGED worker
  BY <1>1 DEF Tick, Busy
<1>2. ASSUME NEW j \in Jobs, ClaimNext(j)
      PROVE  /\ worker'.pc = "checking" /\ worker'.job = j /\ worker'.event = jobs[j].event
             /\ worker'.attempts = jobs[j].attempts + 1
  BY <1>2 DEF ClaimNext, WorkerRec
<1>3. CASE Tick \/ EndTick
  BY <1>3 DEF Tick, EndTick, Asleep, Off, Busy
<1>4. CASE FinishJob \/ LoseCompletion
  BY <1>4 DEF FinishJob, LoseCompletion, AfterJob, Asleep, Off, Busy
<1>5. CASE CheckDerived \/ LookUpArtifact \/ ReadBlob \/ EngineReturns \/ WriteText
  BY <1>5
  DEF CheckDerived, LookUpArtifact, ReadBlob, EngineReturns, WriteText, Goto,
      FinishWith, Busy, WorkerRec, Tick
<1>6. ASSUME \/ \E S \in SUBSET {e \in Events : artifact[e] = "ok"} : Crash(S)
             \/ \E enabled \in BOOLEAN : Boot(enabled)
      PROVE  worker'.pc \notin Busy
  BY <1>6 DEF Crash, Boot, Off, Asleep, Busy
<1>7. ASSUME \/ \E e \in Events : PersistFrame(e) \/ PruneMedia(e) \/ TrimEvent(e)
             \/ \E j \in Jobs : EnqueueOcr(j) \/ TimePasses(j)
             \/ SkipEnqueue \/ CooldownEnds \/ PruneJobs \/ Wipe \/ UNCHANGED vars
      PROVE  UNCHANGED worker
  BY <1>7
  DEF PersistFrame, PruneMedia, TrimEvent, EnqueueOcr, TimePasses, SkipEnqueue,
      CooldownEnds, PruneJobs, Wipe, vars
<1>. QED BY <1>1, <1>2, <1>3, <1>4, <1>5, <1>6, <1>7, NextCases DEF OffTable

-----------------------------------------------------------------------------
(* Each conjunct of the invariant is kept by every step. *)

LEMMA IdleStep ==
  ASSUME IdleWhenDown, [Next]_vars
  PROVE  IdleWhenDown'
<1>1. CASE UNCHANGED <<worker, up>>
  BY <1>1 DEF IdleWhenDown
<1>2. CASE up'
  BY <1>2 DEF IdleWhenDown
<1>3. CASE WorkerStep \/ LoseCompletion
  <2>1. CASE Tick \/ EndTick \/ CheckDerived \/ LookUpArtifact \/ ReadBlob
    BY <1>2, <2>1 DEF Tick, EndTick, CheckDerived, LookUpArtifact, ReadBlob
  <2>2. CASE EngineReturns \/ WriteText \/ FinishJob \/ LoseCompletion
    BY <1>2, <2>2 DEF EngineReturns, WriteText, FinishJob, LoseCompletion
  <2>3. ASSUME NEW j \in Jobs, ClaimNext(j) PROVE up'
    BY <2>3 DEF ClaimNext
  <2>. QED BY <1>2, <1>3, <2>1, <2>2, <2>3 DEF WorkerStep
<1>4. ASSUME \/ \E e \in Events : PersistFrame(e) \/ PruneMedia(e) \/ TrimEvent(e)
             \/ \E j \in Jobs : EnqueueOcr(j) \/ TimePasses(j)
             \/ SkipEnqueue \/ CooldownEnds \/ PruneJobs \/ Wipe \/ UNCHANGED vars
      PROVE  UNCHANGED <<worker, up>>
  BY <1>4
  DEF PersistFrame, PruneMedia, TrimEvent, EnqueueOcr, TimePasses, SkipEnqueue,
      CooldownEnds, PruneJobs, Wipe, vars
<1>5. ASSUME NEW S \in SUBSET {e \in Events : artifact[e] = "ok"}, Crash(S)
      PROVE  IdleWhenDown'
  BY <1>5 DEF Crash, Off, IdleWhenDown
<1>6. ASSUME NEW enabled \in BOOLEAN, Boot(enabled) PROVE up'
  BY <1>6 DEF Boot
<1>. QED BY <1>1, <1>2, <1>3, <1>4, <1>5, <1>6 DEF Next

LEMMA KnownStep ==
  ASSUME IInv, [Next]_vars
  PROVE  KnownEvents'
<1>. TypeOK /\ KnownEvents /\ IdleWhenDown /\ WorkerHoldsItsRow /\ OneOpenJob
  BY DEF IInv
<1>1. ASSUME NEW j \in Jobs, jobs'[j] # NoRow PROVE stage'[jobs'[j].event] # "unseen"
  <2>1. RowMoves(j)
    BY RowMovesLemma
  <2>2. CASE Enqueued(j)
    <3>1. toEnqueue \in Events /\ stage[toEnqueue] # "unseen"
      BY <2>2 DEF Enqueued, EnqueueOcr, KnownEvents, TypeOK
    <3>. QED BY <2>2, <3>1, EventMoves DEF Enqueued
  <2>3. CASE ~Enqueued(j)
    <3>1. jobs[j] # NoRow /\ jobs'[j].event = jobs[j].event
      BY <1>1, <2>1, <2>3, RowStatus
      DEF RowMoves, SameRow, Claimed, Finished, Requeued, SkippedAtBoot, TypeOK, Open, NoRow
    <3>2. jobs[j].event \in Events /\ stage[jobs[j].event] # "unseen"
      BY <3>1, RowStatus DEF KnownEvents, TypeOK, Row
    <3>. QED BY <3>1, <3>2, EventMoves
  <2>. QED BY <2>2, <2>3
<1>2. ASSUME toEnqueue' # None PROVE stage'[toEnqueue'] # "unseen"
  <2>1. \/ \E e \in Events : PersistFrame(e)
        \/ toEnqueue' = toEnqueue
    BY <1>2
    DEF Next, WorkerStep, vars, PruneMedia, TrimEvent,
        EnqueueOcr, TimePasses, SkipEnqueue, CooldownEnds, PruneJobs, Wipe, Tick,
        ClaimNext, EndTick, CheckDerived, LookUpArtifact, ReadBlob, EngineReturns,
        WriteText, FinishJob, LoseCompletion, Crash, Boot
  <2>2. CASE \E e \in Events : PersistFrame(e)
    BY <2>2 DEF PersistFrame, TypeOK
  <2>3. CASE toEnqueue' = toEnqueue
    BY <1>2, <2>3, EventMoves DEF KnownEvents, TypeOK
  <2>. QED BY <2>1, <2>2, <2>3
<1>3. ASSUME worker'.pc \in Busy
      PROVE  worker'.job \in Jobs /\ worker'.event \in Events /\ stage'[worker'.event] # "unseen"
  <2>1. CASE \E j \in Jobs : ClaimNext(j) /\ worker'.job = j /\ worker'.event = jobs[j].event
    <3>1. PICK j \in Jobs : ClaimNext(j) /\ worker'.job = j /\ worker'.event = jobs[j].event
      BY <2>1
    <3>2. jobs[j] \in Row
      BY <3>1, RowStatus DEF ClaimNext, Claim, Claimable, Open, TypeOK
    <3>3. jobs[j].event \in Events /\ stage[jobs[j].event] # "unseen"
      BY <3>2, RowStatus DEF KnownEvents, TypeOK, Row, NoRow
    <3>. QED BY <3>1, <3>3, EventMoves
  <2>2. CASE worker.pc \in Busy /\ worker'.job = worker.job /\ worker'.event = worker.event
    BY <2>2, EventMoves DEF KnownEvents
  <2>. QED BY <1>3, <2>1, <2>2, WorkerMoves
<1>. QED BY <1>1, <1>2, <1>3 DEF KnownEvents

LEMMA HoldsStep ==
  ASSUME IInv, [Next]_vars
  PROVE  WorkerHoldsItsRow'
<1>. TypeOK /\ KnownEvents /\ IdleWhenDown /\ WorkerHoldsItsRow /\ OneOpenJob
  BY DEF IInv
<1>. SUFFICES ASSUME worker'.pc \in Busy, jobs'[worker'.job] # NoRow
     PROVE  /\ jobs'[worker'.job].status = "running"
            /\ jobs'[worker'.job].event = worker'.event
            /\ jobs'[worker'.job].attempts = worker'.attempts
  BY DEF WorkerHoldsItsRow
<1>1. CASE \E j \in Jobs : /\ ClaimNext(j) /\ worker'.job = j /\ worker'.event = jobs[j].event
                           /\ worker'.attempts = jobs[j].attempts + 1
  <2>1. PICK j \in Jobs : /\ ClaimNext(j) /\ worker'.job = j /\ worker'.event = jobs[j].event
                          /\ worker'.attempts = jobs[j].attempts + 1
    BY <1>1
  <2>2. jobs[j] \in Row
    BY <2>1, RowStatus DEF ClaimNext, Claim, Claimable, Open, TypeOK
  <2>. QED BY <2>1, <2>2 DEF ClaimNext, Claim, Row
<1>2. CASE /\ worker.pc \in Busy /\ worker'.job = worker.job
           /\ worker'.event = worker.event /\ worker'.attempts = worker.attempts
  <2>. DEFINE w == worker.job
  <2>1. w \in Jobs
    BY <1>2 DEF KnownEvents
  <2>2. RowMoves(w)
    BY <2>1, RowMovesLemma
  <2>3. ~Enqueued(w) /\ ~Claimed(w)
    BY <1>2 DEF Enqueued, EnqueueOcr, Claimed, ClaimNext, Busy
  <2>4. ~Finished(w)
    BY DEF Finished, FinishJob, AfterJob, Asleep, Off, Busy
  <2>5. ~Requeued(w)
    BY <1>2 DEF Requeued, Held
  <2>6. ~SkippedAtBoot(w)
    BY <1>2 DEF SkippedAtBoot, Held
  <2>. QED BY <1>2, <2>2, <2>3, <2>4, <2>5, <2>6 DEF RowMoves, SameRow, WorkerHoldsItsRow
<1>. QED BY <1>1, <1>2, WorkerMoves

LEMMA OutcomeStep ==
  ASSUME IInv, [Next]_vars
  PROVE  OutcomeTrue'
<1>. TypeOK /\ KnownEvents /\ OutcomeTrue /\ worker \in WorkerRec
  BY DEF IInv, TypeOK, WorkerRec
<1>. SUFFICES ASSUME worker'.pc = "finishing", worker'.outcome \in {"success", "already"},
                     stage'[worker'.event] = "live"
              PROVE  worker'.event \in text'
  BY DEF OutcomeTrue
<1>1. CASE CheckDerived
  BY <1>1 DEF CheckDerived, FinishWith, Goto, store, WorkerRec
<1>2. CASE WriteText
  BY <1>2 DEF WriteText, FinishWith, WorkerRec
<1>3. CASE LookUpArtifact \/ ReadBlob \/ EngineReturns
  <2>1. \/ \E p \in {"reading", "engine", "writing"} : worker' = [worker EXCEPT !.pc = p]
        \/ \E o \in {"permanent", "unavailable", "retry"} :
             worker' = [worker EXCEPT !.pc = "finishing", !.outcome = o]
    BY <1>3 DEF LookUpArtifact, ReadBlob, EngineReturns, FinishWith, Goto
  <2>. QED BY <2>1 DEF WorkerRec
<1>4. CASE UNCHANGED worker
  <2>1. worker.event \in Events /\ stage[worker.event] # "unseen"
    BY <1>4 DEF KnownEvents, Busy
  <2>. QED BY <1>4, <2>1, EventMoves DEF OutcomeTrue
<1>5. ASSUME \/ Tick \/ EndTick \/ FinishJob \/ LoseCompletion
             \/ \E j \in Jobs : ClaimNext(j)
             \/ \E S \in SUBSET {e \in Events : artifact[e] = "ok"} : Crash(S)
             \/ \E enabled \in BOOLEAN : Boot(enabled)
      PROVE  worker'.pc \in {"off", "asleep", "claiming", "checking"} \/ UNCHANGED worker
  <2>1. CASE Tick \/ EndTick
    BY <2>1 DEF Tick, EndTick, Asleep, Off
  <2>2. CASE FinishJob \/ LoseCompletion
    BY <2>2 DEF FinishJob, LoseCompletion, AfterJob, Asleep, Off
  <2>3. ASSUME NEW j \in Jobs, ClaimNext(j) PROVE worker'.pc = "checking"
    BY <2>3 DEF ClaimNext, WorkerRec
  <2>4. CASE \/ \E S \in SUBSET {e \in Events : artifact[e] = "ok"} : Crash(S)
             \/ \E enabled \in BOOLEAN : Boot(enabled)
    BY <2>4 DEF Crash, Boot, Asleep, Off
  <2>. QED BY <1>5, <2>1, <2>2, <2>3, <2>4
<1>6. ASSUME \/ \E e \in Events : PersistFrame(e) \/ PruneMedia(e) \/ TrimEvent(e)
             \/ \E j \in Jobs : EnqueueOcr(j) \/ TimePasses(j)
             \/ SkipEnqueue \/ CooldownEnds \/ PruneJobs \/ Wipe \/ UNCHANGED vars
      PROVE  UNCHANGED worker
  BY <1>6
  DEF PersistFrame, PruneMedia, TrimEvent, EnqueueOcr, TimePasses, SkipEnqueue,
      CooldownEnds, PruneJobs, Wipe, vars
<1>. QED BY <1>1, <1>2, <1>3, <1>4, <1>5, <1>6, NextCases DEF OffTable

LEMMA DoneStep ==
  ASSUME IInv, [Next]_vars
  PROVE  DoneHasText'
<1>. TypeOK /\ KnownEvents /\ IdleWhenDown /\ WorkerHoldsItsRow /\ OneOpenJob
  BY DEF IInv
<1>. SUFFICES ASSUME NEW j \in Jobs, jobs'[j].status = "done",
                     stage'[jobs'[j].event] = "live"
              PROVE  jobs'[j].event \in text'
  BY DEF DoneHasText, WithStatus
<1>1. RowMoves(j)
  BY RowMovesLemma
<1>2. CASE SameRow(j)
  <2>1. jobs[j].event \in Events /\ stage[jobs[j].event] # "unseen"
    BY <1>2, RowStatus DEF SameRow, KnownEvents, TypeOK, Row
  <2>. QED BY <1>2, <2>1, EventMoves DEF SameRow, IInv, DoneHasText, WithStatus
<1>3. CASE Finished(j)
  <2>1. worker.outcome \in {"success", "already"}
    BY <1>3, FinalStatusType DEF Finished
  <2>2. worker.pc = "finishing" /\ jobs[j].event = worker.event /\ UNCHANGED store
    BY <1>3 DEF Finished, FinishJob, WorkerHoldsItsRow, Busy, NoRow
  <2>. QED BY <1>3, <2>1, <2>2 DEF Finished, IInv, OutcomeTrue, store
<1>. QED
  BY <1>1, <1>2, <1>3
  DEF RowMoves, Enqueued, Claimed, Requeued, SkippedAtBoot, NoRow

\* A fault is the only step that changes the count, and it adds one.
LEMMA FaultsStep ==
  ASSUME TypeOK, OcrAssumption, [Next]_vars
  PROVE  faults' = faults \/ faults' = faults + 1
  BY DEF Next, WorkerStep, vars, PersistFrame, PruneMedia, TrimEvent,
         EnqueueOcr, TimePasses, SkipEnqueue, CooldownEnds, PruneJobs, Wipe, Tick,
         ClaimNext, EndTick, CheckDerived, LookUpArtifact, ReadBlob, EngineReturns,
         WriteText, FinishJob, LoseCompletion, Crash, Boot

(***************************************************************************)
(* The two halves of the budget need each other: a claim spends the        *)
(* attempt an unheld row has to spare, and a row that is let go of either  *)
(* has one left, because the worker compared it with MaxAttempts, or was   *)
(* dropped by a fault that raises the allowance.                           *)
(***************************************************************************)
LEMMA BudgetStep ==
  ASSUME OcrAssumption, IInv, [Next]_vars
  PROVE  RetryBudget' /\ AttemptToSpare'
<1>. /\ TypeOK /\ KnownEvents /\ IdleWhenDown /\ WorkerHoldsItsRow /\ OneOpenJob
     /\ RetryBudget /\ AttemptToSpare
  BY DEF IInv
<1>a. /\ MaxAttempts \in Nat /\ MaxAttempts > 0 /\ faults \in Nat
      /\ faults' \in Nat /\ faults' >= faults
  BY FaultsStep DEF OcrAssumption, TypeOK
<1>. SUFFICES ASSUME NEW j \in Jobs, jobs'[j] # NoRow
     PROVE  /\ jobs'[j].attempts <= MaxAttempts + faults'
            /\ jobs'[j].status \in Open /\ j \notin Held' =>
                 jobs'[j].attempts < MaxAttempts + faults'
  BY DEF RetryBudget, AttemptToSpare, WithStatus, NoRow, Open
<1>0. jobs[j] # NoRow => jobs[j].attempts \in Nat /\ jobs[j].attempts <= MaxAttempts + faults
  BY RowStatus DEF TypeOK, Row, RetryBudget
<1>1. RowMoves(j)
  BY RowMovesLemma
<1>2. CASE SameRow(j) /\ NotDropped(j)
  <2>1. jobs[j].attempts \in Nat /\ jobs'[j].attempts = jobs[j].attempts
    BY <1>0, <1>2 DEF SameRow
  <2>2. ASSUME jobs[j].status \in Open, j \notin Held PROVE jobs[j].attempts < MaxAttempts + faults
    BY <2>2 DEF AttemptToSpare, WithStatus
  <2>. QED BY <1>a, <1>0, <1>2, <2>1, <2>2 DEF SameRow, NotDropped
<1>3. CASE Enqueued(j)
  <2>0. \A a, f \in Nat : a > 0 => 0 < a + f /\ 0 <= a + f
    OBVIOUS
  <2>1. 0 < MaxAttempts + faults' /\ 0 <= MaxAttempts + faults'
    BY <1>a, <2>0
  <2>. QED BY <1>3, <2>1 DEF Enqueued
<1>4. CASE Claimed(j)
  <2>1. worker.pc = "claiming" /\ j \in Held'
    BY <1>4 DEF Claimed, ClaimNext, Held, Busy, TypeOK
  <2>2. jobs[j].attempts < MaxAttempts + faults
    BY <1>4, <2>1 DEF Claimed, AttemptToSpare, WithStatus, Held, Busy, Open
  <2>. QED BY <1>a, <1>0, <1>4, <2>1, <2>2 DEF Claimed, Row, NoRow
<1>5. CASE Finished(j)
  <2>1. jobs[j] # NoRow /\ jobs[j].attempts = worker.attempts
    BY <1>5 DEF Finished, FinishJob, WorkerHoldsItsRow, Busy, NoRow
  <2>2. jobs'[j].status \in Open => worker.attempts < MaxAttempts
    BY <1>a, <1>0, <1>5, <2>1, FinalStatusType DEF Finished, Open, Settled
  <2>. QED BY <1>a, <1>0, <1>5, <2>1, <2>2 DEF Finished
<1>6. CASE Requeued(j)
  <2>1. jobs[j].attempts < MaxAttempts + faults
    BY <1>6 DEF Requeued, AttemptToSpare, WithStatus, Open
  <2>. QED BY <1>a, <1>0, <1>6, <2>1 DEF Requeued, NoRow
<1>7. CASE SkippedAtBoot(j)
  BY <1>a, <1>0, <1>7 DEF SkippedAtBoot, NoRow, Open
<1>. QED BY <1>1, <1>2, <1>3, <1>4, <1>5, <1>6, <1>7 DEF RowMoves

(***************************************************************************)
(* A row is stranded by the worker that let go of it, and RowMoves has it  *)
(* let go of an unsettled row in a fault only; the worker holds one row.   *)
(***************************************************************************)
LEMMA StrandedStep ==
  ASSUME OcrAssumption, IInv, [Next]_vars
  PROVE  StrandedBounded'
<1>. /\ TypeOK /\ KnownEvents /\ IdleWhenDown /\ WorkerHoldsItsRow /\ OneOpenJob
     /\ IsFiniteSet(Stranded) /\ Cardinality(Stranded) <= faults
  BY DEF IInv, StrandedBounded, StrandedOnlyByFaults, Stranded
<1>0. faults \in Nat
  BY DEF TypeOK, OcrAssumption
<1>1. IsFiniteSet(Held) /\ Cardinality(Held) <= 1
  <2>1. CASE worker.pc \in Busy
    <3>1. Held = {worker.job}
      BY <2>1 DEF Held
    <3>2. IsFiniteSet({worker.job}) /\ Cardinality({worker.job}) = 1
      BY FS_Singleton
    <3>. QED BY <3>1, <3>2
  <2>2. CASE worker.pc \notin Busy
    <3>1. Held = {}
      BY <2>2 DEF Held
    <3>. QED BY <3>1, FS_EmptySet
  <2>. QED BY <2>1, <2>2
<1>2. ASSUME NEW j \in Jobs, jobs'[j].status = "running", j \notin Held'
      PROVE  j \in Stranded \/ (j \in Held /\ faults' = faults + 1)
  <2>1. RowMoves(j)
    BY RowMovesLemma
  <2>2. ~Claimed(j)
    <3>1. ASSUME Claimed(j) PROVE j \in Held'
      BY <3>1 DEF Claimed, ClaimNext, Held, Busy, TypeOK
    <3>. QED BY <1>2, <3>1
  <2>3. ~Finished(j)
    BY <1>2, FinalStatusType DEF Finished, Settled
  <2>4. SameRow(j) /\ NotDropped(j)
    BY <1>2, <2>1, <2>2, <2>3 DEF RowMoves, Enqueued, Requeued, SkippedAtBoot, NoRow
  <2>. QED BY <1>2, <2>4 DEF SameRow, NotDropped, Stranded, WithStatus
<1>3. CASE faults' = faults
  <2>1. Stranded' \in SUBSET Stranded
    BY <1>0, <1>2, <1>3 DEF Stranded, WithStatus
  <2>2. IsFiniteSet(Stranded') /\ Cardinality(Stranded') <= Cardinality(Stranded)
    BY <2>1, FS_Subset
  <2>3. Cardinality(Stranded') \in Nat /\ Cardinality(Stranded) \in Nat
    BY <2>2, FS_CardinalityType
  <2>. QED BY <1>0, <1>3, <2>2, <2>3 DEF StrandedBounded, StrandedOnlyByFaults, Stranded
<1>4. CASE faults' = faults + 1
  <2>1. Stranded' \in SUBSET (Stranded \cup Held)
    BY <1>2 DEF Stranded, WithStatus
  <2>2. IsFiniteSet(Stranded') /\ Cardinality(Stranded') <= faults + 1
    BY <1>0, <1>1, <2>1, UnionBound
  <2>. QED BY <1>4, <2>2 DEF StrandedBounded, StrandedOnlyByFaults, Stranded
<1>. QED BY <1>3, <1>4, FaultsStep

\* The pipeline uses the table as a queue's client does: it completes rows that
\* are open, because it holds them.
LEMMA NextIsQueueStatement ==
  ASSUME TypeOK, KnownEvents, WorkerHoldsItsRow, [Next]_vars
  PROVE  QueueStatement \/ UNCHANGED jobs
<1>1. CASE OffTable
  BY <1>1, OffTableKeepsJobs
<1>2. ASSUME NEW j \in Jobs, EnqueueOcr(j) PROVE QueueStatement
  <2>1. toEnqueue \in Events
    BY <1>2 DEF EnqueueOcr, TypeOK
  <2>. QED BY <1>2, <2>1 DEF EnqueueOcr, QueueStatement
<1>3. ASSUME NEW j \in Jobs, TimePasses(j) PROVE QueueStatement
  BY <1>3 DEF TimePasses, QueueStatement
<1>4. ASSUME NEW j \in Jobs, ClaimNext(j) PROVE QueueStatement
  <2>1. {j} \in SUBSET Jobs /\ Claim({j})
    BY <1>4 DEF ClaimNext
  <2>. QED BY <2>1 DEF QueueStatement
<1>5. ASSUME FinishJob PROVE QueueStatement
  <2>. DEFINE s == FinalStatus(worker.outcome)
  <2>1. worker.job \in Jobs /\ Complete(worker.job, s, s # "pending")
    BY <1>5 DEF FinishJob, KnownEvents, Busy
  <2>2. s \in Settled \cup {"pending"} /\ (s # "pending") \in BOOLEAN
    BY FinalStatusType
  <2>3. jobs[worker.job] = NoRow \/ jobs[worker.job].status \in Open
    BY <1>5 DEF FinishJob, WorkerHoldsItsRow, Busy, Open
  <2>. HIDE DEF s
  <2>. QED BY <2>1, <2>2, <2>3 DEF QueueStatement, CompleteOpen
<1>6. ASSUME NEW enabled \in BOOLEAN, Boot(enabled) PROVE QueueStatement
  BY <1>6 DEF Boot, QueueStatement
<1>7. CASE Tick \/ PruneJobs \/ Wipe
  BY <1>7 DEF Tick, PruneJobs, Wipe, QueueStatement
<1>. QED
  BY <1>1, <1>2, <1>3, <1>4, <1>5, <1>6, <1>7, NextCases

-----------------------------------------------------------------------------
(* The theorems. *)

LEMMA InitIInv ==
  ASSUME OcrAssumption, Init
  PROVE  IInv
<1>1. \A j \in Jobs : jobs[j] = NoRow
  BY DEF Init, EmptyTable
<1>2. TypeOK
  <2>1. JobTableType
    BY DEF Init, EmptyTable, JobTableType
  <2>2. Off \in WorkerRec
    BY DEF Off, WorkerRec, Outcomes, OcrAssumption
  <2>3. CircuitClosed \in [fails : 0 .. Threshold, cooling : BOOLEAN]
    BY DEF CircuitClosed, OcrAssumption
  <2>4. faults \in 0 .. MaxFaults
    BY DEF Init, OcrAssumption
  <2>. QED BY <2>1, <2>2, <2>3, <2>4 DEF Init, TypeOK, WorkerRec
<1>3. KnownEvents /\ IdleWhenDown /\ WorkerHoldsItsRow /\ OutcomeTrue
  BY <1>1 DEF Init, Off, Busy, KnownEvents, IdleWhenDown, WorkerHoldsItsRow, OutcomeTrue
<1>4. OneOpenJob /\ DoneHasText /\ RetryBudget /\ AttemptToSpare
  BY <1>1 DEF OneOpenJob, DoneHasText, RetryBudget, AttemptToSpare, WithStatus, NoRow, Open
<1>5. StrandedBounded
  <2>1. Stranded = {}
    BY <1>1 DEF Stranded, WithStatus, NoRow
  <2>. QED BY <2>1, FS_EmptySet DEF Init, StrandedBounded, StrandedOnlyByFaults, Stranded
<1>. QED BY <1>2, <1>3, <1>4, <1>5 DEF IInv

\* The inductive invariant: every part of it is kept by every step of the
\* persist task, the worker, maintenance, a wipe, a crash and a boot.
THEOREM Inductive == Spec => []IInv
<1>1. Init => IInv
  BY InitIInv, OcrAssumption
<1>2. IInv /\ [Next]_vars => IInv'
  <2>. SUFFICES ASSUME IInv, [Next]_vars PROVE IInv'
    OBVIOUS
  <2>1. TypeOK' /\ IdleWhenDown'
    BY TypeStep, IdleStep, OcrAssumption DEF IInv
  <2>2. KnownEvents' /\ WorkerHoldsItsRow' /\ OutcomeTrue' /\ DoneHasText'
    BY KnownStep, HoldsStep, OutcomeStep, DoneStep
  <2>3. OneOpenJob'
    BY NextIsTableStep, OneOpenJobKept DEF IInv, TypeOK
  <2>4. RetryBudget' /\ AttemptToSpare' /\ StrandedBounded'
    BY BudgetStep, StrandedStep, OcrAssumption
  <2>. QED BY <2>1, <2>2, <2>3, <2>4 DEF IInv
<1>. QED BY <1>1, <1>2, PTL DEF Spec

\* Types: rows, worker, circuit and the fault count stay in their sets.
THEOREM TypeCorrect == Spec => []TypeOK
BY Inductive, PTL DEF IInv

\* The row a worker is working on is its own until the worker settles it.
THEOREM HoldsItsRow == Spec => []WorkerHoldsItsRow
BY Inductive, PTL DEF IInv

\* What the rows say of the worker is so, with the bound on the attempts.
THEOREM RowsKept == Spec => []RowsAccounted
BY Inductive, PTL DEF IInv, RowsAccounted

\* No event ever has two open jobs.
THEOREM AtMostOneOpen == Spec => []OneOpenJob
BY Inductive, PTL DEF IInv

\* A done job's event has its text, or is gone.
THEOREM DoneIsSearchable == Spec => []DoneHasText
BY Inductive, PTL DEF IInv

\* A job is tried at most MaxAttempts times, plus once per fault.
THEOREM BudgetKept == Spec => []RetryBudget
BY Inductive, PTL DEF IInv

\* Only a crash or a lost completion strands a row, one each.
THEOREM StrandedCounted == Spec => []StrandedOnlyByFaults
BY Inductive, PTL DEF IInv, StrandedBounded

\* Through claims, retries, crashes, reclaims and wipes the table is the abstract
\* work queue: what is requested stays open until it settles, once.
THEOREM OcrImplementsQueue == Spec => ImplementsQueue
<1>1. Init => Queue!QueueInit
  BY EmptyQueue DEF Init
<1>2. IInv /\ [Next]_vars => [Queue!QueueNext]_Items
  BY NextIsQueueStatement, QueueStep DEF IInv, TypeOK
<1>. QED BY <1>1, <1>2, Inductive, PTL DEF Spec, ImplementsQueue, Queue!QueueSafe, Items

\* Neither a late completion nor a reclaim nor a boot re-opens a settled row.
THEOREM SettledStays == Spec => SettledForGood
<1>. DEFINE Stays == \A j \in Jobs : jobs[j].status \in Settled =>
                       jobs'[j] = NoRow \/ jobs'[j].status = jobs[j].status
<1>1. IInv /\ [Next]_vars => [Stays]_vars
  <2>. SUFFICES ASSUME IInv, [Next]_vars, NEW j \in Jobs, jobs[j].status \in Settled
                PROVE  jobs'[j] = NoRow \/ jobs'[j].status = jobs[j].status
    OBVIOUS
  <2>1. RowMoves(j)
    BY RowMovesLemma DEF IInv
  <2>. QED
    BY <2>1
    DEF RowMoves, SameRow, Enqueued, Claimed, Finished, Requeued, SkippedAtBoot,
        Settled, Open, NoRow
<1>. QED BY <1>1, Inductive, PTL DEF Spec, SettledForGood

\* An open circuit costs no job an attempt.
THEOREM CooldownFree == Spec => CooldownSparesAttempts
<1>. DEFINE Spares == circuit.cooling => \A j \in Jobs :
                        jobs[j] # NoRow /\ jobs'[j] # NoRow =>
                          jobs'[j].attempts = jobs[j].attempts
<1>1. IInv /\ [Next]_vars => [Spares]_vars
  <2>. SUFFICES ASSUME IInv, [Next]_vars, circuit.cooling,
                       NEW j \in Jobs, jobs[j] # NoRow, jobs'[j] # NoRow
                PROVE  jobs'[j].attempts = jobs[j].attempts
    OBVIOUS
  <2>1. RowMoves(j)
    BY RowMovesLemma DEF IInv
  <2>2. ~Claimed(j)
    BY DEF Claimed, ClaimNext
  <2>. QED
    BY <2>1, <2>2 DEF RowMoves, SameRow, Enqueued, Finished, Requeued, SkippedAtBoot
<1>. QED BY <1>1, Inductive, PTL DEF Spec, CooldownSparesAttempts

\* Neither a settled row nor, while the circuit cools, a waiting one is touched.
THEOREM RestingRowsKept == Spec => RestingRowsUntouched
BY SettledStays, CooldownFree, PTL DEF RestingRowsUntouched

-----------------------------------------------------------------------------
(* The helper process.  HelpersReaped and TextEarned need to know whose helper is whose: *)
(* CallOwnsHelper, and that a helper that answered had the whole picture.               *)

HelperRec ==
  [pc : {"reading", "working", "answered", "exited", "failed"}, input : {"nothing", "header", "whole"},
   answer : {"none", "words", "blank", "error", "oversized"}, hung : BOOLEAN, orphan : BOOLEAN]
PictureRec ==
  [pc : {"idle", "writing", "listening", "reaping"}, mode : {"text", "boxes"},
   text : {"none", "words", "blank", "retry"}, since : Nat]

HelperType == helpers \in Seq(HelperRec) /\ picture \in PictureRec

\* A helper works on a whole picture, and answers once.
Diligent(h) ==
  /\ h.pc \in {"working", "answered", "exited"} => h.input = "whole"
  /\ h.pc \in {"reading", "working"} => h.answer = "none"

\* A call has its own helper, the second or the first of the job, by what it asks for.
CallOwnsHelper ==
  /\ picture.since <= Latest
  /\ Calling =>
       /\ Latest >= 1 /\ ~helpers[Latest].orphan
       /\ picture.mode = "text"  => picture.text = "none" /\ picture.since + 1 = Latest
       /\ picture.mode = "boxes" => picture.text \in {"words", "blank"} /\ picture.since + 2 = Latest
  /\ picture.pc = "reaping" => helpers[Latest].answer \notin {"none", "oversized"}

HelperInv ==
  /\ HelperType /\ (\A i \in DOMAIN helpers : Diligent(helpers[i]))
  /\ CallOwnsHelper /\ HelpersReaped /\ TextEarned

LEMMA HelpersAre ==
  ASSUME HelperType
  PROVE  /\ Latest \in Nat /\ DOMAIN helpers = 1 .. Latest
         /\ \A i \in 1 .. Latest : helpers[i] \in HelperRec
  BY LenProperties, ElementOfSeq DEF HelperType, Latest

LEMMA OneRewritten ==
  ASSUME HelperType, NEW k \in 1 .. Latest, NEW h \in HelperRec, helpers' = [helpers EXCEPT ![k] = h]
  PROVE  /\ helpers' \in Seq(HelperRec) /\ Latest' = Latest /\ DOMAIN helpers' = 1 .. Latest
         /\ helpers'[k] = h /\ \A i \in 1 .. Latest : i # k => helpers'[i] = helpers[i]
<1>1. /\ [helpers EXCEPT ![k] = h] \in Seq(HelperRec)
      /\ Len([helpers EXCEPT ![k] = h]) = Len(helpers)
      /\ \A j \in 1 .. Len(helpers) : [helpers EXCEPT ![k] = h][j] = IF j = k THEN h ELSE helpers[j]
  BY ExceptSeq DEF HelperType, Latest
<1>2. DOMAIN helpers' = 1 .. Len(helpers')
  BY <1>1, LenProperties
<1>. QED BY <1>1, <1>2 DEF Latest

\* A helper takes a step of its own, or is written to; the call waits or listens.
LEMMA OneStepsOn ==
  ASSUME HelperInv, NEW k \in 1 .. Latest, NEW h \in HelperRec, helpers' = [helpers EXCEPT ![k] = h],
         Diligent(h), h.orphan = helpers[k].orphan,
         Running(h) => Running(helpers[k]),
         ~Running(helpers[k]) => h.pc = helpers[k].pc /\ h.input = helpers[k].input,
         helpers[k].answer # "none" => h.answer = helpers[k].answer,
         picture' \in PictureRec, picture'.text = picture.text, picture'.since = picture.since,
         picture'.mode = picture.mode,
         picture'.pc = picture.pc \/ (picture.pc = "writing" /\ picture'.pc = "listening")
  PROVE  HelperInv'
<1>0. /\ HelperType /\ (\A i \in DOMAIN helpers : Diligent(helpers[i]))
      /\ CallOwnsHelper /\ HelpersReaped /\ TextEarned
  BY DEF HelperInv
<1>1. /\ helpers' \in Seq(HelperRec) /\ Latest' = Latest /\ DOMAIN helpers' = 1 .. Latest
      /\ helpers'[k] = h /\ \A i \in 1 .. Latest : i # k => helpers'[i] = helpers[i]
  BY <1>0, OneRewritten
<1>2. Latest \in Nat /\ DOMAIN helpers = 1 .. Latest /\ (\A i \in 1 .. Latest : helpers[i] \in HelperRec)
  BY <1>0, HelpersAre
<1>3. (Calling' <=> Calling) /\ (picture'.pc = "reaping" <=> picture.pc = "reaping")
  BY DEF Calling
<1>4. HelperType' /\ \A i \in DOMAIN helpers' : Diligent(helpers'[i])
  BY <1>0, <1>1, <1>2 DEF HelperType
<1>5. CallOwnsHelper'
  BY <1>0, <1>1, <1>2, <1>3 DEF CallOwnsHelper
<1>6. HelpersReaped'
  BY <1>0, <1>1, <1>2, <1>3 DEF HelpersReaped
<1>7. TextEarned'
  <2>1. ASSUME NEW i \in 1 .. Latest, NEW a \in {"words", "blank"},
               helpers[i].pc = "exited", helpers[i].input = "whole", helpers[i].answer = a
        PROVE  helpers'[i].pc = "exited" /\ helpers'[i].input = "whole" /\ helpers'[i].answer = a
    BY <1>1, <2>1 DEF Running
  <2>2. picture.since + 1 .. Latest \subseteq 1 .. Latest /\ picture'.since + 1 .. Latest' = picture.since + 1 .. Latest
    BY <1>0, <1>1, <1>2 DEF HelperType, PictureRec
  <2>. QED BY <1>0, <1>1, <1>2, <1>3, <2>1, <2>2 DEF TextEarned
<1>. QED BY <1>4, <1>5, <1>6, <1>7 DEF HelperInv

\* The call ends without an answer, and its helper with it.
LEMMA CallFails ==
  ASSUME HelperInv, Calling, KillAndFail
  PROVE  HelperInv'
<1>0. /\ HelperType /\ (\A i \in DOMAIN helpers : Diligent(helpers[i]))
      /\ CallOwnsHelper /\ HelpersReaped /\ TextEarned
  BY DEF HelperInv
<1>1. Latest \in Nat /\ DOMAIN helpers = 1 .. Latest /\ (\A i \in 1 .. Latest : helpers[i] \in HelperRec)
  BY <1>0, HelpersAre
<1>2. Latest \in 1 .. Latest
  BY <1>0, <1>1 DEF CallOwnsHelper
<1>. DEFINE old == helpers[Latest]
            h == [old EXCEPT !.pc = IF Running(old) THEN "failed" ELSE @]
<1>3. /\ h \in HelperRec /\ ~Running(h) /\ h.input = old.input /\ h.answer = old.answer /\ h.orphan = old.orphan
      /\ (h.pc = "failed" \/ h.pc = old.pc) /\ (~Running(old) => h.pc = old.pc)
  BY <1>1, <1>2 DEF HelperRec, Running
<1>4. helpers' = [helpers EXCEPT ![Latest] = h]
  BY DEF KillAndFail
<1>5. Diligent(h)
  BY <1>0, <1>1, <1>2, <1>3 DEF Diligent, Running
<1>. HIDE DEF h
<1>6. /\ helpers' \in Seq(HelperRec) /\ Latest' = Latest /\ DOMAIN helpers' = 1 .. Latest
      /\ helpers'[Latest] = h /\ \A i \in 1 .. Latest : i # Latest => helpers'[i] = helpers[i]
  BY <1>0, <1>2, <1>3, <1>4, OneRewritten
<1>7. /\ picture' \in PictureRec /\ picture'.pc = "idle" /\ picture'.since = picture.since
      /\ picture'.text = IF picture.text = "words" THEN "words" ELSE "retry"
  BY <1>0 DEF KillAndFail, HelperType, PictureRec
<1>8. ~Calling'
  BY <1>7 DEF Calling
<1>9. HelperType' /\ \A i \in DOMAIN helpers' : Diligent(helpers'[i])
  BY <1>0, <1>1, <1>5, <1>6, <1>7 DEF HelperType
<1>10. CallOwnsHelper'
  BY <1>0, <1>6, <1>7, <1>8 DEF CallOwnsHelper
<1>11. HelpersReaped'
  BY <1>0, <1>1, <1>3, <1>6 DEF HelpersReaped
<1>12. TextEarned'
  <2>1. ASSUME NEW i \in 1 .. Latest,
               helpers[i].pc = "exited", helpers[i].input = "whole", helpers[i].answer = "words"
        PROVE  helpers'[i].pc = "exited" /\ helpers'[i].input = "whole" /\ helpers'[i].answer = "words"
    BY <1>3, <1>6, <2>1 DEF Running
  <2>2. picture.since + 1 .. Latest \subseteq 1 .. Latest /\ picture'.since + 1 .. Latest' = picture.since + 1 .. Latest
    BY <1>0, <1>1, <1>6, <1>7 DEF HelperType, PictureRec
  <2>. QED BY <1>0, <1>7, <2>1, <2>2 DEF TextEarned
<1>. QED BY <1>9, <1>10, <1>11, <1>12 DEF HelperInv

LEMMA OneSpawned ==
  ASSUME HelperType, helpers' = Append(helpers, Spawned)
  PROVE  /\ helpers' \in Seq(HelperRec) /\ Latest' = Latest + 1 /\ DOMAIN helpers' = 1 .. Latest + 1
         /\ helpers'[Latest + 1] = Spawned /\ \A i \in 1 .. Latest : helpers'[i] = helpers[i]
<1>1. Spawned \in HelperRec
  BY DEF Spawned, HelperRec
<1>2. /\ Append(helpers, Spawned) \in Seq(HelperRec)
      /\ Len(Append(helpers, Spawned)) = Len(helpers) + 1
      /\ \A i \in 1 .. Len(helpers) : Append(helpers, Spawned)[i] = helpers[i]
      /\ Append(helpers, Spawned)[Len(helpers) + 1] = Spawned
  BY <1>1, AppendProperties DEF HelperType
<1>3. DOMAIN helpers' = 1 .. Len(helpers')
  BY <1>2, LenProperties
<1>. QED BY <1>2, <1>3 DEF Latest

\* A helper is asked for the text of a picture, or for the boxes of one whose text is had.
LEMMA CallGoesOut ==
  ASSUME HelperInv, NEW mode, NEW words, NEW since \in Nat, Calls(mode, words, since),
         \A i \in DOMAIN helpers : Running(helpers[i]) => helpers[i].orphan,
         \/ mode = "text" /\ words = "none" /\ since = Latest
         \/ /\ mode = "boxes" /\ words \in {"words", "blank"} /\ since + 1 = Latest
            /\ helpers[Latest].pc = "exited" /\ helpers[Latest].input = "whole"
            /\ helpers[Latest].answer = words
  PROVE  HelperInv'
<1>0. /\ HelperType /\ (\A i \in DOMAIN helpers : Diligent(helpers[i]))
      /\ CallOwnsHelper /\ HelpersReaped /\ TextEarned
  BY DEF HelperInv
<1>1. Latest \in Nat /\ DOMAIN helpers = 1 .. Latest /\ (\A i \in 1 .. Latest : helpers[i] \in HelperRec)
  BY <1>0, HelpersAre
<1>2. CASE /\ helpers' = Append(helpers, Spawned)
           /\ picture' = [pc |-> "writing", mode |-> mode, text |-> words, since |-> since]
  <2>1. /\ helpers' \in Seq(HelperRec) /\ Latest' = Latest + 1 /\ DOMAIN helpers' = 1 .. Latest + 1
        /\ helpers'[Latest + 1] = Spawned /\ \A i \in 1 .. Latest : helpers'[i] = helpers[i]
    BY <1>0, <1>2, OneSpawned
  <2>2. HelperType'
    BY <1>2, <2>1 DEF HelperType, PictureRec
  <2>3. Calling' /\ picture'.mode = mode /\ picture'.text = words /\ picture'.since = since /\ picture'.pc = "writing"
    BY <1>2 DEF Calling
  <2>4. Diligent(Spawned) /\ ~Spawned.orphan /\ Spawned.pc = "reading"
    BY DEF Diligent, Spawned
  <2>5. \A i \in DOMAIN helpers' : Diligent(helpers'[i])
    BY <1>0, <1>1, <2>1, <2>4
  <2>6. CallOwnsHelper'
    BY <1>1, <2>1, <2>3, <2>4 DEF CallOwnsHelper
  <2>7. HelpersReaped'
    BY <1>1, <2>1, <2>3 DEF HelpersReaped
  <2>8. TextEarned'
    BY <1>1, <2>1, <2>3 DEF TextEarned
  <2>. QED BY <2>2, <2>5, <2>6, <2>7, <2>8 DEF HelperInv
<1>3. CASE /\ UNCHANGED helpers
           /\ picture' = [Unasked EXCEPT !.text = IF words = "words" THEN words ELSE "retry", !.since = since]
  <2>1. /\ picture' \in PictureRec /\ picture'.pc = "idle" /\ picture'.since = since
        /\ picture'.text = IF words = "words" THEN "words" ELSE "retry"
    BY <1>3 DEF Unasked, PictureRec
  <2>2. Latest' = Latest /\ ~Calling'
    BY <1>3, <2>1 DEF Latest, Calling
  <2>3. HelperType' /\ \A i \in DOMAIN helpers' : Diligent(helpers'[i])
    BY <1>0, <1>3, <2>1 DEF HelperType
  <2>4. CallOwnsHelper'
    BY <1>1, <2>1, <2>2 DEF CallOwnsHelper
  <2>5. HelpersReaped'
    BY <1>3 DEF HelpersReaped
  <2>6. TextEarned'
    BY <1>1, <1>3, <2>1, <2>2 DEF TextEarned
  <2>. QED BY <2>3, <2>4, <2>5, <2>6 DEF HelperInv
<1>. QED BY <1>2, <1>3 DEF Calls

\* What came of a helper that exited well.
LEMMA ResultCounts ==
  ASSUME HelperInv, picture.pc = "reaping", helpers[Latest].pc = "exited",
         helpers[Latest].answer # "error", Result(helpers[Latest].answer)
  PROVE  HelperInv'
<1>0. /\ HelperType /\ (\A i \in DOMAIN helpers : Diligent(helpers[i]))
      /\ CallOwnsHelper /\ HelpersReaped /\ TextEarned
  BY DEF HelperInv
<1>1. Latest \in Nat /\ DOMAIN helpers = 1 .. Latest /\ (\A i \in 1 .. Latest : helpers[i] \in HelperRec)
  BY <1>0, HelpersAre
<1>2. Calling /\ Latest \in 1 .. Latest
  BY <1>0, <1>1 DEF CallOwnsHelper, Calling
<1>3. PICK a : a = helpers[Latest].answer
  OBVIOUS
<1>4. a \in {"words", "blank"} /\ helpers[Latest].input = "whole"
  BY <1>0, <1>1, <1>2, <1>3 DEF CallOwnsHelper, HelperRec, Diligent
<1>5. \A i \in DOMAIN helpers : Running(helpers[i]) => helpers[i].orphan
  BY <1>0, <1>2 DEF HelpersReaped, Running
<1>. DEFINE words == IF picture.text = "words" THEN "words" ELSE a
<1>6. CASE picture.mode = "text" /\ Calls("boxes", words, picture.since)
  <2>1. words = a /\ picture.since \in Nat /\ picture.since + 1 = Latest
    BY <1>0, <1>2, <1>6 DEF CallOwnsHelper, HelperType, PictureRec
  <2>. QED BY <1>3, <1>4, <1>5, <1>6, <2>1, CallGoesOut
<1>7. CASE picture' = [picture EXCEPT !.pc = "idle", !.text = words] /\ UNCHANGED helpers
  <2>1. /\ picture' \in PictureRec /\ picture'.pc = "idle" /\ picture'.since = picture.since
        /\ picture'.text = words /\ picture.mode \in {"text", "boxes"} /\ picture.since \in Nat
    BY <1>0, <1>4, <1>7 DEF HelperType, PictureRec
  <2>2. Latest' = Latest /\ ~Calling'
    BY <1>7, <2>1 DEF Latest, Calling
  <2>3. HelperType' /\ \A i \in DOMAIN helpers' : Diligent(helpers'[i])
    BY <1>0, <1>7, <2>1 DEF HelperType
  <2>4. CallOwnsHelper'
    BY <1>0, <1>1, <2>1, <2>2 DEF CallOwnsHelper
  <2>5. HelpersReaped'
    BY <1>5, <1>7 DEF HelpersReaped
  <2>6. TextEarned'
    <3>1. CASE picture.mode = "text"
      <4>1. words = a /\ picture.since + 1 = Latest
        BY <1>0, <1>2, <3>1 DEF CallOwnsHelper
      <4>. QED BY <1>1, <1>3, <1>4, <1>7, <2>1, <2>2, <4>1 DEF TextEarned
    <3>2. CASE picture.mode = "boxes"
      <4>1. picture.text \in {"words", "blank"} /\ picture.since + 2 = Latest
        BY <1>0, <1>2, <3>2 DEF CallOwnsHelper
      <4>2. CASE picture.text = "words"
        BY <1>0, <1>7, <2>1, <2>2, <4>2 DEF TextEarned
      <4>3. CASE picture.text = "blank"
        <5>1. words = a
          BY <4>3
        <5>. QED BY <1>0, <1>1, <1>2, <1>3, <1>4, <1>7, <2>1, <2>2, <4>1, <4>3, <5>1 DEF TextEarned
      <4>. QED BY <4>1, <4>2, <4>3
    <3>. QED BY <2>1, <3>1, <3>2
  <2>. QED BY <2>3, <2>4, <2>5, <2>6 DEF HelperInv
<1>. QED BY <1>3, <1>6, <1>7 DEF Result

LEMMA WorkerSideSafe ==
  ASSUME HelperInv, Ask \/ WorkerSide \/ TimesOut
  PROVE  HelperInv'
<1>0. /\ HelperType /\ (\A i \in DOMAIN helpers : Diligent(helpers[i]))
      /\ CallOwnsHelper /\ HelpersReaped /\ TextEarned
  BY DEF HelperInv
<1>1. Latest \in Nat /\ DOMAIN helpers = 1 .. Latest /\ (\A i \in 1 .. Latest : helpers[i] \in HelperRec)
  BY <1>0, HelpersAre
<1>2. Calling => Latest \in 1 .. Latest
  BY <1>0, <1>1 DEF CallOwnsHelper
<1>3. CASE Ask
  <2>1. \A i \in DOMAIN helpers : Running(helpers[i]) => helpers[i].orphan
    BY <1>0, <1>3 DEF Ask, HelpersReaped
  <2>. QED BY <1>1, <1>3, <2>1, CallGoesOut DEF Ask
<1>4. CASE Writes
  <2>. DEFINE h == [helpers[Latest] EXCEPT !.input = IF @ = "nothing" THEN "header" ELSE "whole"]
  <2>1. Calling /\ Running(helpers[Latest])
    BY <1>4 DEF Writes, Calling
  <2>2. /\ h \in HelperRec /\ h.pc = helpers[Latest].pc /\ h.orphan = helpers[Latest].orphan
        /\ h.answer = helpers[Latest].answer /\ (helpers[Latest].input # "nothing" => h.input = "whole")
        /\ Running(h)
    BY <1>1, <1>2, <2>1 DEF HelperRec, Running
  <2>3. Diligent(h)
    BY <1>0, <1>1, <1>2, <2>1, <2>2 DEF Diligent
  <2>4. helpers' = [helpers EXCEPT ![Latest] = h]
    BY <1>4 DEF Writes
  <2>. HIDE DEF h
  <2>5. /\ picture' \in PictureRec /\ picture'.text = picture.text /\ picture'.since = picture.since
        /\ picture'.mode = picture.mode
        /\ (picture'.pc = picture.pc \/ (picture.pc = "writing" /\ picture'.pc = "listening"))
    BY <1>0, <1>4 DEF Writes, HelperType, PictureRec
  <2>. QED BY <1>2, <2>1, <2>2, <2>3, <2>4, <2>5, OneStepsOn
<1>5. CASE PipeBreaks
  BY <1>5, CallFails DEF PipeBreaks, Calling
<1>6. CASE TimesOut
  BY <1>6, CallFails DEF TimesOut
<1>7. CASE Listens
  <2>1. CASE KillAndFail
    BY <1>7, <2>1, CallFails DEF Listens, Calling
  <2>2. CASE /\ picture' = [picture EXCEPT !.pc = "reaping"] /\ UNCHANGED helpers
             /\ helpers[Latest].answer # "oversized"
    <3>1. /\ picture' \in PictureRec /\ picture'.pc = "reaping" /\ picture'.since = picture.since
          /\ picture'.text = picture.text /\ picture'.mode = picture.mode
      BY <1>0, <2>2 DEF HelperType, PictureRec
    <3>2. Latest' = Latest /\ Calling' /\ Calling /\ helpers[Latest].answer # "none"
      BY <1>7, <2>2, <3>1 DEF Listens, Latest, Calling
    <3>3. HelperType' /\ \A i \in DOMAIN helpers' : Diligent(helpers'[i])
      BY <1>0, <2>2, <3>1 DEF HelperType
    <3>4. CallOwnsHelper'
      BY <1>0, <2>2, <3>1, <3>2 DEF CallOwnsHelper
    <3>5. HelpersReaped'
      BY <1>0, <2>2, <3>2 DEF HelpersReaped
    <3>6. TextEarned'
      BY <1>0, <2>2, <3>1, <3>2 DEF TextEarned
    <3>. QED BY <3>3, <3>4, <3>5, <3>6 DEF HelperInv
  <2>. QED BY <1>7, <2>1, <2>2 DEF Listens
<1>8. CASE Reaps
  <2>1. CASE KillAndFail
    BY <1>8, <2>1, CallFails DEF Reaps, Calling
  <2>2. CASE /\ helpers[Latest].pc = "exited" /\ helpers[Latest].answer # "error"
             /\ Result(helpers[Latest].answer)
    BY <1>8, <2>2, ResultCounts DEF Reaps
  <2>. QED BY <1>8, <2>1, <2>2 DEF Reaps
<1>. QED BY <1>3, <1>4, <1>5, <1>6, <1>7, <1>8 DEF WorkerSide

LEMMA HelperSideSafe ==
  ASSUME HelperInv, NEW k \in DOMAIN helpers, HelperSide(k) \/ Crashes(k) \/ Hangs(k)
  PROVE  HelperInv'
<1>0. /\ HelperType /\ (\A i \in DOMAIN helpers : Diligent(helpers[i]))
  BY DEF HelperInv
<1>1. k \in 1 .. Latest /\ helpers[k] \in HelperRec /\ Diligent(helpers[k])
  BY <1>0, HelpersAre
<1>2. /\ picture' = picture /\ picture' \in PictureRec
  BY <1>0 DEF HelperSide, Reads, Works, Exits, Crashes, Hangs, GoesTo, HelperType
<1>3. ASSUME NEW h, helpers' = [helpers EXCEPT ![k] = h], h \in HelperRec, Diligent(h), Running(helpers[k]),
             h.orphan = helpers[k].orphan, helpers[k].answer # "none" => h.answer = helpers[k].answer
      PROVE  HelperInv'
  BY <1>1, <1>2, <1>3, OneStepsOn
<1>4. ASSUME NEW pc \in {"working", "exited", "failed"}, GoesTo(k, pc), Running(helpers[k]),
             pc = "working" => helpers[k].pc = "reading" /\ helpers[k].input = "whole",
             pc = "exited" => helpers[k].pc = "answered"
      PROVE  HelperInv'
  <2>. DEFINE h == [helpers[k] EXCEPT !.pc = pc]
  <2>1. h \in HelperRec /\ Diligent(h) /\ h.orphan = helpers[k].orphan /\ h.answer = helpers[k].answer
    BY <1>1, <1>4 DEF HelperRec, Diligent
  <2>2. helpers' = [helpers EXCEPT ![k] = h]
    BY <1>4 DEF GoesTo
  <2>. HIDE DEF h
  <2>. QED BY <1>3, <1>4, <2>1, <2>2
<1>5. CASE Reads(k)
  BY <1>4, <1>5 DEF Reads, Running
<1>6. CASE Works(k)
  <2>1. CASE GoesTo(k, "failed")
    BY <1>4, <1>6, <2>1 DEF Works, Running
  <2>2. ASSUME NEW a \in {"words", "blank", "error", "oversized"},
               helpers' = [helpers EXCEPT ![k].pc = "answered", ![k].answer = a]
        PROVE  HelperInv'
    <3>. DEFINE h == [helpers[k] EXCEPT !.pc = "answered", !.answer = a]
    <3>1. helpers[k].pc = "working" /\ Running(helpers[k])
      BY <1>6 DEF Works, Running
    <3>2. /\ h \in HelperRec /\ Diligent(h) /\ h.orphan = helpers[k].orphan /\ helpers[k].answer = "none"
      BY <1>1, <3>1, <2>2 DEF HelperRec, Diligent
    <3>3. helpers' = [helpers EXCEPT ![k] = h]
      BY <1>1, <2>2 DEF HelperRec
    <3>. HIDE DEF h
    <3>. QED BY <1>3, <3>1, <3>2, <3>3
  <2>. QED BY <1>6, <2>1, <2>2 DEF Works
<1>7. CASE Exits(k)
  BY <1>4, <1>7 DEF Exits, Running
<1>8. CASE Crashes(k)
  BY <1>4, <1>8 DEF Crashes
<1>9. CASE Hangs(k)
  <2>. DEFINE h == [helpers[k] EXCEPT !.hung = TRUE]
  <2>1. h \in HelperRec /\ Diligent(h) /\ h.orphan = helpers[k].orphan /\ h.answer = helpers[k].answer
    BY <1>1 DEF HelperRec, Diligent
  <2>2. helpers' = [helpers EXCEPT ![k] = h] /\ Running(helpers[k])
    BY <1>9 DEF Hangs, Running
  <2>. HIDE DEF h
  <2>. QED BY <1>3, <2>1, <2>2
<1>. QED BY <1>5, <1>6, <1>7, <1>8, <1>9 DEF HelperSide

\* The daemon goes, its picture forgotten; the helper of a call under way is left.
LEMMA DaemonSafe ==
  ASSUME HelperInv, StopsDown \/ Dies \/ ComesUp
  PROVE  HelperInv'
<1>0. /\ HelperType /\ (\A i \in DOMAIN helpers : Diligent(helpers[i]))
      /\ CallOwnsHelper /\ HelpersReaped /\ TextEarned
  BY DEF HelperInv
<1>1. Latest \in Nat /\ DOMAIN helpers = 1 .. Latest /\ (\A i \in 1 .. Latest : helpers[i] \in HelperRec)
  BY <1>0, HelpersAre
<1>2. CASE ComesUp
  BY <1>2 DEF ComesUp, HelperInv, HelperType, Diligent, CallOwnsHelper, HelpersReaped, TextEarned,
     Latest, Calling, Running
<1>3. ASSUME picture' = Unasked, helpers' \in Seq(HelperRec), DOMAIN helpers' = 1 .. Latest,
             \A i \in 1 .. Latest : Diligent(helpers'[i]) /\ (Running(helpers'[i]) => helpers'[i].orphan),
             Latest' = Latest
      PROVE  HelperInv'
  <2>1. /\ picture' \in PictureRec /\ ~Calling' /\ picture'.text = "none" /\ picture'.since = 0 /\ picture'.pc = "idle"
    BY <1>3 DEF Unasked, PictureRec, Calling
  <2>. QED BY <1>1, <1>3, <2>1 DEF HelperInv, HelperType, CallOwnsHelper, HelpersReaped, TextEarned
<1>4. CASE StopsDown
  <2>1. helpers' = helpers /\ picture' = Unasked /\ ~Calling
    BY <1>4 DEF StopsDown, Ends
  <2>2. Latest' = Latest
    BY <2>1 DEF Latest
  <2>. QED BY <1>0, <1>1, <1>3, <2>1, <2>2 DEF HelperType, HelpersReaped
<1>5. CASE Dies
  <2>. DEFINE h == [helpers[Latest] EXCEPT !.orphan = TRUE]
  <2>1. Calling /\ picture' = Unasked /\ Latest \in 1 .. Latest
    BY <1>0, <1>1, <1>5 DEF Dies, Ends, CallOwnsHelper
  <2>2. helpers' = [helpers EXCEPT ![Latest] = h]
    BY <1>5 DEF Dies, Ends
  <2>3. h \in HelperRec /\ Diligent(h) /\ h.orphan
    BY <1>0, <1>1, <2>1 DEF HelperRec, Diligent
  <2>. HIDE DEF h
  <2>4. /\ helpers' \in Seq(HelperRec) /\ Latest' = Latest /\ DOMAIN helpers' = 1 .. Latest
        /\ helpers'[Latest] = h /\ \A i \in 1 .. Latest : i # Latest => helpers'[i] = helpers[i]
    BY <1>0, <2>1, <2>2, <2>3, OneRewritten
  <2>5. \A i \in 1 .. Latest : Diligent(helpers'[i]) /\ (Running(helpers'[i]) => helpers'[i].orphan)
    BY <1>0, <1>1, <2>3, <2>4 DEF HelpersReaped
  <2>. QED BY <1>3, <2>1, <2>4, <2>5
<1>. QED BY <1>2, <1>4, <1>5

LEMMA HelperInductive == HelperSpec => []HelperInv
<1>1. HelperInit => HelperInv
  <2>. SUFFICES ASSUME HelperInit PROVE HelperInv
    OBVIOUS
  <2>1. helpers = <<>> /\ picture = Unasked /\ Latest = 0 /\ helpers \in Seq(HelperRec)
    BY EmptySeq DEF HelperInit, Latest
  <2>2. DOMAIN helpers = {}
    BY <2>1, EmptySeq, LenProperties DEF Latest
  <2>. QED BY <2>1, <2>2
       DEF HelperInv, HelperType, PictureRec, Unasked, CallOwnsHelper, HelpersReaped, TextEarned, Calling
<1>2. HelperInv /\ [HelperNext]_helperVars => HelperInv'
  <2>. SUFFICES ASSUME HelperInv, [HelperNext]_helperVars PROVE HelperInv'
    OBVIOUS
  <2>1. CASE UNCHANGED helperVars
    BY <2>1 DEF helperVars, HelperInv, HelperType, Diligent, CallOwnsHelper, HelpersReaped, TextEarned,
       Latest, Calling, Running
  <2>2. CASE HelperNext
    BY <2>2, WorkerSideSafe, HelperSideSafe, DaemonSafe DEF HelperNext
  <2>. QED BY <2>1, <2>2
<1>. QED BY <1>1, <1>2, PTL DEF HelperSpec

\* "timeout kills and reaps the child": however a call ends - timeout, crash, broken pipe,
\* oversized answer - no helper outlives it but one left by a daemon that died; and what
\* is stored as a picture's text was earned by its own helpers.
THEOREM HelpersSafe == HelperSpec => [](HelpersReaped /\ TextEarned)
BY HelperInductive, PTL DEF HelperInv

=============================================================================
