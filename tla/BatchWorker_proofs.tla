-------------------------- MODULE BatchWorker_proofs --------------------------
(***************************************************************************)
(* Safety of the workers that claim a batch at a time, for any batch size, *)
(* any number of jobs and any number of crashes and lost completions.      *)
(*                                                                         *)
(* While the first job of a batch is in its slow call the others wait as   *)
(* running rows, and every statement that could touch them may run.  The   *)
(* invariant is that a batch and the running rows account for each other:  *)
(* no row is twice in a batch, the rows are as the claim left them unless  *)
(* a wipe took them, a row nobody holds has an attempt to spare, and the   *)
(* running rows nobody holds are counted by the faults that left them.     *)
(***************************************************************************)
EXTENDS BatchWorker, JobTable_proofs, SequenceTheorems

Entry == [job : Jobs, event : Events, attempts : Nat]

Sort == {"unseen", "window", "browser", "nopid", "speech", "noise", "invalid"}

BatchType ==
  /\ JobTableType
  /\ kind \in {"ax", "asr"} /\ sort \in [Events -> Sort]
  /\ source \subseteq Events /\ derived \subseteq Events
  /\ batch \in Seq(Entry) /\ Len(batch) <= BatchSize
  /\ pc \in {"next", "slow"} \cup Outcomes
  /\ up \in {"running", "idle", "disabled", "down"}
  /\ breaks \in Nat

\* Only a running worker has a batch, and only a batch is worked on.
BatchInHand ==
  /\ up # "running" => batch = <<>>
  /\ batch = <<>> => pc = "next"

\* Rows and batches are of events that were taken in, each under its own name.
SeenOnly ==
  /\ \A j \in Jobs : jobs[j] # NoRow => sort[j] # "unseen" /\ jobs[j].event = j
  /\ \A i \in DOMAIN batch : sort[batch[i].job] # "unseen" /\ batch[i].event = batch[i].job

NoneTwice == \A i, j \in DOMAIN batch : i # j => batch[i].job # batch[j].job

BatchSpare ==
  \A j \in WithStatus(Open) \ BatchHeld : jobs[j].attempts < MaxAttempts + breaks

Stranded == WithStatus({"running"}) \ BatchHeld

StrandBounded == IsFiniteSet(Stranded) /\ BatchStrandBounded

IInv ==
  /\ BatchType /\ BatchInHand /\ SeenOnly /\ NoneTwice /\ BatchHoldsItsRows
  /\ StrandBounded /\ BatchRetryBudget /\ BatchSpare /\ TranscribedOnce

-----------------------------------------------------------------------------
(* The batch. *)

LEMMA BatchFacts ==
  ASSUME batch \in Seq(Entry)
  PROVE  /\ DOMAIN batch = 1 .. Len(batch) /\ Len(batch) \in Nat
         /\ \A i \in DOMAIN batch : batch[i] \in Entry
         /\ BatchHeld \subseteq Jobs
         /\ batch # <<>> => 1 \in DOMAIN batch
<1>1. DOMAIN batch = 1 .. Len(batch) /\ Len(batch) \in Nat /\ batch \in [1 .. Len(batch) -> Entry]
  BY LenProperties
<1>2. \A i \in DOMAIN batch : batch[i] \in Entry
  BY <1>1
<1>3. BatchHeld \subseteq Jobs
  BY <1>2 DEF BatchHeld, Entry
<1>4. batch # <<>> => 1 \in DOMAIN batch
  BY <1>1, EmptySeq
<1>. QED BY <1>1, <1>2, <1>3, <1>4

LEMMA NoBatchNoneHeld ==
  ASSUME batch = <<>>
  PROVE  BatchHeld = {}
  BY DEF BatchHeld

\* A batch holds at most as many rows as it is long.
LEMMA HeldBounded ==
  ASSUME batch \in Seq(Entry)
  PROVE  IsFiniteSet(BatchHeld) /\ Cardinality(BatchHeld) <= Len(batch)
<1>. DEFINE D == 1 .. Len(batch)
            f == [i \in D |-> batch[i].job]
<1>1. DOMAIN batch = D /\ Len(batch) \in Nat
  BY BatchFacts
<1>2. IsFiniteSet(D) /\ Cardinality(D) = Len(batch)
  BY <1>1, FS_Interval
<1>3. f \in Surjection(D, BatchHeld)
  BY <1>1 DEF Surjection, BatchHeld
<1>. HIDE DEF D, f
<1>. QED BY <1>2, <1>3, FS_Surjection

\* What a claim brings: an entry for every row of S, and no row twice.
LEMMA ClaimedFacts ==
  ASSUME JobTableType, NEW S \in SUBSET Jobs, IsFiniteSet(S), \A j \in S : Claimable(j),
         NEW b \in Claimed(S)
  PROVE  /\ b \in Seq(Entry) /\ Len(b) = Cardinality(S)
         /\ {b[i].job : i \in DOMAIN b} = S
         /\ \A i, j \in DOMAIN b : i # j => b[i].job # b[j].job
         /\ \A i \in DOMAIN b : /\ b[i].job \in S /\ b[i].event = jobs[b[i].job].event
                                /\ b[i].attempts = jobs[b[i].job].attempts + 1
<1>. DEFINE n == Cardinality(S)
<1>1. PICK o \in SetToSeqs(S) :
        b = [i \in DOMAIN o |->
               [job |-> o[i], event |-> jobs[o[i]].event, attempts |-> jobs[o[i]].attempts + 1]]
  BY DEF Claimed
<1>2. n \in Nat
  BY FS_CardinalityType
<1>3. o \in [1 .. n -> S] /\ \A i, j \in 1 .. n : i # j => o[i] # o[j]
  BY <1>1 DEF SetToSeqs
<1>4. \A s \in S : \E i \in 1 .. n : o[i] = s
  <2>1. o \in Injection(1 .. n, S)
    BY <1>3 DEF Injection, IsInjective
  <2>2. Cardinality(1 .. n) = n
    BY <1>2, FS_Interval
  <2>. HIDE DEF n
  <2>3. o \in Surjection(1 .. n, S)
    BY <2>1, <2>2, FS_Injection DEF n
  <2>. QED BY <2>3 DEF Surjection
<1>5. \A j \in S : jobs[j].event \in Events /\ jobs[j].attempts + 1 \in Nat
  <2>1. \A j \in S : jobs[j] \in Row
    BY RowStatus DEF Claimable, Open
  <2>. QED BY <2>1 DEF Row
<1>6. b \in [1 .. n -> Entry]
  BY <1>1, <1>3, <1>5 DEF Entry
<1>7. b \in Seq(Entry) /\ Len(b) = n /\ DOMAIN b = 1 .. n
  BY <1>2, <1>6, SeqDef
<1>8. \A i \in 1 .. n : /\ b[i].job = o[i] /\ b[i].event = jobs[o[i]].event
                        /\ b[i].attempts = jobs[o[i]].attempts + 1
  BY <1>1, <1>3
<1>. QED BY <1>3, <1>4, <1>7, <1>8

\* The rest of a batch after its first job.
LEMMA TailFacts ==
  ASSUME batch \in Seq(Entry), batch # <<>>, batch' = Tail(batch)
  PROVE  /\ batch' \in Seq(Entry) /\ Len(batch') = Len(batch) - 1
         /\ \A i \in DOMAIN batch' : i + 1 \in DOMAIN batch /\ batch'[i] = batch[i + 1]
         /\ BatchHeld \subseteq BatchHeld' \cup {batch[1].job}
         /\ BatchHeld' \subseteq BatchHeld
<1>1. /\ batch' \in Seq(Entry) /\ Len(batch') = Len(batch) - 1
      /\ \A i \in 1 .. Len(batch') : batch'[i] = batch[i + 1]
  BY HeadTailProperties
<1>2. DOMAIN batch = 1 .. Len(batch) /\ Len(batch) \in Nat /\ DOMAIN batch' = 1 .. Len(batch')
  BY <1>1, LenProperties
<1>3. \A i \in DOMAIN batch' : i + 1 \in DOMAIN batch /\ batch'[i] = batch[i + 1]
  BY <1>1, <1>2
<1>4. \A i \in DOMAIN batch : i # 1 => i - 1 \in DOMAIN batch' /\ batch'[i - 1] = batch[i]
  BY <1>1, <1>2
<1>5. BatchHeld \subseteq BatchHeld' \cup {batch[1].job}
  <2>. SUFFICES ASSUME NEW i \in DOMAIN batch, i # 1 PROVE batch[i].job \in BatchHeld'
    BY DEF BatchHeld
  <2>. QED BY <1>4 DEF BatchHeld
<1>6. BatchHeld' \subseteq BatchHeld
  BY <1>3 DEF BatchHeld
<1>. QED BY <1>1, <1>3, <1>5, <1>6

-----------------------------------------------------------------------------
(* Type correctness. *)

LEMMA SettledAsType ==
  /\ SettledAs \in Settled \cup {"pending"}
  /\ SettledAs = "pending" => ~(batch[1].attempts >= MaxAttempts)
  BY DEF SettledAs, Settled

\* Whatever the worker does, it does to the table by a statement of a client that
\* completes open rows: those of its batch.
LEMMA NextIsQueueStatement ==
  ASSUME BatchAssumption, BatchType, BatchInHand, BatchHoldsItsRows, [BatchNext]_batchVars
  PROVE  QueueStatement \/ UNCHANGED jobs
<1>1. ASSUME NEW e \in Events, NEW s \in Sorts, Intake(e, s) PROVE QueueStatement
  BY <1>1 DEF Intake, QueueStatement, BatchAssumption
<1>2. ASSUME NEW e \in Events, PruneArtifact(e) \/ TrimRow(e) PROVE UNCHANGED jobs
  BY <1>2 DEF PruneArtifact, TrimRow
<1>3. CASE WipeAll \/ Prune
  BY <1>3 DEF WipeAll, Prune, QueueStatement
<1>4. ASSUME NEW j \in Jobs, BackoffPasses(j) PROVE QueueStatement
  BY <1>4 DEF BackoffPasses, QueueStatement
<1>5. CASE Reclaims
  BY <1>5 DEF Reclaims, QueueStatement
<1>6. ASSUME NEW S \in SUBSET Jobs, Claims(S) PROVE QueueStatement
  BY <1>6 DEF Claims, QueueStatement
<1>7. CASE LooksUp \/ Answers \/ SettlesInVain \/ Dies \/ Stops \/ UNCHANGED batchVars
  BY <1>7 DEF LooksUp, Answers, SettlesInVain, Dies, Stops, batchVars
<1>8. CASE Settles
  <2>1. 1 \in DOMAIN batch /\ batch[1] \in Entry
    BY <1>8, BatchFacts DEF Settles, BatchInHand, BatchType, Outcomes
  <2>2. batch[1].job \in Jobs /\ Complete(batch[1].job, SettledAs, SettledAs # "pending")
    BY <1>8, <2>1 DEF Settles, Entry
  <2>3. jobs[batch[1].job] = NoRow \/ jobs[batch[1].job].status \in Open
    BY <2>1 DEF BatchHoldsItsRows, Open
  <2>4. SettledAs \in Settled \cup {"pending"} /\ (SettledAs # "pending") \in BOOLEAN
    BY SettledAsType
  <2>. QED BY <2>2, <2>3, <2>4 DEF QueueStatement, CompleteOpen
<1>9. ASSUME NEW as \in {"running", "idle", "disabled"}, Starts(as) PROVE QueueStatement
  BY <1>9 DEF Starts, QueueStatement
<1>. QED
  BY <1>1, <1>2, <1>3, <1>4, <1>5, <1>6, <1>7, <1>8, <1>9 DEF BatchNext, BatchStep

\* Statements of a queue's client are statements on the table.
LEMMA TableStep ==
  ASSUME BatchAssumption, BatchType, BatchInHand, BatchHoldsItsRows, [BatchNext]_batchVars
  PROVE  [TableNext]_jobs
  BY NextIsQueueStatement DEF QueueStatement, CompleteOpen, TableNext

LEMMA TypeStep ==
  ASSUME BatchAssumption, BatchType, BatchInHand, BatchHoldsItsRows, [BatchNext]_batchVars
  PROVE  BatchType'
<1>0. JobTableType'
  BY TableStep, TableTypeKept DEF BatchType
<1>1. ASSUME NEW e \in Events, NEW s \in Sorts, Intake(e, s) PROVE BatchType'
  <2>1. s \in Sort
    BY DEF Sorts, Sort
  <2>. QED BY <1>0, <1>1, <2>1 DEF Intake, BatchType
<1>2. ASSUME NEW e \in Events, PruneArtifact(e) \/ TrimRow(e) PROVE BatchType'
  BY <1>0, <1>2 DEF PruneArtifact, TrimRow, BatchType
<1>3. CASE WipeAll \/ Prune
  BY <1>0, <1>3 DEF WipeAll, Prune, batchData, BatchType
<1>4. ASSUME NEW j \in Jobs, BackoffPasses(j) PROVE BatchType'
  BY <1>0, <1>4 DEF BackoffPasses, batchData, BatchType
<1>5. CASE Reclaims \/ Stops \/ UNCHANGED batchVars
  BY <1>0, <1>5 DEF Reclaims, Stops, batchVars, batchData, BatchType
<1>6. ASSUME NEW S \in SUBSET Jobs, Claims(S) PROVE BatchType'
  <2>1. IsFiniteSet(S)
    BY FS_Subset DEF BatchAssumption
  <2>2. batch' \in Seq(Entry) /\ Len(batch') = Cardinality(S)
    BY <1>6, <2>1, ClaimedFacts DEF Claims, Claim, BatchType
  <2>3. Cardinality(S) <= BatchSize
    BY <1>6, <2>1, FS_CardinalityType DEF Claims, BatchAssumption
  <2>. QED BY <1>0, <1>6, <2>2, <2>3 DEF Claims, batchData, BatchType
<1>7. CASE LooksUp
  BY <1>0, <1>7 DEF LooksUp, batchData, BatchType, Outcomes
<1>8. CASE Answers
  <2>1. batch # <<>>
    BY <1>8 DEF Answers, BatchInHand
  <2>2. batch[1].event \in Events
    BY <2>1, BatchFacts DEF BatchType, Entry
  <2>. QED BY <1>0, <1>8, <2>2 DEF Answers, Writes, Event, BatchType, Outcomes
<1>9. CASE Settles \/ SettlesInVain
  <2>1. batch # <<>> /\ batch' = Tail(batch)
    BY <1>9 DEF Settles, SettlesInVain, BatchInHand, Outcomes
  <2>2. batch' \in Seq(Entry) /\ Len(batch') <= BatchSize
    BY <2>1, TailFacts, BatchFacts DEF BatchType, BatchAssumption
  <2>. QED BY <1>0, <1>9, <2>2 DEF Settles, SettlesInVain, batchData, BatchType
<1>10. CASE Dies
  <2>1. <<>> \in Seq(Entry) /\ Len(<<>>) <= BatchSize
    BY EmptySeq DEF BatchAssumption
  <2>. QED BY <1>0, <1>10, <2>1 DEF Dies, batchData, BatchType
<1>11. ASSUME NEW as \in {"running", "idle", "disabled"}, Starts(as) PROVE BatchType'
  BY <1>0, <1>11 DEF Starts, batchData, BatchType
<1>. QED
  BY <1>1, <1>2, <1>3, <1>4, <1>5, <1>6, <1>7, <1>8, <1>9, <1>10, <1>11
  DEF BatchNext, BatchStep

LEMMA InHandStep ==
  ASSUME BatchAssumption, BatchType, BatchInHand, [BatchNext]_batchVars
  PROVE  BatchInHand'
<1>1. ASSUME NEW e \in Events, NEW s \in Sorts, Intake(e, s) PROVE BatchInHand'
  BY <1>1 DEF Intake, BatchInHand
<1>2. ASSUME NEW e \in Events, PruneArtifact(e) \/ TrimRow(e) PROVE BatchInHand'
  BY <1>2 DEF PruneArtifact, TrimRow, BatchInHand
<1>3. CASE WipeAll \/ Prune \/ Reclaims \/ UNCHANGED batchVars
  BY <1>3 DEF WipeAll, Prune, Reclaims, batchVars, BatchInHand
<1>4. ASSUME NEW j \in Jobs, BackoffPasses(j) PROVE BatchInHand'
  BY <1>4 DEF BackoffPasses, BatchInHand
<1>5. ASSUME NEW S \in SUBSET Jobs, Claims(S) PROVE BatchInHand'
  BY <1>5 DEF Claims, BatchInHand
<1>6. CASE LooksUp \/ Answers
  BY <1>6 DEF LooksUp, Answers, BatchInHand
<1>7. CASE Settles \/ SettlesInVain
  BY <1>7 DEF Settles, SettlesInVain, batchData, BatchInHand
<1>8. CASE Dies \/ Stops
  BY <1>8 DEF Dies, Stops, BatchInHand
<1>9. ASSUME NEW as \in {"running", "idle", "disabled"}, Starts(as) PROVE BatchInHand'
  BY <1>9 DEF Starts, BatchInHand
<1>. QED
  BY <1>1, <1>2, <1>3, <1>4, <1>5, <1>6, <1>7, <1>8, <1>9 DEF BatchNext, BatchStep

-----------------------------------------------------------------------------
(* How a step moves one row. *)

SameRow(j) ==
  /\ jobs[j] # NoRow /\ jobs'[j] # NoRow
  /\ jobs'[j].status = jobs[j].status
  /\ jobs'[j].event = jobs[j].event
  /\ jobs'[j].attempts = jobs[j].attempts

\* A row leaves the batch unsettled in a fault only.
NotDropped(j) == j \in BatchHeld => j \in BatchHeld' \/ breaks' = breaks + 1

TakenIn(j) ==
  /\ \E s \in Sorts : Intake(j, s)
  /\ jobs[j] = NoRow /\ jobs'[j].status = "pending" /\ jobs'[j].attempts = 0
  /\ jobs'[j].event = j

ClaimedRow(j) ==
  /\ batch = <<>> /\ j \in BatchHeld'
  /\ jobs[j] \in Row /\ jobs[j].status = "pending"
  /\ jobs'[j].status = "running" /\ jobs'[j].event = jobs[j].event
  /\ jobs'[j].attempts = jobs[j].attempts + 1
  /\ UNCHANGED breaks

SettledRow(j) ==
  /\ Settles /\ batch # <<>> /\ j = batch[1].job /\ jobs[j].status = "running"
  /\ jobs'[j].status = SettledAs
  /\ jobs'[j].event = jobs[j].event /\ jobs'[j].attempts = jobs[j].attempts

Requeued(j) ==
  /\ j \notin BatchHeld
  /\ jobs[j].status = "running" /\ jobs'[j].status = "pending"
  /\ jobs'[j].event = jobs[j].event /\ jobs'[j].attempts = jobs[j].attempts

SkippedRow(j) ==
  /\ jobs[j].status \in Open /\ jobs'[j].status = "skipped" /\ batch = <<>>
  /\ jobs'[j].event = jobs[j].event /\ jobs'[j].attempts = jobs[j].attempts

\* The ways a row can move in one step of a worker.
RowMoves(j) ==
  \/ jobs'[j] = NoRow
  \/ SameRow(j) /\ NotDropped(j)
  \/ TakenIn(j) \/ ClaimedRow(j) \/ SettledRow(j) \/ Requeued(j) \/ SkippedRow(j)

LEMMA ReclaimRow ==
  ASSUME JobTableType, ReclaimStale, NEW j \in Jobs, batch = <<>>
  PROVE  RowMoves(j)
<1>0. BatchHeld = {}
  BY NoBatchNoneHeld
<1>1. CASE StaleRunning(j)
  <2>1. jobs[j] \in Row /\ jobs[j].status = "running"
    BY <1>1, RowStatus DEF StaleRunning, Open
  <2>2. jobs'[j] = [jobs[j] EXCEPT !.status = "pending", !.due = TRUE, !.aged = FALSE]
    BY <1>1 DEF ReclaimStale
  <2>. QED BY <1>0, <2>1, <2>2 DEF RowMoves, Requeued, Row
<1>2. CASE ~StaleRunning(j)
  BY <1>0, <1>2 DEF ReclaimStale, RowMoves, SameRow, NotDropped
<1>. QED BY <1>1, <1>2

LEMMA RowMovesLemma ==
  ASSUME BatchAssumption, BatchType, BatchInHand, SeenOnly, BatchHoldsItsRows,
         [BatchNext]_batchVars, NEW j \in Jobs
  PROVE  RowMoves(j)
<1>. JobTableType
  BY DEF BatchType
<1>0. ASSUME UNCHANGED batch PROVE NotDropped(j)
  BY <1>0 DEF NotDropped, BatchHeld
<1>1. ASSUME NEW e \in Events, NEW s \in Sorts, Intake(e, s) PROVE RowMoves(j)
  <2>1. NotDropped(j)
    BY <1>0, <1>1 DEF Intake
  <2>2. CASE j = e
    BY <1>1, <2>2 DEF Intake, Enqueue, RowMoves, TakenIn, JobTableType
  <2>3. CASE j # e
    BY <1>1, <2>1, <2>3 DEF Intake, Enqueue, RowMoves, SameRow, JobTableType
  <2>. QED BY <2>2, <2>3
<1>2. CASE UNCHANGED jobs /\ NotDropped(j)
  BY <1>2 DEF RowMoves, SameRow
<1>3. ASSUME NEW e \in Events, PruneArtifact(e) \/ TrimRow(e)
      PROVE  UNCHANGED jobs /\ NotDropped(j)
  BY <1>0, <1>3 DEF PruneArtifact, TrimRow
<1>4. CASE LooksUp \/ Answers \/ Stops \/ UNCHANGED batchVars
  BY <1>0, <1>2, <1>4 DEF LooksUp, Answers, Stops, batchVars
<1>5. CASE SettlesInVain \/ Dies
  BY <1>2, <1>5 DEF SettlesInVain, Dies, NotDropped
<1>6. CASE WipeAll
  BY <1>6 DEF WipeAll, DeleteAll, RowMoves
<1>7. CASE Prune
  <2>1. NotDropped(j)
    BY <1>0, <1>7 DEF Prune
  <2>. QED BY <1>7, <2>1 DEF Prune, PruneCompleted, RowMoves, SameRow
<1>8. ASSUME NEW i \in Jobs, BackoffPasses(i) PROVE RowMoves(j)
  <2>1. NotDropped(j)
    BY <1>0, <1>8 DEF BackoffPasses
  <2>2. jobs[i] \in Row
    BY <1>8, RowStatus DEF BackoffPasses, BackoffElapses, Ages, Open, Settled
  <2>3. jobs'[j] = NoRow \/ SameRow(j)
    BY <1>8, <2>2 DEF BackoffPasses, BackoffElapses, Ages, SameRow, JobTableType, Row, NoRow
  <2>. QED BY <2>1, <2>3 DEF RowMoves
<1>9. CASE Reclaims
  BY <1>9, ReclaimRow DEF Reclaims
<1>10. ASSUME NEW S \in SUBSET Jobs, Claims(S) PROVE RowMoves(j)
  <2>1. batch = <<>> /\ Claim(S) /\ batch' \in Claimed(S) /\ UNCHANGED breaks
    BY <1>10 DEF Claims
  <2>2. IsFiniteSet(S)
    BY FS_Subset DEF BatchAssumption
  <2>3. BatchHeld' = S
    BY <2>1, <2>2, ClaimedFacts DEF Claim, BatchHeld
  <2>4. CASE j \in S
    <3>1. jobs[j] \in Row /\ jobs[j].status = "pending"
      BY <2>1, <2>4, RowStatus DEF Claim, Claimable, Open
    <3>. QED BY <2>1, <2>3, <2>4, <3>1 DEF Claim, RowMoves, ClaimedRow, Row
  <2>5. CASE j \notin S
    BY <2>1, <2>5, NoBatchNoneHeld DEF Claim, RowMoves, SameRow, NotDropped
  <2>. QED BY <2>4, <2>5
<1>11. CASE Settles
  <2>1. batch # <<>> /\ batch' = Tail(batch)
    BY <1>11 DEF Settles, BatchInHand, Outcomes
  <2>2. batch[1] \in Entry /\ 1 \in DOMAIN batch
    BY <2>1, BatchFacts DEF BatchType
  <2>3. BatchHeld \subseteq BatchHeld' \cup {batch[1].job}
    BY <2>1, TailFacts DEF BatchType
  <2>. DEFINE w == batch[1].job
              s == SettledAs
  <2>4. w \in Jobs /\ Complete(w, s, s # "pending")
    BY <1>11, <2>2 DEF Settles, Entry
  <2>5. jobs[w] # NoRow => jobs[w] \in Row /\ jobs[w].status = "running"
    BY <2>2, <2>4, RowStatus DEF BatchHoldsItsRows
  <2>. HIDE DEF w, s
  <2>6. CASE j # w
    <3>1. jobs'[j] = jobs[j]
      BY <2>4, <2>6 DEF Complete, JobTableType
    <3>. QED BY <2>3, <2>6, <3>1 DEF RowMoves, SameRow, NotDropped, w
  <2>7. CASE j = w /\ jobs[w] = NoRow
    BY <2>4, <2>7 DEF Complete, RowMoves
  <2>8. CASE j = w /\ jobs[w] # NoRow
    <3>1. ASSUME NEW i \in OpenFor(jobs[w].event) PROVE i = w
      BY <2>4, <2>8, <3>1 DEF OpenFor, WithStatus, SeenOnly, NoRow, Open
    <3>2. jobs' = [jobs EXCEPT ![w] =
                     [@ EXCEPT !.status = s, !.due = (s # "pending"), !.aged = FALSE]]
      BY <2>4, <2>8, <3>1 DEF Complete
    <3>. QED BY <1>11, <2>1, <2>4, <2>5, <2>8, <3>2 DEF RowMoves, SettledRow, JobTableType, Row, w, s
  <2>. QED BY <2>6, <2>7, <2>8
<1>12. ASSUME NEW as \in {"running", "idle", "disabled"}, Starts(as) PROVE RowMoves(j)
  <2>1. batch = <<>>
    BY <1>12 DEF Starts, BatchInHand
  <2>2. CASE ReclaimStale
    BY <2>1, <2>2, ReclaimRow
  <2>3. CASE SkipOpen
    <3>1. CASE jobs[j].status \in Open
      <4>1. jobs[j] \in Row
        BY <3>1, RowStatus
      <4>. QED BY <2>1, <2>3, <3>1, <4>1 DEF SkipOpen, RowMoves, SkippedRow, Row
    <3>2. CASE jobs[j].status \notin Open
      BY <2>1, <2>3, <3>2, NoBatchNoneHeld DEF SkipOpen, RowMoves, SameRow, NotDropped
    <3>. QED BY <3>1, <3>2
  <2>. QED BY <1>12, <2>2, <2>3 DEF Starts
<1>. QED
  BY <1>1, <1>2, <1>3, <1>4, <1>5, <1>6, <1>7, <1>8, <1>9, <1>10, <1>11, <1>12
  DEF BatchNext, BatchStep

-----------------------------------------------------------------------------
(* The parts of the invariant, step by step. *)

\* What a step makes of the batch.
LEMMA BatchMoves ==
  ASSUME BatchAssumption, BatchType, BatchInHand, [BatchNext]_batchVars
  PROVE  \/ UNCHANGED batch
         \/ batch' = <<>>
         \/ batch # <<>> /\ batch' = Tail(batch)
         \/ \E S \in SUBSET Jobs : Claims(S)
  BY DEF BatchNext, BatchStep, Intake, PruneArtifact, TrimRow, WipeAll, Prune, BackoffPasses,
         Reclaims, LooksUp, Answers, Settles, SettlesInVain, Dies, Starts, Stops, batchVars,
         BatchInHand, Outcomes

\* Events are seen once and for all.
LEMMA SortMoves ==
  ASSUME BatchType, [BatchNext]_batchVars, NEW e \in Events, sort[e] # "unseen"
  PROVE  sort'[e] = sort[e]
<1>1. ASSUME NEW d \in Events, NEW s \in Sorts, Intake(d, s) PROVE sort'[e] = sort[e]
  BY <1>1 DEF Intake, BatchType
<1>2. CASE UNCHANGED sort
  BY <1>2
<1>. QED
  BY <1>1, <1>2
  DEF BatchNext, BatchStep, PruneArtifact, TrimRow, WipeAll, Prune, BackoffPasses, batchData,
      Reclaims, Claims, LooksUp, Answers, Settles, SettlesInVain, Dies, Starts, Stops, batchVars

LEMMA SeenStep ==
  ASSUME BatchAssumption, BatchType, BatchInHand, SeenOnly, BatchHoldsItsRows,
         [BatchNext]_batchVars
  PROVE  SeenOnly'
<1>1. ASSUME NEW j \in Jobs, jobs'[j] # NoRow PROVE sort'[j] # "unseen" /\ jobs'[j].event = j
  <2>1. RowMoves(j)
    BY RowMovesLemma
  <2>2. CASE TakenIn(j)
    BY <2>2 DEF TakenIn, Intake, BatchType, Sorts, BatchAssumption
  <2>3. CASE ~TakenIn(j)
    <3>1. jobs[j] # NoRow /\ jobs'[j].event = jobs[j].event
      BY <1>1, <2>1, <2>3, RowStatus
      DEF RowMoves, SameRow, ClaimedRow, SettledRow, Requeued, SkippedRow, BatchType, Open, NoRow
    <3>. QED BY <3>1, SortMoves DEF SeenOnly, BatchAssumption
  <2>. QED BY <2>2, <2>3
<1>2. ASSUME NEW i \in DOMAIN batch'
      PROVE  sort'[batch'[i].job] # "unseen" /\ batch'[i].event = batch'[i].job
  <2>1. ASSUME NEW k \in DOMAIN batch, batch'[i] = batch[k]
        PROVE  sort'[batch'[i].job] # "unseen" /\ batch'[i].event = batch'[i].job
    BY <2>1, BatchFacts, SortMoves DEF SeenOnly, BatchType, Entry, BatchAssumption
  <2>2. CASE UNCHANGED batch
    BY <1>2, <2>1, <2>2
  <2>3. CASE batch' = <<>>
    BY <1>2, <2>3
  <2>4. CASE batch # <<>> /\ batch' = Tail(batch)
    BY <1>2, <2>1, <2>4, TailFacts DEF BatchType
  <2>5. ASSUME NEW S \in SUBSET Jobs, Claims(S)
        PROVE  sort'[batch'[i].job] # "unseen" /\ batch'[i].event = batch'[i].job
    <3>1. IsFiniteSet(S) /\ (\A j \in S : Claimable(j)) /\ batch' \in Claimed(S)
      BY <2>5, FS_Subset DEF Claims, Claim, BatchAssumption
    <3>2. batch'[i].job \in S /\ batch'[i].event = jobs[batch'[i].job].event
      BY <1>2, <3>1, ClaimedFacts DEF BatchType
    <3>3. jobs[batch'[i].job] # NoRow
      BY <3>1, <3>2, RowStatus DEF Claimable, BatchType, Open
    <3>. QED BY <3>2, <3>3, SortMoves DEF SeenOnly, BatchAssumption
  <2>. QED BY <2>2, <2>3, <2>4, <2>5, BatchMoves
<1>. QED BY <1>1, <1>2 DEF SeenOnly

LEMMA NoneTwiceStep ==
  ASSUME BatchAssumption, BatchType, BatchInHand, NoneTwice, [BatchNext]_batchVars
  PROVE  NoneTwice'
<1>1. CASE UNCHANGED batch \/ batch' = <<>>
  BY <1>1 DEF NoneTwice
<1>2. CASE batch # <<>> /\ batch' = Tail(batch)
  <2>1. /\ \A i \in DOMAIN batch' : i + 1 \in DOMAIN batch /\ batch'[i] = batch[i + 1]
        /\ DOMAIN batch' \subseteq Nat
    BY <1>2, TailFacts, LenProperties DEF BatchType
  <2>2. \A i, j \in Nat : i # j => i + 1 # j + 1
    OBVIOUS
  <2>. QED BY <2>1, <2>2 DEF NoneTwice
<1>3. ASSUME NEW S \in SUBSET Jobs, Claims(S) PROVE NoneTwice'
  <2>1. IsFiniteSet(S)
    BY FS_Subset DEF BatchAssumption
  <2>. QED BY <1>3, <2>1, ClaimedFacts DEF Claims, Claim, BatchType, NoneTwice
<1>. QED BY <1>1, <1>2, <1>3, BatchMoves

\* No statement touches a row of a batch but the completion of the first, and that
\* takes it off the batch.
LEMMA HoldsStep ==
  ASSUME BatchAssumption, BatchType, BatchInHand, SeenOnly, NoneTwice, BatchHoldsItsRows,
         [BatchNext]_batchVars
  PROVE  BatchHoldsItsRows'
<1>. SUFFICES ASSUME NEW i \in DOMAIN batch', jobs'[batch'[i].job] # NoRow
     PROVE  LET r == jobs'[batch'[i].job] IN
              r.status = "running" /\ r.attempts = batch'[i].attempts /\ r.event = batch'[i].event
  BY DEF BatchHoldsItsRows
<1>. DEFINE w == batch'[i].job
<1>1. ASSUME NEW k \in DOMAIN batch, batch'[i] = batch[k], ~SettledRow(w)
      PROVE  /\ jobs'[w].status = "running" /\ jobs'[w].attempts = batch'[i].attempts
             /\ jobs'[w].event = batch'[i].event
  <2>1. w \in Jobs /\ w \in BatchHeld /\ batch # <<>>
    BY <1>1, BatchFacts DEF BatchType, BatchHeld, Entry
  <2>2. RowMoves(w)
    BY <2>1, RowMovesLemma
  <2>3. ~TakenIn(w)
    BY <1>1 DEF TakenIn, Intake, SeenOnly
  <2>4. SameRow(w)
    BY <1>1, <2>1, <2>2, <2>3 DEF RowMoves, ClaimedRow, Requeued, SkippedRow
  <2>. QED BY <1>1, <2>4 DEF SameRow, BatchHoldsItsRows
<1>2. CASE UNCHANGED batch
  <2>1. ~SettledRow(w)
    <3>1. ASSUME Settles PROVE FALSE
      <4>1. batch # <<>> /\ batch' = Tail(batch)
        BY <3>1 DEF Settles, BatchInHand, Outcomes
      <4>2. Len(batch') = Len(batch) - 1 /\ Len(batch) \in Nat
        BY <4>1, TailFacts, BatchFacts DEF BatchType
      <4>. QED BY <1>2, <4>2
    <3>. QED BY <3>1 DEF SettledRow
  <2>. QED BY <1>1, <1>2, <2>1
<1>3. CASE batch # <<>> /\ batch' = Tail(batch)
  <2>1. i + 1 \in DOMAIN batch /\ batch'[i] = batch[i + 1] /\ i \in Nat /\ i # 0 /\ 1 \in DOMAIN batch
    BY <1>3, TailFacts, BatchFacts, LenProperties DEF BatchType
  <2>2. w # batch[1].job
    BY <2>1 DEF NoneTwice
  <2>. QED BY <1>1, <2>1, <2>2 DEF SettledRow
<1>4. ASSUME NEW S \in SUBSET Jobs, Claims(S)
      PROVE  /\ jobs'[w].status = "running" /\ jobs'[w].attempts = batch'[i].attempts
             /\ jobs'[w].event = batch'[i].event
  <2>1. IsFiniteSet(S) /\ Claim(S) /\ batch' \in Claimed(S)
    BY <1>4, FS_Subset DEF Claims, BatchAssumption
  <2>2. /\ w \in S /\ batch'[i].event = jobs[w].event
        /\ batch'[i].attempts = jobs[w].attempts + 1
    BY <2>1, ClaimedFacts DEF BatchType, Claim
  <2>3. jobs[w] \in Row
    BY <2>1, <2>2, RowStatus DEF Claim, Claimable, BatchType, Open
  <2>. QED BY <2>1, <2>2, <2>3 DEF Claim, Row
<1>. QED BY <1>1, <1>2, <1>3, <1>4, BatchMoves

\* Faults are counted one by one.
LEMMA BreaksMoves ==
  ASSUME [BatchNext]_batchVars
  PROVE  \/ UNCHANGED breaks
         \/ breaks' = breaks + 1
  BY DEF BatchNext, BatchStep, Intake, PruneArtifact, TrimRow, WipeAll, Prune, BackoffPasses,
         Reclaims, Claims, LooksUp, Answers, Settles, SettlesInVain, Dies, Starts, Stops, batchVars

\* A row is stranded by a step that lets go of it unsettled: one fault lets go of one
\* batch at most.
LEMMA StrandStep ==
  ASSUME BatchAssumption, BatchType, BatchInHand, SeenOnly, BatchHoldsItsRows,
         StrandBounded, [BatchNext]_batchVars
  PROVE  StrandBounded'
<1>. DEFINE n == breaks * BatchSize
<1>0. breaks \in Nat /\ BatchSize \in Nat
  BY DEF BatchType, BatchAssumption
<1>1. n \in Nat
  BY <1>0
<1>2. IsFiniteSet(Stranded) /\ Cardinality(Stranded) <= n
  BY DEF StrandBounded, BatchStrandBounded, Stranded
<1>3. IsFiniteSet(BatchHeld) /\ Cardinality(BatchHeld) <= BatchSize
  <2>1. IsFiniteSet(BatchHeld) /\ Cardinality(BatchHeld) <= Len(batch)
    BY HeldBounded DEF BatchType
  <2>2. Cardinality(BatchHeld) \in Nat /\ Len(batch) \in Nat /\ Len(batch) <= BatchSize
    BY <2>1, FS_CardinalityType, BatchFacts DEF BatchType
  <2>. QED BY <1>0, <2>1, <2>2
<1>4. ASSUME NEW j \in Jobs, jobs'[j].status = "running", j \notin BatchHeld'
      PROVE  j \in Stranded \/ (j \in BatchHeld /\ breaks' = breaks + 1)
  <2>1. RowMoves(j)
    BY RowMovesLemma
  <2>2. ~SettledRow(j)
    BY <1>4, SettledAsType DEF SettledRow, Settled
  <2>3. SameRow(j) /\ NotDropped(j)
    BY <1>4, <2>1, <2>2 DEF RowMoves, TakenIn, ClaimedRow, Requeued, SkippedRow, NoRow
  <2>. QED BY <1>4, <2>3 DEF SameRow, NotDropped, Stranded, WithStatus
<1>5. CASE UNCHANGED breaks
  <2>1. Stranded' \in SUBSET Stranded
    BY <1>0, <1>4, <1>5 DEF Stranded, WithStatus
  <2>2. IsFiniteSet(Stranded') /\ Cardinality(Stranded') <= Cardinality(Stranded)
    BY <1>2, <2>1, FS_Subset
  <2>3. Cardinality(Stranded') \in Nat /\ Cardinality(Stranded) \in Nat
    BY <1>2, <2>2, FS_CardinalityType
  <2>4. Cardinality(Stranded') <= n
    BY <1>1, <1>2, <2>2, <2>3
  <2>. QED BY <1>5, <2>2, <2>4 DEF StrandBounded, BatchStrandBounded, Stranded
<1>6. CASE breaks' = breaks + 1
  <2>1. Stranded' \in SUBSET (Stranded \cup BatchHeld)
    BY <1>4 DEF Stranded, WithStatus
  <2>. HIDE DEF n
  <2>2. IsFiniteSet(Stranded') /\ Cardinality(Stranded') <= n + BatchSize
    BY <1>0, <1>1, <1>2, <1>3, <2>1, UnionBound
  <2>3. (breaks + 1) * BatchSize = n + BatchSize
    BY <1>0 DEF n
  <2>. QED BY <1>6, <2>2, <2>3 DEF StrandBounded, BatchStrandBounded, Stranded
<1>. QED BY <1>5, <1>6, BreaksMoves

(***************************************************************************)
(* A claim spends the attempt that a row nobody holds has to spare; a row  *)
(* that is let go of has one left because handle_job compared it with      *)
(* max_attempts, or because the fault that dropped it raises the allowance.*)
(***************************************************************************)
LEMMA BudgetStep ==
  ASSUME BatchAssumption, BatchType, BatchInHand, SeenOnly, BatchHoldsItsRows,
         BatchRetryBudget, BatchSpare, [BatchNext]_batchVars
  PROVE  BatchRetryBudget' /\ BatchSpare'
<1>a. /\ MaxAttempts \in Nat /\ MaxAttempts > 0 /\ breaks \in Nat
      /\ breaks' \in Nat /\ breaks' >= breaks
  BY BreaksMoves DEF BatchAssumption, BatchType
<1>. SUFFICES ASSUME NEW j \in Jobs, jobs'[j] # NoRow
     PROVE  /\ jobs'[j].attempts <= MaxAttempts + breaks'
            /\ jobs'[j].status \in Open /\ j \notin BatchHeld' =>
                 jobs'[j].attempts < MaxAttempts + breaks'
  BY DEF BatchRetryBudget, BatchSpare, WithStatus, NoRow, Open
<1>0. jobs[j] # NoRow => jobs[j].attempts \in Nat /\ jobs[j].attempts <= MaxAttempts + breaks
  BY RowStatus DEF BatchType, Row, BatchRetryBudget
<1>1. RowMoves(j)
  BY RowMovesLemma
<1>b. jobs[j].status \in Open /\ j \notin BatchHeld => jobs[j].attempts < MaxAttempts + breaks
  BY DEF BatchSpare, WithStatus
<1>2. CASE SameRow(j) /\ NotDropped(j)
  <2>1. jobs[j].attempts \in Nat /\ jobs'[j].attempts = jobs[j].attempts
    BY <1>0, <1>2 DEF SameRow
  <2>. QED BY <1>a, <1>b, <1>0, <1>2, <2>1 DEF SameRow, NotDropped
<1>3. CASE TakenIn(j)
  <2>1. \A a, f \in Nat : a > 0 => 0 < a + f /\ 0 <= a + f
    OBVIOUS
  <2>2. 0 < MaxAttempts + breaks' /\ 0 <= MaxAttempts + breaks'
    BY <1>a, <2>1
  <2>. QED BY <1>3, <2>2 DEF TakenIn
<1>4. CASE ClaimedRow(j)
  <2>1. jobs[j].attempts < MaxAttempts + breaks
    BY <1>4, <1>b, NoBatchNoneHeld DEF ClaimedRow, Open
  <2>. QED BY <1>a, <1>0, <1>4, <2>1 DEF ClaimedRow, Row, NoRow
<1>5. CASE SettledRow(j)
  <2>1. 1 \in DOMAIN batch
    BY <1>5, BatchFacts DEF SettledRow, BatchType
  <2>2. jobs[j] # NoRow /\ jobs[j].attempts = batch[1].attempts
    BY <1>5, <2>1 DEF SettledRow, BatchHoldsItsRows, NoRow
  <2>3. jobs'[j].status \in Open => batch[1].attempts < MaxAttempts
    BY <1>a, <1>0, <1>5, <2>2, SettledAsType DEF SettledRow, Open, Settled
  <2>. QED BY <1>a, <1>0, <1>5, <2>2, <2>3 DEF SettledRow
<1>6. CASE Requeued(j)
  <2>1. jobs[j] # NoRow /\ jobs[j].attempts < MaxAttempts + breaks
    BY <1>6, <1>b DEF Requeued, Open, NoRow
  <2>. QED BY <1>a, <1>0, <1>6, <2>1 DEF Requeued
<1>7. CASE SkippedRow(j)
  BY <1>a, <1>0, <1>7 DEF SkippedRow, NoRow, Open
<1>. QED BY <1>1, <1>2, <1>3, <1>4, <1>5, <1>6, <1>7 DEF RowMoves

\* A transcript is looked for before the engine is called, and only the call under
\* way writes one.
LEMMA TranscribedStep ==
  ASSUME BatchInHand, TranscribedOnce, [BatchNext]_batchVars
  PROVE  TranscribedOnce'
<1>. SUFFICES ASSUME kind' = "asr", NEW e \in derived', batch' # <<>>, pc' = "slow", Event' = e
              PROVE  FALSE
  BY DEF TranscribedOnce
<1>1. CASE LooksUp
  BY <1>1 DEF LooksUp, batchData, Event
<1>2. CASE UNCHANGED <<kind, batch, pc>> /\ derived' \subseteq derived
  BY <1>2 DEF TranscribedOnce, Event
<1>3. CASE pc' # "slow"
  BY <1>3
<1>. QED
  BY <1>1, <1>2, <1>3
  DEF BatchNext, BatchStep, Intake, PruneArtifact, TrimRow, WipeAll, Prune, BackoffPasses, Writes,
      Reclaims, Claims, Answers, Settles, SettlesInVain, Dies, Starts, Stops, batchVars, batchData,
      BatchInHand

-----------------------------------------------------------------------------
(* The theorems. *)

\* The inductive invariant: every part of it is kept by every step of the intake,
\* maintenance, the worker, a crash and a start.
THEOREM Inductive == BatchSpec => []IInv
<1>1. BatchInit => IInv
  <2>. SUFFICES ASSUME BatchInit PROVE IInv
    OBVIOUS
  <2>1. \A j \in Jobs : jobs[j] = NoRow
    BY DEF BatchInit, EmptyTable
  <2>2. BatchType
    <3>1. JobTableType
      BY DEF BatchInit, EmptyTable, JobTableType
    <3>2. sort \in [Events -> Sort] /\ kind \in {"ax", "asr"} /\ pc = "next"
          /\ up = "down" /\ source = {} /\ derived = {} /\ breaks = 0 /\ batch = <<>>
      BY DEF BatchInit, Sort
    <3>3. <<>> \in Seq(Entry) /\ Len(<<>>) = 0 /\ 0 <= BatchSize
      BY EmptySeq, BatchAssumption DEF BatchAssumption
    <3>. QED BY <3>1, <3>2, <3>3 DEF BatchType
  <2>3. BatchInHand /\ SeenOnly /\ NoneTwice /\ BatchHoldsItsRows /\ TranscribedOnce
    BY <2>1 DEF BatchInit, BatchInHand, SeenOnly, NoneTwice, BatchHoldsItsRows, TranscribedOnce
  <2>4. BatchRetryBudget /\ BatchSpare
    BY <2>1 DEF BatchRetryBudget, BatchSpare, WithStatus, NoRow, Open
  <2>5. StrandBounded
    <3>1. Stranded = {}
      BY <2>1 DEF Stranded, WithStatus, NoRow
    <3>2. 0 <= breaks * BatchSize
      BY BatchAssumption DEF BatchInit, BatchAssumption
    <3>. QED BY <3>1, <3>2, FS_EmptySet DEF StrandBounded, BatchStrandBounded, Stranded
  <2>. QED BY <2>2, <2>3, <2>4, <2>5 DEF IInv
<1>2. IInv /\ [BatchNext]_batchVars => IInv'
  <2>. SUFFICES ASSUME IInv, [BatchNext]_batchVars PROVE IInv'
    OBVIOUS
  <2>1. BatchType' /\ BatchInHand'
    BY TypeStep, InHandStep, BatchAssumption DEF IInv
  <2>2. SeenOnly' /\ NoneTwice' /\ BatchHoldsItsRows'
    BY SeenStep, NoneTwiceStep, HoldsStep, BatchAssumption DEF IInv
  <2>3. StrandBounded' /\ BatchRetryBudget' /\ BatchSpare' /\ TranscribedOnce'
    BY StrandStep, BudgetStep, TranscribedStep, BatchAssumption DEF IInv
  <2>. QED BY <2>1, <2>2, <2>3 DEF IInv
<1>. QED BY <1>1, <1>2, PTL DEF BatchSpec

\* The rows and the batch account for each other: the rows of a batch are as their
\* claim left them, strays are counted by faults, attempts are bounded, and no
\* transcript is made twice.
THEOREM BatchKept == BatchSpec => []BatchAccounted
BY Inductive, PTL DEF IInv, BatchAccounted, StrandBounded

\* Seen from the outside the workers serve the abstract queue: an event that was
\* taken in stays queued until its job settles, and it settles once.
THEOREM BatchImplementsQueue == BatchSpec => ImplementsQueue
<1>1. BatchInit => Queue!QueueInit
  BY EmptyQueue DEF BatchInit
<1>2. IInv /\ [BatchNext]_batchVars => [Queue!QueueNext]_Items
  BY NextIsQueueStatement, QueueStep, BatchAssumption DEF IInv, BatchType
<1>. QED BY <1>1, <1>2, Inductive, PTL DEF BatchSpec, ImplementsQueue, Queue!QueueSafe, Items

=============================================================================
