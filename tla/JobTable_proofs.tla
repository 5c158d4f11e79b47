--------------------------- MODULE JobTable_proofs ---------------------------
(* What each statement on the jobs table does to the table's type and to the *)
(* one-open-job index, for every set of jobs and events.                     *)
EXTENDS JobTable, FiniteSetTheorems, TLAPS

\* A row is told from a hole by its status, and a row has every field.
LEMMA RowStatus ==
  ASSUME JobTableType, NEW j \in Jobs
  PROVE  /\ jobs[j] = NoRow <=> jobs[j].status = "absent"
         /\ jobs[j] # NoRow <=> jobs[j] \in Row
         /\ jobs[j].status \in Open \cup Settled => jobs[j] \in Row
  BY DEF JobTableType, Row, NoRow, Open, Settled

\* The updates the statements make leave a row a row.
LEMMA RowUpdates ==
  ASSUME NEW r \in Row, NEW s \in Open \cup Settled, NEW d \in BOOLEAN, NEW a \in BOOLEAN
  PROVE  /\ [r EXCEPT !.status = s, !.due = d, !.aged = a] \in Row
         /\ [r EXCEPT !.status = s, !.attempts = @ + 1, !.aged = a] \in Row
         /\ [r EXCEPT !.status = s, !.aged = a] \in Row
         /\ [r EXCEPT !.due = d] \in Row
         /\ [r EXCEPT !.aged = a] \in Row
<1>1. [r EXCEPT !.status = s, !.due = d, !.aged = a] \in Row
  BY DEF Row
<1>2. [r EXCEPT !.status = s, !.attempts = @ + 1, !.aged = a] \in Row
  <2>1. r.attempts + 1 \in Nat
    BY DEF Row
  <2>2. \A n \in Nat : [r EXCEPT !.status = s, !.attempts = n, !.aged = a] \in Row
    BY DEF Row
  <2>. QED BY <2>1, <2>2
<1>3. [r EXCEPT !.status = s, !.aged = a] \in Row
  BY DEF Row
<1>4. [r EXCEPT !.due = d] \in Row /\ [r EXCEPT !.aged = a] \in Row
  BY DEF Row
<1>. QED BY <1>1, <1>2, <1>3, <1>4

\* Every statement of the table keeps its type: rows are only ever replaced by
\* rows or deleted.
LEMMA TableTypeKept ==
  ASSUME JobTableType, [TableNext]_jobs
  PROVE  JobTableType'
<1>1. ASSUME NEW j \in Jobs, NEW e \in Events, Enqueue(j, e) PROVE JobTableType'
  BY <1>1 DEF Enqueue, JobTableType, Row, Open
<1>2. ASSUME NEW S \in SUBSET Jobs, Claim(S) PROVE JobTableType'
  <2>1. \A j \in S : jobs[j] \in Row
    BY <1>2, RowStatus DEF Claim, Claimable, Open
  <2>2. \A j \in S :
          [jobs[j] EXCEPT !.status = "running", !.attempts = @ + 1, !.aged = FALSE] \in Row
    BY <2>1, RowUpdates DEF Open
  <2>. QED BY <1>2, <2>2 DEF Claim, JobTableType
<1>3. ASSUME NEW j \in Jobs, NEW s \in Settled \cup {"pending"}, NEW d \in BOOLEAN,
             Complete(j, s, d)
      PROVE  JobTableType'
  <2>1. CASE UNCHANGED jobs
    BY <2>1 DEF JobTableType
  <2>2. CASE /\ jobs[j] # NoRow
             /\ jobs' = [jobs EXCEPT ![j] = [@ EXCEPT !.status = s, !.due = d, !.aged = FALSE]]
    <3>1. [jobs[j] EXCEPT !.status = s, !.due = d, !.aged = FALSE] \in Row
      BY <2>2, RowStatus, RowUpdates DEF Open
    <3>. QED BY <2>2, <3>1 DEF JobTableType
  <2>. QED BY <1>3, <2>1, <2>2 DEF Complete
<1>4. ASSUME ReclaimStale PROVE JobTableType'
  BY <1>4, RowStatus DEF ReclaimStale, StaleRunning, JobTableType, Row, Open
<1>5. ASSUME SkipOpen PROVE JobTableType'
  BY <1>5, RowStatus DEF SkipOpen, JobTableType, Row, Settled
<1>6. ASSUME PruneCompleted PROVE JobTableType'
  BY <1>6 DEF PruneCompleted, JobTableType
<1>7. ASSUME DeleteAll PROVE JobTableType'
  BY <1>7 DEF DeleteAll, JobTableType
<1>8. ASSUME NEW j \in Jobs, BackoffElapses(j) PROVE JobTableType'
  BY <1>8, RowStatus DEF BackoffElapses, JobTableType, Row, Open
<1>9. ASSUME NEW j \in Jobs, Ages(j) PROVE JobTableType'
  BY <1>9, RowStatus DEF Ages, JobTableType, Row, Open, Settled
<1>10. ASSUME UNCHANGED jobs PROVE JobTableType'
  BY <1>10 DEF JobTableType
<1>. QED
  BY <1>1, <1>2, <1>3, <1>4, <1>5, <1>6, <1>7, <1>8, <1>9, <1>10 DEF TableNext

(***************************************************************************)
(* The partial unique index: no statement brings two open rows for one     *)
(* event.  Claims and reclaims move rows inside Open, a completion or an   *)
(* insertion that would add a second open row fails.                       *)
(***************************************************************************)
LEMMA OneOpenJobKept ==
  ASSUME JobTableType, OneOpenJob, [TableNext]_jobs
  PROVE  OneOpenJob'
<1>. DEFINE Fewer == \A i \in Jobs : jobs'[i].status \in Open =>
                       jobs[i].status \in Open /\ jobs'[i].event = jobs[i].event
<1>0. ASSUME Fewer PROVE OneOpenJob'
  BY <1>0 DEF OneOpenJob, WithStatus
<1>1. ASSUME NEW j \in Jobs, NEW e \in Events, Enqueue(j, e) PROVE OneOpenJob'
  BY <1>1 DEF Enqueue, OpenFor, OneOpenJob, WithStatus, JobTableType
<1>2. ASSUME NEW S \in SUBSET Jobs, Claim(S) PROVE OneOpenJob'
  <2>1. \A j \in S : jobs[j] \in Row
    BY <1>2, RowStatus DEF Claim, Claimable, Open
  <2>2. Fewer
    BY <1>2, <2>1 DEF Claim, Claimable, JobTableType, Row, Open
  <2>. QED BY <2>2, <1>0
<1>3. ASSUME NEW j \in Jobs, NEW s \in Settled \cup {"pending"}, NEW d \in BOOLEAN,
             Complete(j, s, d)
      PROVE  OneOpenJob'
  <2>1. CASE jobs[j] = NoRow \/ (s \in Open /\ OpenFor(jobs[j].event) \ {j} # {})
    <3>1. UNCHANGED jobs
      BY <1>3, <2>1 DEF Complete
    <3>. QED BY <3>1 DEF OneOpenJob, WithStatus
  <2>2. CASE ~(jobs[j] = NoRow \/ (s \in Open /\ OpenFor(jobs[j].event) \ {j} # {}))
    <3>1. jobs[j] \in Row /\ (s \in Open => OpenFor(jobs[j].event) \subseteq {j})
      BY <2>2, RowStatus
    <3>2. jobs' = [jobs EXCEPT ![j] = [@ EXCEPT !.status = s, !.due = d, !.aged = FALSE]]
      BY <1>3, <2>2 DEF Complete
    <3>3. /\ jobs'[j].status = s /\ jobs'[j].event = jobs[j].event
          /\ \A i \in Jobs \ {j} : jobs'[i] = jobs[i]
      BY <3>1, <3>2 DEF JobTableType, Row
    <3>. QED BY <3>1, <3>3 DEF OneOpenJob, OpenFor, WithStatus
  <2>. QED BY <2>1, <2>2
<1>4. ASSUME ReclaimStale PROVE OneOpenJob'
  <2>1. Fewer
    BY <1>4, RowStatus DEF ReclaimStale, StaleRunning, JobTableType, Row, Open
  <2>. QED BY <2>1, <1>0
<1>5. ASSUME SkipOpen PROVE OneOpenJob'
  <2>1. Fewer
    BY <1>5, RowStatus DEF SkipOpen, JobTableType, Row, Open
  <2>. QED BY <2>1, <1>0
<1>6. ASSUME PruneCompleted \/ DeleteAll PROVE OneOpenJob'
  <2>1. Fewer
    BY <1>6 DEF PruneCompleted, DeleteAll, Prunable, NoRow, Open
  <2>. QED BY <2>1, <1>0
<1>7. ASSUME NEW j \in Jobs, BackoffElapses(j) \/ Ages(j) PROVE OneOpenJob'
  <2>1. jobs[j] \in Row
    BY <1>7, RowStatus DEF BackoffElapses, Ages, Open, Settled
  <2>2. Fewer
    BY <1>7, <2>1 DEF BackoffElapses, Ages, JobTableType, Row
  <2>. QED BY <2>2, <1>0
<1>8. ASSUME UNCHANGED jobs PROVE OneOpenJob'
  BY <1>8 DEF OneOpenJob, WithStatus
<1>. QED
  BY <1>1, <1>2, <1>3, <1>4, <1>5, <1>6, <1>7, <1>8 DEF TableNext

\* Whatever its clients do, the table is well typed and no event has two open
\* jobs.
THEOREM TableSafe == TableSpec => [](JobTableType /\ OneOpenJob)
<1>1. EmptyTable => JobTableType /\ OneOpenJob
  BY DEF EmptyTable, JobTableType, OneOpenJob, WithStatus, NoRow, Open
<1>2. JobTableType /\ OneOpenJob /\ [TableNext]_jobs => (JobTableType /\ OneOpenJob)'
  BY TableTypeKept, OneOpenJobKept
<1>. QED BY <1>1, <1>2, PTL DEF TableSpec

-----------------------------------------------------------------------------
(* Counting rows. *)

\* What is left of a set that may have gained the members of another is bounded
\* by the two bounds together.
LEMMA UnionBound ==
  ASSUME NEW S, IsFiniteSet(S), NEW n \in Nat, Cardinality(S) <= n,
         NEW H, IsFiniteSet(H), NEW m \in Nat, Cardinality(H) <= m,
         NEW T \in SUBSET (S \cup H)
  PROVE  IsFiniteSet(T) /\ Cardinality(T) <= n + m
<1>1. /\ IsFiniteSet(S \cup H)
      /\ Cardinality(S \cup H) = Cardinality(S) + Cardinality(H) - Cardinality(S \cap H)
  BY FS_Union
<1>2. IsFiniteSet(S \cap H)
  <2>1. S \cap H \in SUBSET S
    OBVIOUS
  <2>. QED BY <2>1, FS_Subset
<1>3. IsFiniteSet(T) /\ Cardinality(T) <= Cardinality(S \cup H)
  BY <1>1, FS_Subset
<1>4. /\ Cardinality(S) \in Nat /\ Cardinality(H) \in Nat /\ Cardinality(T) \in Nat
      /\ Cardinality(S \cap H) \in Nat /\ Cardinality(S \cup H) \in Nat
  BY <1>1, <1>2, <1>3, FS_CardinalityType
<1>. QED BY <1>1, <1>3, <1>4

-----------------------------------------------------------------------------
(***************************************************************************)
(* The table as the abstract queue.  A statement requests one item, settles *)
(* one or all, forgets settled ones or everything, or is not seen above.   *)
(***************************************************************************)

\* A completion of a row that is open, or gone: what a client that holds its
\* row does.  The statement itself would also move a settled one.
CompleteOpen(j) ==
  /\ jobs[j] = NoRow \/ jobs[j].status \in Open
  /\ \E s \in Settled \cup {"pending"}, d \in BOOLEAN : Complete(j, s, d)

QueueStatement ==
  \/ \E j \in Jobs, e \in Events : Enqueue(j, e)
  \/ \E S \in SUBSET Jobs : Claim(S)
  \/ \E j \in Jobs : CompleteOpen(j)
  \/ ReclaimStale \/ SkipOpen \/ PruneCompleted \/ DeleteAll
  \/ \E j \in Jobs : BackoffElapses(j) \/ Ages(j)

Items == [j \in Jobs |-> ItemOf(jobs[j])]

\* What the item of a row is, of a row of each kind and of none.
LEMMA ItemOfRow ==
  ASSUME NEW r \in Row \cup {NoRow}
  PROVE  /\ ItemOf(r) = "absent" <=> r = NoRow
         /\ ItemOf(r) = "open" <=> r.status \in Open
         /\ ItemOf(r) = "settled" <=> r.status \in Settled
  BY DEF ItemOf, Row, NoRow, Open, Settled

\* ... and of anything with a status.
LEMMA ItemOfStatus ==
  ASSUME NEW q
  PROVE  /\ q.status \in Open => ItemOf(q) = "open"
         /\ q.status \in Settled => ItemOf(q) = "settled"
  BY DEF ItemOf, NoRow, Open, Settled

LEMMA EmptyQueue ==
  ASSUME EmptyTable
  PROVE  Queue!QueueInit
  BY DEF EmptyTable, ItemOf, Queue!QueueInit

\* Every statement of a client that completes open rows only is a step of the
\* queue, or none.
LEMMA QueueStep ==
  ASSUME JobTableType, QueueStatement \/ UNCHANGED jobs
  PROVE  [Queue!QueueNext]_Items
<1>0. \A j \in Jobs : jobs[j] \in Row \cup {NoRow}
  BY DEF JobTableType
<1>a. ASSUME \A j \in Jobs : ItemOf(jobs'[j]) = ItemOf(jobs[j])
      PROVE  UNCHANGED Items
  BY <1>a DEF Items
<1>1. ASSUME NEW j \in Jobs, NEW e \in Events, Enqueue(j, e) PROVE Queue!Request(j)
  <2>1. ItemOf(jobs[j]) = "absent" /\ ItemOf(jobs'[j]) = "open"
    BY <1>1 DEF Enqueue, ItemOf, NoRow, Open, JobTableType
  <2>2. \A i \in Jobs \ {j} : jobs'[i] = jobs[i]
    BY <1>1 DEF Enqueue, JobTableType
  <2>3. \A i \in Jobs : ItemOf(jobs'[i]) = IF i = j THEN "open" ELSE ItemOf(jobs[i])
    BY <2>1, <2>2
  <2>4. Items' = [Items EXCEPT ![j] = "open"]
    BY <2>3 DEF Items
  <2>. QED BY <2>1, <2>4 DEF Queue!Request, Items
<1>2. ASSUME NEW S \in SUBSET Jobs, Claim(S) PROVE UNCHANGED Items
  <2>1. ASSUME NEW j \in Jobs PROVE ItemOf(jobs'[j]) = ItemOf(jobs[j])
    <3>1. CASE j \in S
      <4>1. jobs[j] \in Row /\ jobs[j].status = "pending"
        BY <1>2, <3>1, RowStatus DEF Claim, Claimable, Open
      <4>2. jobs'[j].status = "running"
        BY <1>2, <3>1, <4>1 DEF Claim, Row
      <4>. QED BY <4>1, <4>2, ItemOfStatus DEF Open
    <3>. QED BY <1>2, <3>1 DEF Claim
  <2>. QED BY <2>1, <1>a
<1>3. ASSUME NEW j \in Jobs, CompleteOpen(j) PROVE Queue!Settle(j) \/ UNCHANGED Items
  <2>1. CASE UNCHANGED jobs
    BY <2>1 DEF Items
  <2>2. ASSUME NEW s \in Settled \cup {"pending"}, NEW d \in BOOLEAN, jobs[j].status \in Open,
               jobs' = [jobs EXCEPT ![j] = [@ EXCEPT !.status = s, !.due = d, !.aged = FALSE]]
        PROVE  Queue!Settle(j) \/ UNCHANGED Items
    <3>1. jobs[j] \in Row /\ ItemOf(jobs[j]) = "open"
      BY <2>2, RowStatus, ItemOfRow
    <3>3. /\ jobs'[j].status = s
          /\ \A i \in Jobs \ {j} : jobs'[i] = jobs[i]
      BY <2>2, <3>1 DEF JobTableType, Row
    <3>4. CASE s \in Settled
      <4>1. ItemOf(jobs'[j]) = "settled"
        BY <3>3, <3>4, ItemOfStatus
      <4>2. Items' = [Items EXCEPT ![j] = "settled"]
        BY <3>3, <4>1 DEF Items
      <4>. QED BY <3>1, <4>2 DEF Queue!Settle, Items
    <3>5. CASE s = "pending"
      <4>1. ItemOf(jobs'[j]) = "open"
        BY <3>3, <3>5, ItemOfStatus DEF Open
      <4>. QED BY <3>1, <3>3, <4>1, <1>a
    <3>. QED BY <3>4, <3>5
  <2>. QED BY <1>3, <2>1, <2>2 DEF CompleteOpen, Complete
<1>4. ASSUME ReclaimStale PROVE UNCHANGED Items
  <2>1. ASSUME NEW j \in Jobs PROVE ItemOf(jobs'[j]) = ItemOf(jobs[j])
    <3>1. CASE StaleRunning(j)
      <4>1. jobs[j] \in Row /\ jobs[j].status = "running"
        BY <3>1, RowStatus DEF StaleRunning, Open
      <4>2. jobs'[j].status = "pending"
        BY <1>4, <3>1, <4>1 DEF ReclaimStale, Row
      <4>. QED BY <4>1, <4>2, ItemOfStatus DEF Open
    <3>. QED BY <1>4, <3>1 DEF ReclaimStale
  <2>. QED BY <2>1, <1>a
<1>5. ASSUME SkipOpen PROVE Queue!SettleAll
  <2>1. ASSUME NEW j \in Jobs
        PROVE  ItemOf(jobs'[j]) = IF ItemOf(jobs[j]) = "open" THEN "settled" ELSE ItemOf(jobs[j])
    <3>1. CASE jobs[j].status \in Open
      <4>1. jobs[j] \in Row /\ ItemOf(jobs[j]) = "open"
        BY <3>1, RowStatus, ItemOfRow
      <4>2. jobs'[j].status = "skipped"
        BY <1>5, <3>1, <4>1 DEF SkipOpen, Row
      <4>. QED BY <4>1, <4>2, ItemOfStatus DEF Settled
    <3>2. CASE jobs[j].status \notin Open
      BY <1>0, <1>5, <3>2, ItemOfRow DEF SkipOpen
    <3>. QED BY <3>1, <3>2
  <2>. QED BY <2>1 DEF Queue!SettleAll
<1>6. ASSUME PruneCompleted
      PROVE  \E S \in SUBSET Queue!SettledItems : Queue!Forget(S)
  <2>. DEFINE S == {j \in Jobs : Prunable(j)}
  <2>1. \A j \in S : ItemOf(jobs[j]) = "settled"
    BY <1>0, ItemOfRow DEF Prunable, Settled
  <2>2. \A j \in Jobs : ItemOf(jobs'[j]) = IF j \in S THEN "absent" ELSE ItemOf(jobs[j])
    BY <1>6 DEF PruneCompleted, ItemOf
  <2>3. S \in SUBSET Queue!SettledItems
    BY <2>1 DEF Queue!SettledItems
  <2>4. Queue!Forget(S)
    BY <2>2 DEF Queue!Forget
  <2>. QED BY <2>3, <2>4
<1>7. ASSUME DeleteAll PROVE Queue!Forget(Jobs)
  BY <1>7 DEF DeleteAll, ItemOf, Queue!Forget
<1>8. ASSUME NEW j \in Jobs, BackoffElapses(j) \/ Ages(j) PROVE UNCHANGED Items
  <2>1. jobs[j] \in Row
    BY <1>8, RowStatus DEF BackoffElapses, Ages, Open, Settled
  <2>2. jobs'[j].status = jobs[j].status
    BY <1>8, <2>1 DEF BackoffElapses, Ages, Row, JobTableType
  <2>3. ItemOf(jobs'[j]) = ItemOf(jobs[j])
    BY <2>1, <2>2, ItemOfStatus DEF Row
  <2>4. \A i \in Jobs \ {j} : jobs'[i] = jobs[i]
    BY <1>8 DEF BackoffElapses, Ages, JobTableType
  <2>. QED BY <2>3, <2>4, <1>a
<1>9. ASSUME UNCHANGED jobs PROVE UNCHANGED Items
  BY <1>9 DEF Items
<1>. QED
  BY <1>1, <1>2, <1>3, <1>4, <1>5, <1>6, <1>7, <1>8, <1>9 DEF QueueStatement, Queue!QueueNext

=============================================================================
