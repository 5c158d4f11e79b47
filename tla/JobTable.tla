------------------------------ MODULE JobTable ------------------------------
(***************************************************************************)
(* The `jobs` table of lumen-store, restricted to one job kind.            *)
(*                                                                         *)
(* A row is the record [status, event, attempts, due, aged]: `due` stands  *)
(* for available_at <= now, and `aged` for an updated_at that fell behind  *)
(* the cutoff its status is compared with (stale_running for a running     *)
(* row, jobs_retention_hours for a done or skipped one).  Every operator   *)
(* below is one SQL statement or transaction run under the store's         *)
(* connection mutex, hence one step.                                       *)
(***************************************************************************)
EXTENDS Naturals

CONSTANTS
  Jobs,        \* job row ids
  Events       \* event ids

VARIABLE jobs

Open    == {"pending", "running"}
Settled == {"done", "dead", "skipped"}

Row   == [status : Open \cup Settled, event : Events, attempts : Nat,
          due : BOOLEAN, aged : BOOLEAN]
NoRow == [status |-> "absent"]

JobTableType == jobs \in [Jobs -> Row \cup {NoRow}]

EmptyTable == jobs = [j \in Jobs |-> NoRow]

WithStatus(S) == {j \in Jobs : jobs[j].status \in S}

OpenFor(e) == {j \in WithStatus(Open) : jobs[j].event = e}

(***************************************************************************)
(* enqueue_job: the partial unique index over open rows makes the INSERT   *)
(* fail, which the code answers with Ok(None), when the event already has  *)
(* an open job.                                                            *)
(***************************************************************************)
Enqueue(j, e) ==
  /\ jobs[j] = NoRow
  /\ OpenFor(e) = {}
  /\ jobs' = [jobs EXCEPT ![j] = [status |-> "pending", event |-> e, attempts |-> 0,
                                  due |-> TRUE, aged |-> FALSE]]

\* A row claim_pending_jobs may take; which due row comes first is left open.
Claimable(j) == jobs[j].status = "pending" /\ jobs[j].due

ClaimUncounted(S) ==        \* without attempts = attempts + 1
  /\ \A j \in S : Claimable(j)
  /\ jobs' = [j \in Jobs |->
       IF j \in S THEN [jobs[j] EXCEPT !.status = "running", !.aged = FALSE] ELSE jobs[j]]

Claim(S) ==
  /\ \A j \in S : Claimable(j)
  /\ jobs' = [j \in Jobs |->
       IF j \in S
       THEN [jobs[j] EXCEPT !.status = "running", !.attempts = @ + 1, !.aged = FALSE]
       ELSE jobs[j]]

(***************************************************************************)
(* complete_job_at updates the row by id whatever its status is, and no    *)
(* row when maintenance or a wipe deleted it.  Re-opening a row of an      *)
(* event that has another open one violates the index: the statement fails *)
(* and the worker ignores the error.                                       *)
(***************************************************************************)
Complete(j, s, dueNow) ==
  IF \/ jobs[j] = NoRow
     \/ s \in Open /\ OpenFor(jobs[j].event) \ {j} # {}
  THEN UNCHANGED jobs
  ELSE jobs' = [jobs EXCEPT ![j] = [@ EXCEPT !.status = s, !.due = dueNow, !.aged = FALSE]]

\* reclaim_stale_running_on: a stale running row becomes due again, whatever
\* number of attempts it has used.
StaleAny(j) == jobs[j] # NoRow /\ jobs[j].aged   \* without status = 'running'

StaleRunning(j) == jobs[j].status = "running" /\ jobs[j].aged

ReclaimStale ==
  jobs' = [j \in Jobs |->
    IF StaleRunning(j)
    THEN [jobs[j] EXCEPT !.status = "pending", !.due = TRUE, !.aged = FALSE]
    ELSE jobs[j]]

\* skip_pending_jobs, and the same UPDATE inside boot recovery.
SkipOpen ==
  jobs' = [j \in Jobs |->
    IF jobs[j].status \in Open
    THEN [jobs[j] EXCEPT !.status = "skipped", !.aged = FALSE]
    ELSE jobs[j]]

\* prune_completed_jobs: dead rows are kept for ever.
Prunable(j) == jobs[j].status \in {"done", "skipped"} /\ jobs[j].aged

PruneCompleted ==
  /\ \E j \in Jobs : Prunable(j)
  /\ jobs' = [j \in Jobs |-> IF Prunable(j) THEN NoRow ELSE jobs[j]]

\* The DELETE FROM jobs of wipe_sync.
DeleteAll == jobs' = [j \in Jobs |-> NoRow]

\* Time passing: a backoff ends, and an untouched row falls behind its cutoff.
BackoffElapses(j) ==
  /\ jobs[j].status = "pending" /\ ~jobs[j].due
  /\ jobs' = [jobs EXCEPT ![j] = [@ EXCEPT !.due = TRUE]]

Ages(j) ==
  /\ jobs[j].status \in {"running", "done", "skipped"} /\ ~jobs[j].aged
  /\ jobs' = [jobs EXCEPT ![j] = [@ EXCEPT !.aged = TRUE]]

-----------------------------------------------------------------------------
(***************************************************************************)
(* The table on its own: clients that enqueue, claim, complete and reclaim *)
(* in any order, a completion arriving however late.                       *)
(***************************************************************************)
TableNext ==
  \/ \E j \in Jobs, e \in Events : Enqueue(j, e)
  \/ \E S \in SUBSET Jobs : Claim(S)
  \/ \E j \in Jobs, s \in Settled \cup {"pending"}, d \in BOOLEAN : Complete(j, s, d)
  \/ ReclaimStale \/ SkipOpen \/ PruneCompleted \/ DeleteAll
  \/ \E j \in Jobs : BackoffElapses(j) \/ Ages(j)

TableSpec == EmptyTable /\ [][TableNext]_jobs

\* "One open job per event" (docs/OCR_PRODUCT.md), across claims, retries,
\* reclaims and restarts: nothing re-opens a row beside another open one, not
\* even a completion that comes after the event was enqueued again.
OneOpenJob ==
  \A i, j \in WithStatus(Open) : jobs[i].event = jobs[j].event => i = j

-----------------------------------------------------------------------------
(***************************************************************************)
(* What the rows mean to those who queue work: the abstract queue of       *)
(* WorkQueue, below which claims, attempts and backoffs disappear.  The    *)
(* table alone does not keep its promise (a completion may re-open a       *)
(* settled row); a worker that holds its row until it settles it does.     *)
(***************************************************************************)
ItemOf(r) == IF r = NoRow THEN "absent"
             ELSE IF r.status \in Open THEN "open" ELSE "settled"

Queue == INSTANCE WorkQueue WITH Items <- Jobs, item <- [j \in Jobs |-> ItemOf(jobs[j])]

\* Every step of a worker, a reclaim, a prune or a restart is a step of the
\* abstract queue: an item settles once and is never opened again.
ImplementsQueue == Queue!QueueSafe

=============================================================================
