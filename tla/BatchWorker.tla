----------------------------- MODULE BatchWorker ----------------------------
(***************************************************************************)
(* The two workers that claim a whole batch of jobs at once and run it in  *)
(* order: AxWorker over ax_screen jobs and TranscribeWorker over           *)
(* transcribe_audio jobs.  Both share one loop; they differ in what they   *)
(* look up before the slow call, in how they answer a failure, and in the  *)
(* results for which they write no derived row.  An event is queued once,  *)
(* when it is stored, so its job goes by its name.                         *)
(*                                                                         *)
(* Each event is of a sort that decides what its processing can find.  Its *)
(* media may be pruned, its row trimmed and everything wiped meanwhile.    *)
(***************************************************************************)
EXTENDS JobTable, FiniteSets, SequencesExt

CONSTANTS
  MaxAttempts,    \* max_attempts
  BatchSize,      \* batch_size
  MaxBreaks       \* bound: crashes and lost completions

ASSUME BatchAssumption ==
  /\ Jobs = Events /\ IsFiniteSet(Jobs)
  /\ MaxAttempts \in Nat \ {0} /\ BatchSize \in Nat \ {0} /\ MaxBreaks \in Nat

VARIABLES
  kind,      \* "ax" or "asr": which of the two workers this is
  sort,      \* sort[e]: "unseen", or one of Sorts
  source,    \* events whose event row (ax) or artifact row (asr) is there
  derived,   \* events with an ax.v1 or a transcript.v1 row
  batch,     \* the claimed jobs still to run, [job, event, attempts]
  pc,        \* what happens to the first: "next", "slow", or an outcome
  up,        \* "running", "idle" (no engine), "disabled" or "down"
  breaks

batchVars == <<jobs, kind, sort, source, derived, batch, pc, up, breaks>>
batchData == <<kind, sort, source, derived>>

\* Screenshots: of a window, of a browser, without a pid.  Recordings: of
\* speech, of noise, or that no engine accepts.
Sorts == IF kind = "ax" THEN {"window", "browser", "nopid"}
         ELSE {"speech", "noise", "invalid"}

Outcomes == {"done", "permanent", "unavailable", "retry"}

BatchTypeOK ==
  /\ JobTableType
  /\ sort \in [Events -> {"unseen"} \cup Sorts]
  /\ source \cup derived \subseteq {e \in Events : sort[e] # "unseen"}
  /\ Len(batch) <= BatchSize
  /\ pc \in {"next", "slow"} \cup Outcomes
  /\ (batch = <<>> \/ up # "running") => pc = "next"

BatchInit ==
  /\ EmptyTable
  /\ kind \in {"ax", "asr"}
  /\ sort = [e \in Events |-> "unseen"]
  /\ source = {} /\ derived = {}
  /\ batch = <<>> /\ pc = "next" /\ up = "down" /\ breaks = 0

-----------------------------------------------------------------------------
(* Intake and maintenance. *)

\* put_and_append, then enqueue_job.  A disabled ax queues
\* nothing; audio.enqueue_transcribe does not look at asr.enabled.
Intake(e, s) ==
  /\ up \in {"running", "idle"} \/ (up = "disabled" /\ kind = "asr")
  /\ sort[e] = "unseen"
  /\ sort' = [sort EXCEPT ![e] = s]
  /\ source' = source \cup {e}
  /\ Enqueue(e, e)
  /\ UNCHANGED <<kind, derived, batch, pc, up, breaks>>

\* A media tier deletes the recording alone: an ax job needs the event only.
PruneArtifact(e) ==
  /\ up # "down" /\ kind = "asr" /\ e \in source
  /\ source' = source \ {e}
  /\ UNCHANGED <<jobs, kind, sort, derived, batch, pc, up, breaks>>

\* The metadata trim takes the event with its artifact and derived rows.
TrimRow(e) ==
  /\ up # "down" /\ e \in source \cup derived
  /\ source' = source \ {e} /\ derived' = derived \ {e}
  /\ UNCHANGED <<jobs, kind, sort, batch, pc, up, breaks>>

WipeAll ==
  /\ up # "down"
  /\ DeleteAll
  /\ source' = {} /\ derived' = {}
  /\ UNCHANGED <<kind, sort, batch, pc, up, breaks>>

Prune ==
  /\ up # "down" /\ PruneCompleted
  /\ UNCHANGED <<batchData, batch, pc, up, breaks>>

BackoffPasses(j) ==
  /\ BackoffElapses(j) \/ Ages(j)
  /\ UNCHANGED <<batchData, batch, pc, up, breaks>>

-----------------------------------------------------------------------------
(* The worker. *)

\* What a claim returns of the rows in S, in some order.
Claimed(S) ==
  {[i \in DOMAIN b |-> [job |-> b[i], event |-> jobs[b[i]].event, attempts |-> jobs[b[i]].attempts + 1]]
     : b \in SetToSeqs(S)}

\* claim_pending_jobs: as many due rows as the batch holds, all at once.
Claims(S) ==
  /\ up = "running" /\ batch = <<>>
  /\ S # {} /\ Claim(S)
  /\ \/ Cardinality(S) = BatchSize
     \/ Cardinality(S) < BatchSize /\ \A j \in Jobs : Claimable(j) => j \in S
  /\ batch' \in Claimed(S)
  /\ UNCHANGED <<batchData, pc, up, breaks>>

\* reclaim_stale, at the start of a tick.
ReclaimsAnytime ==      \* on a timer of its own
  /\ up = "running"
  /\ \E j \in Jobs : StaleRunning(j)
  /\ ReclaimStale
  /\ UNCHANGED <<batchData, batch, pc, up, breaks>>

ReclaimsWhenBusy ==     \* after a claim that found something
  /\ up = "running" /\ batch # <<>> /\ pc = "next"
  /\ \E j \in Jobs : StaleRunning(j)
  /\ ReclaimStale
  /\ UNCHANGED <<batchData, batch, pc, up, breaks>>

Reclaims ==
  /\ up = "running" /\ batch = <<>>
  /\ \E j \in Jobs : StaleRunning(j)
  /\ ReclaimStale
  /\ UNCHANGED <<batchData, batch, pc, up, breaks>>

Event == batch[1].event

\* process_job up to its slow call.  AxWorker reads the payload: a row that is
\* gone or has no pid is an error, a browser is done without a walk.
\* TranscribeWorker looks for a transcript, then for the recording.
LooksUp ==
  /\ up = "running" /\ batch # <<>> /\ pc = "next"
  /\ pc' = IF kind = "ax"
           THEN IF Event \notin source \/ sort[Event] = "nopid" THEN "permanent"
                ELSE IF sort[Event] = "browser" THEN "done" ELSE "slow"
           ELSE IF Event \in derived THEN "done"
                ELSE IF Event \in source THEN "slow" ELSE "permanent"
  /\ UNCHANGED <<jobs, batchData, batch, up, breaks>>

Writes(e) == derived' = derived \cup {e} /\ pc' = "done"

\* The walk or the transcription answers.  A window that is gone meanwhile leaves
\* an empty ax.v1 row like any other, a recording without words leaves none.
Answers ==
  /\ up = "running" /\ pc = "slow"
  /\ \/ sort[Event] \in {"window", "speech"} /\ Writes(Event)
     \/ sort[Event] = "noise" /\ pc' = "done" /\ UNCHANGED derived
     \/ sort[Event] = "invalid" /\ pc' = "permanent" /\ UNCHANGED derived
     \/ pc' = "retry" /\ UNCHANGED derived
     \/ kind = "ax" /\ pc' = "unavailable" /\ UNCHANGED derived
  /\ UNCHANGED <<jobs, kind, sort, source, batch, up, breaks>>

\* The status handle_job settles the first job of the batch with.  AxWorker
\* does not look at `permanent`: it retries such a job like any other.
SettledAs ==
  CASE pc = "done" -> "done"
    [] pc = "unavailable" -> "skipped"
    [] pc = "permanent" /\ kind = "asr" -> "dead"
    [] OTHER -> IF batch[1].attempts >= MaxAttempts THEN "dead" ELSE "pending"

Settles ==
  /\ up = "running" /\ pc \in Outcomes
  /\ Complete(batch[1].job, SettledAs, SettledAs # "pending")
  /\ batch' = Tail(batch) /\ pc' = "next"
  /\ UNCHANGED <<batchData, up, breaks>>

\* complete_job's error is dropped.
SettlesInVain ==
  /\ up = "running" /\ pc \in Outcomes /\ breaks < MaxBreaks
  /\ breaks' = breaks + 1
  /\ batch' = Tail(batch) /\ pc' = "next"
  /\ UNCHANGED <<jobs, batchData, up>>

\* The end of the process between two steps of a batch.
Dies ==
  /\ up # "down" /\ breaks < MaxBreaks
  /\ breaks' = breaks + 1
  /\ up' = "down" /\ batch' = <<>> /\ pc' = "next"
  /\ UNCHANGED <<jobs, batchData>>

\* recover_after_unclean_shutdown: rows of a kind that is disabled are skipped.
\* Enabled without an engine (or without the computer-use server that walks the
\* trees), no worker runs and the rows wait.
Starts(as) ==
  /\ up = "down" /\ up' = as
  /\ IF as = "disabled" THEN SkipOpen ELSE ReclaimStale
  /\ UNCHANGED <<batchData, batch, pc, breaks>>

Stops ==
  /\ up \in {"idle", "disabled"} /\ up' = "down"
  /\ UNCHANGED <<jobs, batchData, batch, pc, breaks>>

BatchStep ==
  \/ Reclaims
  \/ \E S \in SUBSET Jobs : Claims(S)
  \/ LooksUp \/ Answers \/ Settles

BatchNext ==
  \/ \E e \in Events, s \in Sorts : Intake(e, s)
  \/ \E e \in Events : PruneArtifact(e) \/ TrimRow(e)
  \/ WipeAll \/ Prune
  \/ \E j \in Jobs : BackoffPasses(j)
  \/ BatchStep \/ SettlesInVain \/ Dies
  \/ \E as \in {"running", "idle", "disabled"} : Starts(as)
  \/ Stops

BatchSpec == BatchInit /\ [][BatchNext]_batchVars

-----------------------------------------------------------------------------
(* Properties. *)

BatchHeld == {batch[i].job : i \in DOMAIN batch}

\* Every job of the batch, the ones that still wait their turn included, is the
\* running row its claim left, or was deleted: a slow call before them, however
\* long, does not let the reclaim hand them out a second time.
BatchHoldsItsRows ==
  \A i \in DOMAIN batch :
    LET row == jobs[batch[i].job] IN
      row # NoRow => row.status = "running" /\ row.attempts = batch[i].attempts
                     /\ row.event = batch[i].event

\* A running row no worker holds was left by a fault: a whole batch by a crash,
\* one row by a completion that failed.
BatchStrandBounded == Cardinality(WithStatus({"running"}) \ BatchHeld) <= breaks * BatchSize

\* A job uses up one attempt more than max_attempts per fault, whatever the
\* failures: this is what bounds the retries of an ax job that can never
\* succeed.
BatchRetryBudget ==
  \A j \in Jobs : jobs[j] # NoRow => jobs[j].attempts <= MaxAttempts + breaks

\* A transcript is never written over: once an event has its row, no later run
\* of its job calls the engine again.  (Walks are repeated.)
TranscribedOnce ==
  kind = "asr" => \A e \in derived :
    ~(batch # <<>> /\ pc = "slow" /\ Event = e)

\* The rows and the batch in the worker's hands account for each other.
BatchAccounted ==
  BatchHoldsItsRows /\ BatchStrandBounded /\ BatchRetryBudget /\ TranscribedOnce

\* With a worker, every open job is settled in the end, through failures,
\* backoffs, crashes and reclaims.
BatchSettles ==
  \A j \in Jobs : (jobs[j].status \in Open) ~> (jobs[j].status \notin Open \/ up \in {"idle", "disabled"})

=============================================================================
