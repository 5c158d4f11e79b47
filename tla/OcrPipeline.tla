----------------------------- MODULE OcrPipeline -----------------------------
(***************************************************************************)
(* From a persisted screenshot to its searchable text: the persist task    *)
(* that appends a frame and then enqueues its ocr_screen job, the OCR      *)
(* worker with its circuit breaker, the maintenance passes that delete     *)
(* rows under it, and a daemon that may crash between any two steps.       *)
(*                                                                         *)
(* One daemon runs one worker (a file lock keeps a second daemon out), so  *)
(* the worker's loop is one sequential process; the persist task, the      *)
(* maintenance pass and the control plane's wipe interleave with it.       *)
(***************************************************************************)
EXTENDS JobTable, FiniteSets

CONSTANTS
  MaxAttempts,       \* ocr.max_attempts
  BatchSize,         \* ocr.batch_size
  Threshold,         \* ocr.circuit_failure_threshold
  MaxFaults,         \* bound: crashes plus lost completions
  None               \* no event, no job

ASSUME OcrAssumption ==
  /\ MaxAttempts \in Nat \ {0} /\ BatchSize \in Nat \ {0} /\ Threshold \in Nat \ {0}
  /\ MaxFaults \in Nat
  /\ None \notin Jobs /\ None \notin Events

VARIABLES
  stage,      \* stage[e]: "unseen", "live" (event row present) or "gone"
  artifact,   \* artifact[e]: "none", "ok", or "lost" (row whose blob is gone)
  text,       \* events with an ocr.v1 row and its ocr_docs row
  toEnqueue,  \* the event the persist task appended and has not enqueued yet
  worker,     \* [pc, job, event, attempts, left, outcome]
  circuit,    \* [fails, cooling]
  up,         \* the daemon runs
  faults      \* number of injected faults so far

store    == <<stage, artifact, text>>
vars     == <<jobs, stage, artifact, text, toEnqueue, worker, circuit, up, faults>>

Busy == {"checking", "looking", "reading", "engine", "writing", "finishing"}

\* What process_job ended with; "retry" is a transient error.
Outcomes == {"none", "success", "already", "permanent", "unavailable", "retry"}

Off == [pc |-> "off", job |-> None, event |-> None, attempts |-> 0,
        left |-> 0, outcome |-> "none"]

Asleep == [Off EXCEPT !.pc = "asleep"]

CircuitClosed == [fails |-> 0, cooling |-> FALSE]

TypeOK ==
  /\ JobTableType
  /\ stage \in [Events -> {"unseen", "live", "gone"}]
  /\ artifact \in [Events -> {"none", "ok", "lost"}]
  /\ text \subseteq Events
  /\ toEnqueue \in Events \cup {None}
  /\ worker \in [pc : {"off", "asleep", "claiming"} \cup Busy,
                 job : Jobs \cup {None}, event : Events \cup {None},
                 attempts : Nat, left : 0 .. BatchSize, outcome : Outcomes]
  /\ circuit \in [fails : 0 .. Threshold, cooling : BOOLEAN]
  /\ up \in BOOLEAN
  /\ faults \in 0 .. MaxFaults

Init ==
  /\ EmptyTable
  /\ stage = [e \in Events |-> "unseen"]
  /\ artifact = [e \in Events |-> "none"]
  /\ text = {}
  /\ toEnqueue = None
  /\ worker = Off
  /\ circuit = CircuitClosed
  /\ up = FALSE
  /\ faults = 0

-----------------------------------------------------------------------------
(* The persist task. *)

\* put_and_append: event row, artifact row and blob appear together.
PersistFrame(e) ==
  /\ up /\ toEnqueue = None /\ stage[e] = "unseen"
  /\ stage' = [stage EXCEPT ![e] = "live"]
  /\ artifact' = [artifact EXCEPT ![e] = "ok"]
  /\ toEnqueue' = e
  /\ UNCHANGED <<jobs, text, worker, circuit, up, faults>>

\* enqueue_job for the frame just appended.  The id is a fresh UUID, so it is
\* never the one a worker still holds of a row that was deleted.
EnqueueOcr(j) ==
  /\ up /\ worker.pc # "off" /\ toEnqueue # None /\ j # worker.job
  /\ Enqueue(j, toEnqueue)
  /\ toEnqueue' = None
  /\ UNCHANGED <<store, worker, circuit, up, faults>>

\* The frame's pixel hash is in the recent window, or OCR is switched off.
SkipEnqueue ==
  /\ up /\ toEnqueue # None
  /\ toEnqueue' = None
  /\ UNCHANGED <<jobs, store, worker, circuit, up, faults>>

-----------------------------------------------------------------------------
(* The worker. *)

Goto(pc) == worker' = [worker EXCEPT !.pc = pc]

FinishWith(o) == worker' = [worker EXCEPT !.pc = "finishing", !.outcome = o]

\* Tick, had it left stale rows to the next boot.
TickNoReclaim ==
  /\ up /\ worker.pc = "asleep"
  /\ worker' = [Asleep EXCEPT !.pc = "claiming", !.left = BatchSize]
  /\ UNCHANGED <<jobs, store, toEnqueue, circuit, up, faults>>

\* tick_once starts: reclaim stale rows, then claim one row at a time.
Tick ==
  /\ up /\ worker.pc = "asleep"
  /\ ReclaimStale
  /\ worker' = [Asleep EXCEPT !.pc = "claiming", !.left = BatchSize]
  /\ UNCHANGED <<store, toEnqueue, circuit, up, faults>>

\* ClaimNext, had it claimed the whole batch before running it, and had it
\* looked at the circuit only after the claim.
ClaimBatch(j) ==
  /\ up /\ worker.pc = "claiming" /\ worker.left > 0 /\ ~circuit.cooling
  /\ Claimable(j) /\ Claim({i \in Jobs : Claimable(i)})
  /\ worker' = [worker EXCEPT !.pc = "checking", !.job = j, !.event = jobs[j].event,
                              !.attempts = jobs[j].attempts + 1, !.left = @ - 1]
  /\ UNCHANGED <<store, toEnqueue, circuit, up, faults>>

\* A cooling circuit is looked at before the claim, so it costs no attempt.
ClaimNext(j) ==
  /\ up /\ worker.pc = "claiming" /\ worker.left > 0 /\ ~circuit.cooling
  /\ Claim({j})
  /\ worker' = [worker EXCEPT !.pc = "checking", !.job = j, !.event = jobs[j].event,
                              !.attempts = jobs[j].attempts + 1, !.left = @ - 1]
  /\ UNCHANGED <<store, toEnqueue, circuit, up, faults>>

EndTick ==
  /\ up /\ worker.pc = "claiming"
  /\ \/ worker.left = 0
     \/ circuit.cooling
     \/ \A j \in Jobs : ~Claimable(j)
  /\ worker' = Asleep
  /\ UNCHANGED <<jobs, store, toEnqueue, circuit, up, faults>>

\* has_derived: text written before a crash or a lost completion is kept.
CheckDerived ==
  /\ up /\ worker.pc = "checking"
  /\ IF worker.event \in text THEN FinishWith("already") ELSE Goto("looking")
  /\ UNCHANGED <<jobs, store, toEnqueue, circuit, up, faults>>

\* LookUpArtifact, had it taken a pruned frame for one with nothing to do.
LookUpLenient ==
  /\ up /\ worker.pc = "looking"
  /\ IF artifact[worker.event] = "none" THEN FinishWith("already") ELSE Goto("reading")
  /\ UNCHANGED <<jobs, store, toEnqueue, circuit, up, faults>>

\* load_first_artifact_bytes selects the row, releases the connection, ...
LookUpArtifact ==
  /\ up /\ worker.pc = "looking"
  /\ IF artifact[worker.event] = "none" THEN FinishWith("permanent") ELSE Goto("reading")
  /\ UNCHANGED <<jobs, store, toEnqueue, circuit, up, faults>>

\* ... and reads the file, which a prune may have deleted meanwhile.
ReadBlob ==
  /\ up /\ worker.pc = "reading"
  /\ IF artifact[worker.event] = "ok" THEN Goto("engine") ELSE FinishWith("retry")
  /\ UNCHANGED <<jobs, store, toEnqueue, circuit, up, faults>>

\* The helper process answers, fails or times out.  A retryable failure also
\* stands for the database error insert_derived may return.
EngineReturns ==
  /\ up /\ worker.pc = "engine"
  /\ \/ Goto("writing")
     \/ \E o \in {"permanent", "unavailable", "retry"} : FinishWith(o)
  /\ UNCHANGED <<jobs, store, toEnqueue, circuit, up, faults>>

\* insert_derived: derived row and search row in one transaction.  No foreign
\* key ties them to the event row.
WriteText ==
  /\ up /\ worker.pc = "writing"
  /\ text' = text \cup {worker.event}
  /\ FinishWith("success")
  /\ UNCHANGED <<jobs, stage, artifact, toEnqueue, circuit, up, faults>>

\* record_outcome is called for a success and for a transient error only.
\* The count matters up to the threshold, where it is capped.
CircuitAfter(o) ==
  LET n == IF circuit.fails < Threshold THEN circuit.fails + 1 ELSE Threshold
  IN  CASE o = "success" -> CircuitClosed
        [] o = "retry"   -> [fails |-> n, cooling |-> circuit.cooling \/ n >= Threshold]
        [] OTHER         -> circuit

FinalStatus(o) ==
  CASE o \in {"success", "already"} -> "done"
    [] o = "unavailable"            -> "skipped"
    [] o = "permanent"              -> "dead"
    [] OTHER -> IF worker.attempts >= MaxAttempts THEN "dead" ELSE "pending"

\* The loop goes on while there is batch left and no failure is on record.
AfterJob(c) ==
  worker' = IF c.fails > 0 THEN Asleep
            ELSE [Asleep EXCEPT !.pc = "claiming", !.left = worker.left]

\* handle_job's last steps: record the outcome, settle or re-queue the row.
FinishJob ==
  /\ up /\ worker.pc = "finishing"
  /\ circuit' = CircuitAfter(worker.outcome)
  /\ LET s == FinalStatus(worker.outcome) IN Complete(worker.job, s, s # "pending")
  /\ AfterJob(circuit')
  /\ UNCHANGED <<store, toEnqueue, up, faults>>

\* complete_job failed (the desktop shell writes the same database) and its
\* error was dropped: the row stays running until it is reclaimed.
LoseCompletion ==
  /\ up /\ worker.pc = "finishing" /\ faults < MaxFaults
  /\ faults' = faults + 1
  /\ circuit' = CircuitAfter(worker.outcome)
  /\ AfterJob(circuit')
  /\ UNCHANGED <<jobs, store, toEnqueue, up>>

\* retry_at passes; the failure count stays until a success.
CooldownEnds ==
  /\ circuit.cooling
  /\ circuit' = [circuit EXCEPT !.cooling = FALSE]
  /\ UNCHANGED <<jobs, store, toEnqueue, worker, up, faults>>

-----------------------------------------------------------------------------
(* Maintenance, wipe, time. *)

PruneJobs ==
  /\ up /\ PruneCompleted
  /\ UNCHANGED <<store, toEnqueue, worker, circuit, up, faults>>

\* The media tiers: artifact row and, as its last reference, its blob.
PruneMedia(e) ==
  /\ up /\ artifact[e] # "none"
  /\ artifact' = [artifact EXCEPT ![e] = "none"]
  /\ UNCHANGED <<jobs, stage, text, toEnqueue, worker, circuit, up, faults>>

\* trim_metadata_batch: derived, ocr_docs and event rows in one transaction;
\* the artifact row cascades, the jobs stay.
TrimEvent(e) ==
  /\ up /\ stage[e] = "live"
  /\ stage' = [stage EXCEPT ![e] = "gone"]
  /\ artifact' = [artifact EXCEPT ![e] = "none"]
  /\ text' = text \ {e}
  /\ UNCHANGED <<jobs, toEnqueue, worker, circuit, up, faults>>

\* wipe_sync's DELETEs; the worker's own state is not touched.
Wipe ==
  /\ up
  /\ DeleteAll
  /\ stage' = [e \in Events |-> IF stage[e] = "live" THEN "gone" ELSE stage[e]]
  /\ artifact' = [e \in Events |-> "none"]
  /\ text' = {}
  /\ UNCHANGED <<toEnqueue, worker, circuit, up, faults>>

TimePasses(j) ==
  /\ BackoffElapses(j) \/ Ages(j)
  /\ UNCHANGED <<store, toEnqueue, worker, circuit, up, faults>>

-----------------------------------------------------------------------------
(* Crash and boot. *)

\* Blobs in S are those whose file a prune had unlinked without committing yet.
Crash(S) ==
  /\ up /\ faults < MaxFaults
  /\ faults' = faults + 1
  /\ up' = FALSE
  /\ worker' = Off /\ circuit' = CircuitClosed /\ toEnqueue' = None
  /\ artifact' = [e \in Events |-> IF e \in S THEN "lost" ELSE artifact[e]]
  /\ UNCHANGED <<jobs, stage, text>>

\* recover_after_unclean_shutdown, then the worker is spawned when OCR is on.
Boot(enabled) ==
  /\ ~up
  /\ up' = TRUE
  /\ IF enabled THEN ReclaimStale /\ worker' = Asleep
                ELSE SkipOpen /\ worker' = Off
  /\ UNCHANGED <<store, toEnqueue, circuit, faults>>

-----------------------------------------------------------------------------

WorkerStep ==
  \/ Tick \/ (\E j \in Jobs : ClaimNext(j)) \/ EndTick
  \/ CheckDerived \/ LookUpArtifact \/ ReadBlob \/ EngineReturns
  \/ WriteText \/ FinishJob

Next ==
  \/ \E e \in Events : PersistFrame(e) \/ PruneMedia(e) \/ TrimEvent(e)
  \/ \E j \in Jobs : EnqueueOcr(j) \/ TimePasses(j)
  \/ SkipEnqueue
  \/ WorkerStep
  \/ LoseCompletion
  \/ CooldownEnds
  \/ PruneJobs
  \/ Wipe
  \/ \E S \in SUBSET {e \in Events : artifact[e] = "ok"} : Crash(S)
  \/ \E enabled \in BOOLEAN : Boot(enabled)

(***************************************************************************)
(* The worker's loop and the persist task are tokio tasks that always run  *)
(* again; clocks advance; a supervisor restarts the daemon.  Captures,     *)
(* maintenance, wipes and crashes are never owed.                          *)
(***************************************************************************)
Fairness ==
  /\ WF_vars(WorkerStep)
  /\ WF_vars(CooldownEnds)
  /\ WF_vars(\E enabled \in BOOLEAN : Boot(enabled))
  /\ \A j \in Jobs : WF_vars(TimePasses(j))

Spec == Init /\ [][Next]_vars

FairSpec == Spec /\ Fairness

-----------------------------------------------------------------------------
(* Properties. *)

\* complete_job_at looks at the id alone, so it is sound only because nobody
\* else moves the row a worker holds: until the worker settles it, the row is
\* running with the attempt count the worker saw, or has been deleted.
WorkerHoldsItsRow ==
  worker.pc \in Busy =>
    \/ jobs[worker.job] = NoRow
    \/ /\ jobs[worker.job].status = "running"
       /\ jobs[worker.job].event = worker.event
       /\ jobs[worker.job].attempts = worker.attempts

\* A job is only called done when its event's text is in the index, unless
\* retention or a wipe removed the event itself: insert_derived commits before
\* the row is completed, and what deletes text deletes the event with it.
DoneHasText ==
  \A j \in WithStatus({"done"}) :
    stage[jobs[j].event] = "live" => jobs[j].event \in text

\* Outside of faults nothing is stranded: a running row that no worker holds
\* was left by a crash or by a lost completion, one row per fault.  In
\* particular opening the circuit leaves no claimed row behind.
Held == IF worker.pc \in Busy THEN {worker.job} ELSE {}

StrandedOnlyByFaults == Cardinality(WithStatus({"running"}) \ Held) <= faults

\* Every fault may cost one attempt beyond max_attempts, and nothing else does:
\* a job out of attempts is never queued again by the worker.
RetryBudget ==
  \A j \in Jobs : jobs[j] # NoRow => jobs[j].attempts <= MaxAttempts + faults

\* The rows say what the worker does with them.
RowsAccounted == WorkerHoldsItsRow /\ RetryBudget

\* A settled row is never re-opened, by a late worker, a reclaim or a restart
\* ("recovery does not silently resurrect dead jobs", docs/OCR_PRODUCT.md).
SettledForGood ==
  [][\A j \in Jobs : jobs[j].status \in Settled =>
       jobs'[j] = NoRow \/ jobs'[j].status = jobs[j].status]_vars

\* "During cooldown pending jobs retain their attempts" (docs/OCR_PRODUCT.md):
\* while the circuit cools, no row is claimed and no attempt is counted.
CooldownSparesAttempts ==
  [][circuit.cooling => \A j \in Jobs :
       jobs[j] # NoRow /\ jobs'[j] # NoRow => jobs'[j].attempts = jobs[j].attempts]_vars

\* Nobody touches a row that rests: one that is settled, or one that waits while
\* the circuit cools.
RestingRowsUntouched == SettledForGood /\ CooldownSparesAttempts

\* Every job that is open is eventually settled or deleted, through backoffs,
\* cooldowns and restarts.
EveryJobSettles ==
  \A j \in Jobs : (jobs[j].status \in Open) ~> (jobs[j].status \notin Open)

-----------------------------------------------------------------------------
(* What the documentation and the code's comments say, and the code does not *)
(* guarantee.                                                                *)

\* trim_metadata_batch: "no derived/ocr row is orphaned behind its event row".
TextHasEvent == \A e \in text : stage[e] = "live"

=============================================================================
