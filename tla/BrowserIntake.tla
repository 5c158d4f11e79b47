---------------------------- MODULE BrowserIntake ----------------------------
(***************************************************************************)
(* The browser extension's way to the daemon: an observation is archived,  *)
(* queued, sent in a batch and acknowledged or discarded, while the user   *)
(* pauses, the policy is synchronised, answers are lost and the service    *)
(* worker is killed.                                                       *)
(*                                                                         *)
(* Every handler is an async function, so other handlers run at each of    *)
(* its awaits; what the code chains on queueMutation, with its read and    *)
(* its write of the queue, is one step.  flushQueue is not serialised: an  *)
(* alarm, a timer and a full queue may each have a call under way.  A      *)
(* token is configured.                                                    *)
(***************************************************************************)
EXTENDS Naturals, FiniteSets, FiniteSetsExt

CONSTANTS
  Obs,         \* observations, each with an id of its own
  Body,        \* Body[o]: bytes of its Markdown, 0 without an artifact
  Flushes,     \* bound: calls of flushQueue under way
  MaxQueue,    \* maxQueueSize
  MaxBytes,    \* maxQueueBytes
  BatchSize,   \* batchSize
  MaxFaults    \* bound: errors, lost answers and kills of the service worker

ASSUME IntakeAssumption ==
  /\ IsFiniteSet(Obs) /\ Body \in [Obs -> Nat]
  /\ MaxQueue \in Nat \ {0} /\ MaxBytes \in Nat /\ BatchSize \in Nat \ {0}
  /\ MaxFaults \in Nat

VARIABLES
  conf,      \* stored settings: [paused, gated]
  queue,     \* observations in the stored queue
  arrival,   \* arrival[o]: when o was appended to it, 0 if it was not
  gap,       \* pendingGap: [id, count]
  dropped,   \* the observations that droppedEvents counts
  task,      \* task[o]: how far enqueueEvent is with o
  archive,   \* archive[o]: sync_status in IndexedDB, or "none"
  flush,     \* flush[f]: a call of flushQueue
  daemon,    \* [open, stored, told]
  faults     \* number of injected faults so far

transport == <<queue, arrival, gap, dropped>>
vars      == <<transport, conf, task, archive, flush, daemon, faults>>

\* A gap is named by the count it was created with, which no other gap has.
Gaps  == [id : Nat, count : Nat]
NoGap == [id |-> 0, count |-> 0]

Verdicts == {"stored", "locked", "invalid", "error"}

Resting == [pc |-> "idle", ids |-> {}, gap |-> NoGap, answer |-> "error"]

TypeOK ==
  /\ conf \in [paused : BOOLEAN, gated : BOOLEAN]
  /\ queue \subseteq Obs /\ arrival \in [Obs -> Nat]
  /\ gap \in Gaps /\ dropped \subseteq Obs
  /\ task \in [Obs -> {"new", "passed", "archived", "queued", "gone"}]
  /\ archive \in [Obs -> {"none", "pending", "synced", "rejected"}]
  /\ flush \in [Flushes -> [pc : {"idle", "begun", "sent", "answered", "settled", "marked"},
                            ids : SUBSET Obs, gap : Gaps, answer : Verdicts]]
  /\ daemon \in [open : BOOLEAN, stored : SUBSET Obs, told : SUBSET Gaps]
  /\ faults \in 0 .. MaxFaults

Init ==
  /\ conf = [paused |-> FALSE, gated |-> FALSE]
  /\ queue = {} /\ arrival = [o \in Obs |-> 0] /\ gap = NoGap /\ dropped = {}
  /\ task = [o \in Obs |-> "new"] /\ archive = [o \in Obs |-> "none"]
  /\ flush = [f \in Flushes |-> Resting]
  /\ daemon = [open |-> TRUE, stored |-> {}, told |-> {}]
  /\ faults = 0

CaptureAllowed == ~conf.paused /\ ~conf.gated

-----------------------------------------------------------------------------
(* enqueueEvent. *)

Bytes(S) == MapThenSumSet(LAMBDA o : Body[o], S)

Fits(S) == Cardinality(S) <= MaxQueue /\ Bytes(S) <= MaxBytes

Since(S, o) == {p \in S : arrival'[p] >= arrival'[o]}

\* The oldest go, with their artifacts, until the rest fits.
KeptFrom(S) == {o \in S : Fits(Since(S, o))}

\* The observations D leave the queue unsent: counted, and told in the pending gap.
Drop(D) ==
  LET n == Cardinality(dropped \cup D)
  IN  /\ dropped' = dropped \cup D
      /\ gap' = IF D = {} THEN gap ELSE [id |-> IF gap = NoGap THEN n ELSE gap.id, count |-> n]

PassGate(o) ==
  /\ task[o] = "new" /\ CaptureAllowed
  /\ task' = [task EXCEPT ![o] = "passed"]
  /\ UNCHANGED <<transport, conf, archive, flush, daemon, faults>>

\* storeLocalObservation.
Archive(o) ==
  /\ task[o] = "passed"
  /\ task' = [task EXCEPT ![o] = "archived"]
  /\ archive' = [archive EXCEPT ![o] = "pending"]
  /\ UNCHANGED <<transport, conf, flush, daemon, faults>>

\* IndexedDB failed: enqueueEvent ends with its error.
ArchiveFails(o) ==
  /\ task[o] = "passed" /\ faults < MaxFaults
  /\ faults' = faults + 1
  /\ task' = [task EXCEPT ![o] = "gone"]
  /\ UNCHANGED <<transport, conf, archive, flush, daemon>>

\* appendObservation.
Enqueue(o) ==
  /\ task[o] = "archived"
  /\ task' = [task EXCEPT ![o] = "queued"]
  /\ arrival' = [arrival EXCEPT ![o] = Cardinality({p \in Obs : arrival[p] > 0}) + 1]
  /\ queue' = KeptFrom(queue \cup {o})
  /\ Drop((queue \cup {o}) \ queue')
  /\ UNCHANGED <<conf, archive, flush, daemon, faults>>

-----------------------------------------------------------------------------
(* flushQueue. *)

Goto(f, pc) == flush' = [flush EXCEPT ![f].pc = pc]

\* BeginFlush, had it looked at the observations alone.
BeginFlushWithObservations(f) ==
  /\ flush[f].pc = "idle" /\ ~conf.paused /\ queue # {}
  /\ Goto(f, "begun")
  /\ UNCHANGED <<transport, conf, task, archive, daemon, faults>>

BeginFlush(f) ==
  /\ flush[f].pc = "idle" /\ ~conf.paused
  /\ queue # {} \/ gap # NoGap
  /\ Goto(f, "begun")
  /\ UNCHANGED <<transport, conf, task, archive, daemon, faults>>

\* buildBatch: the gap first, then the oldest observations.
Batch ==
  LET room == IF gap = NoGap THEN BatchSize ELSE BatchSize - 1
  IN  {o \in queue : Cardinality({p \in queue : arrival[p] < arrival[o]}) < room}

\* The queue is read after the settings, and may be empty by now.
Send(f) ==
  /\ flush[f].pc = "begun"
  /\ IF queue = {} /\ gap = NoGap
     THEN flush' = [flush EXCEPT ![f] = Resting]
     ELSE flush' = [flush EXCEPT ![f] = [@ EXCEPT !.pc = "sent", !.ids = Batch, !.gap = gap]]
  /\ UNCHANGED <<transport, conf, task, archive, daemon, faults>>

Replied(f, a) == flush' = [flush EXCEPT ![f] = [@ EXCEPT !.pc = "answered", !.answer = a]]

\* The first gap of an id is kept: a second one is a duplicate to the store.
Told(g) ==
  IF g = NoGap \/ \E t \in daemon.told : t.id = g.id THEN daemon.told ELSE daemon.told \cup {g}

\* post_browser_batch: all of the batch is stored, duplicates apart, or none.
Accept(f) ==
  /\ flush[f].pc = "sent" /\ daemon.open
  /\ daemon' = [daemon EXCEPT !.stored = @ \cup flush[f].ids, !.told = Told(flush[f].gap)]
  /\ Replied(f, "stored")
  /\ UNCHANGED <<transport, conf, task, archive, faults>>

\* Gate closed; or validate_batch refuses an observation (never a gap alone).
Refuse(f) ==
  /\ flush[f].pc = "sent"
  /\ \/ ~daemon.open /\ Replied(f, "locked")
     \/ daemon.open /\ flush[f].ids # {} /\ Replied(f, "invalid")
  /\ UNCHANGED <<transport, conf, task, archive, daemon, faults>>

\* The daemon is not there, fails, or does not know the token.
Fail(f) ==
  /\ flush[f].pc = "sent" /\ faults < MaxFaults
  /\ faults' = faults + 1
  /\ Replied(f, "error")
  /\ UNCHANGED <<transport, conf, task, archive, daemon>>

LoseAnswer(f) ==
  /\ flush[f].pc = "answered" /\ flush[f].answer # "error" /\ faults < MaxFaults
  /\ faults' = faults + 1
  /\ flush' = [flush EXCEPT ![f] = Resting]
  /\ UNCHANGED <<transport, conf, task, archive, daemon>>

\* Nothing is known of the batch: it stays queued.
KeepBatch(f) ==
  /\ flush[f].pc = "answered" /\ flush[f].answer = "error"
  /\ flush' = [flush EXCEPT ![f] = Resting]
  /\ UNCHANGED <<transport, conf, task, archive, daemon, faults>>

\* AcknowledgeBatch, had it cut the batch off the queue by its length.
AcknowledgePrefix(f) ==
  /\ flush[f].pc = "answered" /\ flush[f].answer = "stored"
  /\ queue' = {o \in queue : Cardinality({p \in queue : arrival[p] < arrival[o]})
                               >= Cardinality(flush[f].ids)}
  /\ gap' = IF gap.id = flush[f].gap.id THEN NoGap ELSE gap
  /\ Goto(f, "settled")
  /\ UNCHANGED <<arrival, dropped, conf, task, archive, daemon, faults>>

\* acknowledge, on the queue as it is by now.
AcknowledgeBatch(f) ==
  /\ flush[f].pc = "answered" /\ flush[f].answer = "stored"
  /\ queue' = queue \ flush[f].ids
  /\ gap' = IF gap.id = flush[f].gap.id THEN NoGap ELSE gap
  /\ Goto(f, "settled")
  /\ UNCHANGED <<arrival, dropped, conf, task, archive, daemon, faults>>

\* discardObservations: what another flush removed meanwhile is not counted.
DiscardBatch(f) ==
  /\ flush[f].pc = "answered" /\ flush[f].answer \in {"locked", "invalid"}
  /\ queue' = queue \ flush[f].ids
  /\ Drop(queue \cap flush[f].ids)
  /\ Goto(f, "settled")
  /\ UNCHANGED <<arrival, conf, task, archive, daemon, faults>>

Marked(ids, status) ==
  [o \in Obs |-> IF o \in ids /\ archive[o] # "none" THEN status ELSE archive[o]]

\* MarkBatch, had it marked what left the queue, whatever the answer; and had it
\* stored the reason as the status.
MarkSynced(f) ==
  /\ flush[f].pc = "settled"
  /\ archive' = Marked(flush[f].ids, "synced")
  /\ flush' = [flush EXCEPT ![f] = Resting]
  /\ UNCHANGED <<transport, conf, task, daemon, faults>>

\* markLocalSync.  After a 423 the settings are next.
MarkBatch(f) ==
  /\ flush[f].pc = "settled"
  /\ archive' = Marked(flush[f].ids, IF flush[f].answer = "stored" THEN "synced" ELSE "rejected")
  /\ IF flush[f].answer = "locked" THEN Goto(f, "marked") ELSE flush' = [flush EXCEPT ![f] = Resting]
  /\ UNCHANGED <<transport, conf, task, daemon, faults>>

\* IndexedDB failed: flushQueue ends there.
MarkFails(f) ==
  /\ flush[f].pc = "settled" /\ faults < MaxFaults
  /\ faults' = faults + 1
  /\ flush' = [flush EXCEPT ![f] = Resting]
  /\ UNCHANGED <<transport, conf, task, archive, daemon>>

\* updateSettings({daemonCaptureAllowed: false}): in force if a policy is known.
Gate(f) ==
  /\ flush[f].pc = "marked"
  /\ \E known \in BOOLEAN : conf' = [conf EXCEPT !.gated = @ \/ known]
  /\ flush' = [flush EXCEPT ![f] = Resting]
  /\ UNCHANGED <<transport, task, archive, daemon, faults>>

-----------------------------------------------------------------------------
(* Around the queue. *)

\* setPaused, a policy sync, another patch.  Each writes back the whole record
\* it read (BrowserSettings), so both switches may take any value.
ChangeSettings ==
  /\ conf' \in [paused : BOOLEAN, gated : BOOLEAN] /\ conf' # conf
  /\ UNCHANGED <<transport, task, archive, flush, daemon, faults>>

\* The daemon's gates: pause, browser pause, closed eyes, lock.
ToggleGate ==
  /\ daemon' = [daemon EXCEPT !.open = ~@]
  /\ UNCHANGED <<transport, conf, task, archive, flush, faults>>

\* The service worker is killed with every call under way; storage stays.
Kill ==
  /\ faults < MaxFaults /\ faults' = faults + 1
  /\ task' = [o \in Obs |-> IF task[o] \in {"passed", "archived"} THEN "gone" ELSE task[o]]
  /\ flush' = [f \in Flushes |-> Resting]
  /\ UNCHANGED <<transport, conf, archive, daemon>>

-----------------------------------------------------------------------------

FlushStep(f) ==
  \/ BeginFlush(f) \/ Send(f) \/ Accept(f) \/ Refuse(f)
  \/ KeepBatch(f) \/ AcknowledgeBatch(f) \/ DiscardBatch(f) \/ MarkBatch(f)
  \/ Gate(f)

Next ==
  \/ \E o \in Obs : PassGate(o) \/ Archive(o) \/ ArchiveFails(o) \/ Enqueue(o)
  \/ \E f \in Flushes : FlushStep(f) \/ Fail(f) \/ LoseAnswer(f) \/ MarkFails(f)
  \/ ChangeSettings \/ ToggleGate \/ Kill

Spec == Init /\ [][Next]_vars

\* An alarm starts a flush every 30 seconds, and calls come to an end.
Fairness == \A f \in Flushes : WF_vars(FlushStep(f))

FairSpec == Spec /\ Fairness

-----------------------------------------------------------------------------
(* Properties. *)

\* The stored queue stays within maxQueueSize and maxQueueBytes.
QueueFits == Fits(queue)

\* No observation that was queued is lost in silence: it is queued still, the
\* daemon stored it, or droppedEvents counts it, however overflows, discards
\* and the acknowledgements of overlapping flushes interleave.
LossesCounted ==
  \A o \in Obs : task[o] = "queued" => o \in queue \cup daemon.stored \cup dropped

\* When observations were dropped, a pending gap has the count of them all, or
\* a gap has reached the daemon ("without losing its gap explanation",
\* queue.test.ts), although gaps are created, sent, updated and acknowledged by
\* calls that overlap.
GapExplained ==
  dropped # {} => IF gap = NoGap THEN daemon.told # {} ELSE gap.count = Cardinality(dropped)

\* The extension owns up to every loss.
LossesTold == LossesCounted /\ GapExplained

\* An observation shown as synced is in the daemon's store.
SyncedIsStored == \A o \in Obs : archive[o] = "synced" => o \in daemon.stored

\* "removed from the transport queue instead of being replayed indefinitely"
\* (docs/BROWSER_CAPTURE.md): what is shown as rejected is not sent again.
RejectedIsNotResent ==
  \A o \in Obs : archive[o] = "rejected" => o \notin queue

\* The archive page tells the truth about each observation.
ArchiveTrue == SyncedIsStored /\ RejectedIsNotResent

\* While the user's and the daemon's gates stay open the queue drains, lost
\* answers, refused batches and gap included.
QueueDrains ==
  <>[](~conf.paused /\ daemon.open) => <>[](queue = {} /\ gap = NoGap)

=============================================================================
