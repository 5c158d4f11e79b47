-------------------------------- MODULE Sessions --------------------------------
(***************************************************************************)
(* Application sessions: who opens and closes them in memory, and how the  *)
(* transitions reach the activity_sessions table.                          *)
(*                                                                         *)
(* One SharedSessionBinder holds the open session.  The screen loop polls  *)
(* activity and takes captures; the input loop opens a session when there  *)
(* is none.  Polls, idle closes and the input loop write their transition  *)
(* themselves, under the session_persist mutex.  A capture hands its       *)
(* transition to the persist task through a bounded queue, together with   *)
(* its frames.                                                             *)
(***************************************************************************)
EXTENDS Naturals, Sequences, Functions

CONSTANTS
  Apps,          \* frontmost applications
  Blocked,       \* privacy.app_blocklist
  Unknown,       \* the frontmost probe answered nothing
  None,          \* no session
  QueueCapacity, \* capture.queue_capacity
  MaxSessions,   \* bound: sessions opened
  MaxRuns,       \* bound: starts of the daemon
  MaxFaults      \* bound: failed writes

ASSUME SessionsAssumption ==
  /\ Blocked \subseteq Apps /\ ({Unknown, "off", "locked"} \cap Apps) = {}
  /\ None \notin Nat
  /\ QueueCapacity \in Nat \ {0} /\ MaxRuns \in Nat \ {0}
  /\ MaxSessions \in Nat /\ MaxFaults \in Nat

VARIABLES
  screen,    \* [front, locked, paused]: the desktop and the user's switches
  binder,    \* [sid, app, idle]: the open session; idle: untouched for idle_session_ms
  opened,    \* sessions opened so far, over all runs
  rows,      \* rows[s]: "none", "open" or "closed"
  evidence,  \* sessions of the screenshot events in the table
  loop,      \* the screen loop: [pc, focus, app, hand]
  hid,       \* the input loop: [pc, app]
  queue,     \* batches on their way to the persist task
  writer,    \* the persist task: [pc, hand]
  daemon,    \* "up", "draining" or "down"
  runs, faults,
  lost,      \* history: sessions whose closing transition was dropped
  stale,     \* history: sessions written open after they had ended
  rowless    \* history: sessions of transitions whose write failed

vars == <<screen, binder, opened, rows, evidence, loop, hid, queue, writer,
          daemon, runs, faults, lost, stale, rowless>>

tables  == <<rows, evidence>>
history == <<lost, stale, rowless>>
rest    == <<daemon, runs>>

Sids == 1 .. MaxSessions

NoSession == [sid |-> None, app |-> Unknown, idle |-> FALSE]

\* A transition: the session it closed and the one open after it, if any, and the
\* one a capture's frames are bound to.
Batches == [closed : Sids \cup {None}, open : Sids \cup {None}, frames : Sids \cup {None}]
Empty   == [closed |-> None, open |-> None, frames |-> None]

Fronts == Apps \cup {Unknown}

Screens == [front : Fronts, locked : BOOLEAN, paused : BOOLEAN]
Binders == [sid : Sids \cup {None}, app : Fronts, idle : BOOLEAN]

LoopStates ==
  [pc : {"wait", "poll", "polled", "gated", "bound", "close", "over"},
   focus : BOOLEAN, app : Fronts \cup {"locked", "off"}, hand : Batches]

TypeOK ==
  /\ screen \in Screens
  /\ binder \in Binders
  /\ opened \in 0 .. MaxSessions
  /\ rows \in [Sids -> {"none", "open", "closed"}]
  /\ evidence \subseteq Sids
  /\ loop \in LoopStates
  /\ hid \in [pc : {"wait", "ready"}, app : Fronts]
  /\ queue \in Seq(Batches) /\ Len(queue) <= QueueCapacity
  /\ writer \in [pc : {"wait", "apply", "frames"}, hand : Batches]
  /\ daemon \in {"up", "draining", "down"}
  /\ runs \in 0 .. MaxRuns /\ faults \in 0 .. MaxFaults
  /\ lost \subseteq Sids /\ stale \subseteq Sids /\ rowless \subseteq Sids

Waiting == [pc |-> "wait", focus |-> FALSE, app |-> Unknown, hand |-> Empty]

Init ==
  /\ screen = [front |-> Unknown, locked |-> FALSE, paused |-> FALSE]
  /\ binder = NoSession /\ opened = 0
  /\ rows = [s \in Sids |-> "none"] /\ evidence = {}
  /\ loop = Waiting
  /\ hid = [pc |-> "wait", app |-> Unknown]
  /\ queue = <<>> /\ writer = [pc |-> "wait", hand |-> Empty]
  /\ daemon = "up" /\ runs = 1 /\ faults = 0
  /\ lost = {} /\ stale = {} /\ rowless = {}

-----------------------------------------------------------------------------
(* The session manager. *)

\* PolicyGate::evaluate: pause and closed eyes, lock, unknown frontmost when
\* there is a blocklist, blocklist.
Passes(app) == app \in Fronts \ Blocked /\ (app = Unknown => Blocked = {})
Allows(s)   == ~s.paused /\ ~s.locked /\ Passes(s.front)

\* SessionManager::touch keeps the session of this app unless it sat idle.
Keeps(app) == binder.sid # None /\ binder.app = app /\ ~binder.idle

\* Room for one more session.
Room(app) == Keeps(app) \/ opened < MaxSessions

Touched(app) == IF Keeps(app) THEN binder.sid ELSE opened + 1

\* touch and drain_transition: the session closed on the way, and whatever
\* session is open then.
Transition(app) ==
  [closed |-> IF Keeps(app) THEN None ELSE binder.sid,
   open   |-> Touched(app),
   frames |-> Touched(app)]

Touch(app) ==
  /\ Room(app)
  /\ binder' = [sid |-> Touched(app), app |-> app, idle |-> FALSE]
  /\ opened' = IF Keeps(app) THEN opened ELSE opened + 1

\* close_if_idle or force_close.
Closing == [Empty EXCEPT !.closed = binder.sid]

-----------------------------------------------------------------------------
(* apply_activity_transition: one transaction, closed row first. *)

Upserted(t) ==
  [s \in Sids |-> IF s = t.open THEN "open" ELSE IF s = t.closed THEN "closed" ELSE rows[s]]

Named(t) == {t.closed, t.open} \ {None}

\* The write succeeds, or the transaction rolls back and the transition is gone.
Apply(t) ==
  \/ /\ rows' = Upserted(t)
     /\ UNCHANGED <<evidence, faults, history>>
  \/ /\ faults < MaxFaults /\ t # Empty
     /\ faults' = faults + 1
     /\ lost' = lost \cup ({t.closed} \ {None})
     /\ rowless' = rowless \cup Named(t)
     /\ UNCHANGED <<tables, stale>>

-----------------------------------------------------------------------------
(* The screen loop. *)

\* A focus tick: copy the switches, take session_persist, probe lock state and
\* frontmost app.
BeginPoll ==
  /\ daemon = "up" /\ loop.pc = "wait"
  /\ loop' = [loop EXCEPT !.pc = "poll", !.focus = TRUE,
       !.app = CASE screen.paused -> "off"
                 [] screen.locked -> "locked"
                 [] OTHER         -> screen.front]
  /\ UNCHANGED <<screen, binder, opened, tables, hid, queue, writer, rest, faults, history>>

\* Nothing to write: paused, eyes closed, lock state unknown, app blocked,
\* frontmost unknown, or no input for so long that the user counts as away.
PollNothing ==
  /\ loop.pc = "poll" /\ loop.app # "locked"
  /\ loop' = [loop EXCEPT !.pc = "polled"]
  /\ UNCHANGED <<screen, binder, opened, tables, hid, queue, writer, rest, faults, history>>

\* The screen is locked: force_close, written at once.
PollLocked ==
  /\ loop.pc = "poll" /\ loop.app = "locked"
  /\ Apply(Closing)
  /\ binder' = NoSession
  /\ loop' = [loop EXCEPT !.pc = "polled"]
  /\ UNCHANGED <<screen, opened, hid, queue, writer, rest>>

\* An app the user works with: bind, written at once.
PollBinds ==
  /\ loop.pc = "poll" /\ loop.app \in Apps \ Blocked
  /\ Touch(loop.app)
  /\ Apply(Transition(loop.app))
  /\ loop' = [loop EXCEPT !.pc = "polled"]
  /\ UNCHANGED <<screen, hid, queue, writer, rest>>

\* capture_tick up to its last refusal: in an interval tick with probes of its
\* own, in a focus tick with what the poll saw.
GateCapture ==
  /\ \/ /\ daemon = "up" /\ loop.pc = "wait" /\ Allows(screen)
        /\ loop' = [loop EXCEPT !.pc = "gated", !.app = screen.front]
     \/ /\ loop.pc = "polled" /\ Passes(loop.app)
        /\ loop' = [loop EXCEPT !.pc = "gated"]
  /\ UNCHANGED <<screen, binder, opened, tables, hid, queue, writer, rest, faults, history>>

AfterCapture == IF loop.focus THEN "close" ELSE "wait"

\* No focus change, gate, debounce, stable pixels, a probe error, or a liveness
\* overwrite: no session.
SkipCapture ==
  /\ loop.pc \in {"polled", "gated"}
  /\ loop' = [loop EXCEPT !.pc = AfterCapture, !.app = Unknown]
  /\ UNCHANGED <<screen, binder, opened, tables, hid, queue, writer, rest, faults, history>>

\* bind, before the frames are taken.
BindCapture ==
  /\ loop.pc = "gated"
  /\ Touch(loop.app)
  /\ loop' = [loop EXCEPT !.pc = "bound", !.app = Unknown, !.hand = Transition(loop.app)]
  /\ UNCHANGED <<screen, tables, hid, queue, writer, rest, faults, history>>

\* QueueBatch, had it waited for room.
QueueBatchWaits ==
  /\ loop.pc = "bound" /\ Len(queue) < QueueCapacity
  /\ queue' = Append(queue, loop.hand)
  /\ loop' = [loop EXCEPT !.pc = AfterCapture, !.hand = Empty]
  /\ UNCHANGED <<screen, binder, opened, tables, hid, writer, rest, faults, history>>

\* The frames are there: try_send.
QueueBatch ==
  /\ loop.pc = "bound"
  /\ IF Len(queue) < QueueCapacity
     THEN queue' = Append(queue, loop.hand) /\ UNCHANGED lost
     ELSE UNCHANGED queue /\ lost' = lost \cup ({loop.hand.closed} \ {None})
  /\ loop' = [loop EXCEPT !.pc = AfterCapture, !.hand = Empty]
  /\ UNCHANGED <<screen, binder, opened, tables, hid, writer, rest, faults, stale, rowless>>

\* capture_display failed: the transition goes with the error.
CaptureFails ==
  /\ loop.pc = "bound"
  /\ lost' = lost \cup ({loop.hand.closed} \ {None})
  /\ loop' = [loop EXCEPT !.pc = AfterCapture, !.hand = Empty]
  /\ UNCHANGED <<screen, binder, opened, tables, hid, queue, writer, rest, faults, stale, rowless>>

\* The end of a focus tick: close_idle_session, written at once.
CloseIdle ==
  /\ loop.pc = "close"
  /\ IF binder.idle /\ binder.sid # None
     THEN Apply(Closing) /\ binder' = NoSession
     ELSE UNCHANGED <<binder, tables, faults, history>>
  /\ loop' = Waiting
  /\ UNCHANGED <<screen, opened, hid, queue, writer, rest>>

-----------------------------------------------------------------------------
(* The input loop. *)

HidGate ==
  /\ daemon # "down" /\ hid.pc = "wait" /\ Allows(screen)
  /\ hid' = [pc |-> "ready", app |-> screen.front]
  /\ UNCHANGED <<screen, binder, opened, tables, loop, queue, writer, rest, faults, history>>

\* ensure_session_if_absent, with session_persist.  An open session of another
\* app is left to the poll and the input is dropped.
HidBind ==
  /\ hid.pc = "ready" /\ loop.pc # "poll"
  /\ IF binder.sid = None
     THEN Touch(hid.app) /\ Apply(Transition(hid.app))
     ELSE UNCHANGED <<binder, opened, tables, faults, history>>
  /\ hid' = [pc |-> "wait", app |-> Unknown]
  /\ UNCHANGED <<screen, loop, queue, writer, rest>>

-----------------------------------------------------------------------------
(* The persist task. *)

WriterTakes ==
  /\ daemon # "down" /\ writer.pc = "wait" /\ queue # <<>>
  /\ writer' = [pc |-> "apply", hand |-> Head(queue)]
  /\ queue' = Tail(queue)
  /\ UNCHANGED <<screen, binder, opened, tables, loop, hid, rest, faults, history>>

\* The batch's sessions, as they were when it was captured.
WriterApplies ==
  /\ writer.pc = "apply"
  /\ \/ /\ rows' = Upserted(writer.hand)
        /\ stale' = stale \cup ({writer.hand.open} \ {binder.sid, None})
        /\ UNCHANGED <<evidence, faults, lost, rowless>>
     \/ /\ faults < MaxFaults
        /\ faults' = faults + 1
        /\ lost' = lost \cup ({writer.hand.closed} \ {None})
        /\ rowless' = rowless \cup Named(writer.hand)
        /\ UNCHANGED <<tables, stale>>
  /\ writer' = [writer EXCEPT !.pc = "frames"]
  /\ UNCHANGED <<screen, binder, opened, loop, hid, queue, rest>>

WriterDone == writer' = [pc |-> "wait", hand |-> Empty]

\* put_and_append and the enqueues of the frames' jobs.
WriterPutsFrames ==
  /\ writer.pc = "frames"
  /\ evidence' = evidence \cup ({writer.hand.frames} \ {None})
  /\ WriterDone
  /\ UNCHANGED <<screen, binder, opened, rows, loop, hid, queue, rest, faults, history>>

WriterLosesFrames ==
  /\ writer.pc = "frames" /\ faults < MaxFaults
  /\ faults' = faults + 1
  /\ WriterDone
  /\ UNCHANGED <<screen, binder, opened, tables, loop, hid, queue, rest, history>>

-----------------------------------------------------------------------------
(* Stop, crash and start. *)

\* Ctrl+C between two ticks: force_close is written, then the queue's sender is
\* dropped.
Stop ==
  /\ daemon = "up" /\ loop.pc = "wait"
  /\ Apply(Closing)
  /\ binder' = NoSession
  /\ loop' = [Waiting EXCEPT !.pc = "over"]
  /\ daemon' = "draining"
  /\ UNCHANGED <<screen, opened, hid, queue, writer, runs>>

Gone ==
  /\ binder' = NoSession /\ loop' = [Waiting EXCEPT !.pc = "over"]
  /\ hid' = [pc |-> "wait", app |-> Unknown]
  /\ queue' = <<>> /\ writer' = [pc |-> "wait", hand |-> Empty]
  /\ daemon' = "down"

\* The persist task has drained the queue.
Exit ==
  /\ daemon = "draining" /\ queue = <<>> /\ writer.pc = "wait"
  /\ Gone
  /\ UNCHANGED <<screen, opened, tables, runs, faults, history>>

Crash ==
  /\ daemon # "down" /\ Gone
  /\ UNCHANGED <<screen, opened, tables, runs, faults, history>>

\* Recovered, had it looked only at sessions with events.
RecoveredWithEvents ==
  [s \in Sids |-> IF rows[s] = "open" /\ s \in evidence THEN "closed" ELSE rows[s]]

Recovered == [s \in Sids |-> IF rows[s] = "open" THEN "closed" ELSE rows[s]]

\* recover_after_unclean_shutdown closes the sessions left open.
Start ==
  /\ daemon = "down" /\ runs < MaxRuns
  /\ rows' = Recovered
  /\ daemon' = "up" /\ runs' = runs + 1
  /\ loop' = Waiting
  /\ UNCHANGED <<screen, binder, opened, evidence, hid, queue, writer, faults, history>>

-----------------------------------------------------------------------------
(* The user and the clock. *)

Desktop ==
  /\ \/ \E app \in Fronts : screen' = [screen EXCEPT !.front = app]
     \/ screen' = [screen EXCEPT !.locked = ~@]
     \/ screen' = [screen EXCEPT !.paused = ~@]
  /\ UNCHANGED <<binder, opened, tables, loop, hid, queue, writer, rest, faults, history>>

IdleElapses ==
  /\ binder.sid # None /\ ~binder.idle
  /\ binder' = [binder EXCEPT !.idle = TRUE]
  /\ UNCHANGED <<screen, opened, tables, loop, hid, queue, writer, rest, faults, history>>

-----------------------------------------------------------------------------

LoopStep ==
  \/ BeginPoll \/ PollNothing \/ PollLocked \/ PollBinds
  \/ GateCapture \/ SkipCapture \/ BindCapture \/ QueueBatch
  \/ CloseIdle

HidStep    == HidGate \/ HidBind
WriterStep == WriterTakes \/ WriterApplies \/ WriterPutsFrames \/ WriterLosesFrames

Next ==
  \/ LoopStep \/ CaptureFails \/ HidStep \/ WriterStep
  \/ Stop \/ Exit \/ Crash \/ Start
  \/ Desktop \/ IdleElapses

Spec == Init /\ [][Next]_vars

\* A tick runs to its end (a capture call returns), and the loop's select! serves
\* both tickers, so the focus tick comes again and again; nothing is assumed of
\* the persist task, the input loop or the user.
Fairness ==
  /\ WF_vars(LoopStep) /\ SF_vars(BeginPoll)
  /\ WF_vars(IdleElapses)

FairSpec == Spec /\ Fairness

-----------------------------------------------------------------------------
(* Properties. *)

\* Transitions that will still be written.
InFlight ==
  {loop.hand} \cup Range(queue) \cup (IF writer.pc = "apply" THEN {writer.hand} ELSE {})

\* A row left open while the daemon runs belongs to the open session, to a
\* transition under way, or to one the code is known to lose: dropped by a full
\* queue or an error, or overtaken by its own closing.
OpenRowExplained ==
  daemon # "down" =>
    \A s \in Sids :
      rows[s] = "open" =>
        \/ s = binder.sid \/ s \in lost \cup stale
        \/ \E t \in InFlight : t.closed = s

\* A stored screenshot belongs to a session that has a row, although the session
\* may have been opened by a capture whose batch was dropped: every batch names
\* its open session again.
EvidenceHasRow == \A s \in evidence : rows[s] # "none" \/ s \in rowless

\* The rows of sessions account for what is open and for the frames stored.
SessionsAccounted == OpenRowExplained /\ EvidenceHasRow

\* While the gate stays closed and the daemon runs the session ends, by lock or by idle time, even
\* when the persist task is stuck and the queue full ("Backpressure drops work,
\* does not hang").
GatedSessionEnds ==
  <>[](daemon = "up" /\ (screen.locked \/ screen.paused)) => <>[](binder.sid = None)

-----------------------------------------------------------------------------
(* What comments and documentation say, and the code does not guarantee. *)

\* Bind and persist stay under one lock "so a later Mail transition cannot be
\* overwritten by a stale Safari-open write" (ensure_session_if_absent): the row
\* of a session that has ended stays closed.
ClosedStaysClosed ==
  [][\A s \in Sids : rows[s] = "closed" => rows'[s] = "closed"]_vars

=============================================================================
