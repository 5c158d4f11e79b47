---------------------------- MODULE ObserveShell -----------------------------
(***************************************************************************)
(* The desktop shell and the daemon it keeps: the commands of the user     *)
(* interface, the supervisor and the health monitor all run                *)
(* observe_start_inner, on threads of their own and with no lock around    *)
(* it; they meet at the child slot, the stop flag, the restart budget and  *)
(* the configuration file, which is written in two steps.                  *)
(***************************************************************************)
EXTENDS Naturals, FiniteSets

CONSTANTS
  Daemons,       \* daemon processes, one per spawn
  NoDaemon,
  MaxRestarts,   \* restarts in a rolling ten minutes (3)
  GiveUpAfter,   \* crashes in a row after which the supervisor stops trying (5)
  HealTicks,     \* ticks without an event before the monitor heals (8)
  MaxFaults      \* bound: crashes, failed starts, slow boots, shells that end, rolling windows

ASSUME ObserveAssumption ==
  /\ NoDaemon \notin Daemons
  /\ {MaxRestarts, GiveUpAfter, HealTicks, MaxFaults} \subseteq Nat

Autos == {"supervisor", "monitor"}
Tasks == Autos \cup {"ui"}

VARIABLES
  daemon,     \* daemon[d]: "none", "booting", "locking", "running", "serving", "elsewhere", "dead"
  seen,       \* seen[d]: the privacy.paused it read
  orphans,    \* daemons whose parent shell is gone
  file,       \* privacy.paused in navi.toml: "yes", "no", or "torn" inside a write
  child,      \* observe_child
  stopping,   \* observe_stopping
  paused,     \* AppState.paused
  used,       \* restarts counted in the window
  task,       \* task[t]: [pc, cfg, then]
  command,    \* the user's last command
  done,       \* it was a stop or a change of the pause, and has returned Ok
  crashed, recent,     \* the supervisor: crashes in a row; a restart less than 8 s ago
  stagnant, alerted,   \* the monitor: ticks without an event, up to HealTicks; the user is alerted
  app,        \* "up" or "down"
  clean,      \* it is one of these, and nothing overlapped it
  early,      \* tasks that had read the stop flag when the reload under way set it
  faults

daemons == <<daemon, seen, orphans>>
sup     == <<crashed, recent>>
mon     == <<stagnant, alerted>>
ghosts  == <<clean, early>>
observeVars == <<daemons, file, child, stopping, paused, used, task, command, done, sup, mon, app,
                 ghosts, faults>>

Alive(d) == d # NoDaemon /\ daemon[d] \notin {"none", "dead"}
SocketAlive == \E d \in Daemons : daemon[d] = "serving"
Reload == command \in {"pause", "resume"}

ObserveTypeOK ==
  /\ daemon \in [Daemons -> {"none", "booting", "locking", "running", "serving", "elsewhere", "dead"}]
  /\ Cardinality({d \in Daemons : daemon[d] \in {"running", "serving"}}) <= 1
  /\ file \in {"yes", "no", "torn"} /\ child \in Daemons \cup {NoDaemon}
  /\ used \in 0 .. MaxRestarts /\ crashed \in 0 .. GiveUpAfter + 1 /\ stagnant \in 0 .. HealTicks
  /\ \A d \in orphans : daemon[d] # "none" /\ d # child
  /\ done => task["ui"].pc = "idle"

Idle == [pc |-> "idle", cfg |-> "no", then |-> "spawn"]

\* The shell opens with a daemon that an earlier shell left, or none; the pause
\* it shows is the file's.
ObserveInit ==
  /\ \E left \in SUBSET Daemons : Cardinality(left) <= 1
       /\ daemon = [d \in Daemons |-> IF d \in left THEN "serving" ELSE "none"] /\ orphans = left
  /\ file \in {"yes", "no"} /\ paused = (file = "yes") /\ seen = [d \in Daemons |-> d \in orphans /\ paused]
  /\ child = NoDaemon /\ stopping = FALSE /\ used = 0
  /\ task = [t \in Tasks |-> Idle]
  /\ command = "none" /\ done = FALSE
  /\ crashed = 0 /\ recent = FALSE /\ stagnant = 0 /\ alerted = FALSE
  /\ app = "up" /\ clean = FALSE /\ early = {} /\ faults = 0

\* What a dead daemon had read is forgotten.
Dies(d) ==
  /\ daemon' = [daemon EXCEPT ![d] = "dead"] /\ seen' = [seen EXCEPT ![d] = FALSE]
  /\ orphans' = orphans \ {d}

Faulty == faults < MaxFaults /\ faults' = faults + 1
Faultless == UNCHANGED faults

In(t, pc) == task[t].pc = pc
Goes(t, pc) == task' = [task EXCEPT ![t].pc = pc]

\* An auto that is past its looks is about to start a daemon, or starting one.
Watching == {"idle", "paused?", "probing socket", "acquiring"}

\* Every step of a task: an auto that starts while a command runs overlaps it.
Moves(t) ==
  /\ app = "up"
  /\ clean' = (clean /\ (t = "ui" \/ In("ui", "idle") \/ task'[t].pc \in Watching))

-----------------------------------------------------------------------------
(* observe_start_inner_opts, by any task. *)

Spare == {d \in Daemons : daemon[d] = "none"} # {}

\* It is started: a start returns, a reload waits for the socket, at most 2.5 s.
Up(t) == IF t # "ui" THEN "up" ELSE IF Reload THEN "awaiting" ELSE "idle"

Reaped == IF Alive(child) THEN child ELSE NoDaemon

\* The child that runs is left alone, a daemon that answers is adopted.
FindsDaemon(t) ==
  /\ In(t, "running?")
  /\ child' = Reaped
  /\ Goes(t, IF Alive(child) \/ SocketAlive THEN Up(t) ELSE "loading")
  /\ Moves(t)
  /\ UNCHANGED <<daemons, file, stopping, paused, used, command, done, sup, mon, app, early, faults>>

\* load_config, and save_config up to the truncation by fs::write.  What parses is
\* completed with defaults, so an empty file is one.
Truncates(t) ==
  /\ In(t, "loading")
  /\ task' = [task EXCEPT ![t].pc = "filling",
       ![t].cfg = IF task[t].then = "flag" THEN (IF command = "pause" THEN "yes" ELSE "no")
                  ELSE IF file = "torn" THEN "no" ELSE file]
  /\ file' = "torn"
  /\ Moves(t)
  /\ UNCHANGED <<daemons, child, stopping, paused, used, command, done, sup, mon, app, early, faults>>

Fills(t) ==
  /\ In(t, "filling")
  /\ file' = task[t].cfg
  /\ task' = [task EXCEPT ![t].pc = task[t].then, ![t].cfg = "no"]
  /\ Moves(t)
  /\ UNCHANGED <<daemons, child, stopping, paused, used, command, done, sup, mon, app, early, faults>>

SpawnsDaemon(t, d) ==
  /\ In(t, "spawn") /\ daemon[d] = "none"
  /\ daemon' = [daemon EXCEPT ![d] = "booting"] /\ child' = d
  /\ Goes(t, "spawned")
  /\ Moves(t)
  /\ UNCHANGED <<seen, orphans, file, stopping, paused, used, command, done, sup, mon, app, early, faults>>

\* No configuration, no log file, no binary, no process (or none within the bound).
StartFails(t) ==
  /\ task[t].pc \in {"loading", "spawn"}
  /\ IF In(t, "spawn") /\ ~Spare THEN Faultless ELSE Faulty
  /\ Goes(t, "failed")
  /\ Moves(t)
  /\ UNCHANGED <<daemons, file, child, stopping, paused, used, command, done, sup, mon, app, early>>

\* clear_stopping is false for a reload only.
ClearsFlag(t) ==
  /\ In(t, "spawned")
  /\ stopping' = IF t = "ui" /\ Reload THEN stopping ELSE FALSE
  /\ Goes(t, Up(t))
  /\ Moves(t)
  /\ UNCHANGED <<daemons, file, child, paused, used, command, done, sup, mon, app, early, faults>>

StartStep(t) ==
  \/ FindsDaemon(t) \/ Truncates(t) \/ Fills(t)
  \/ ClearsFlag(t)
  \/ \E d \in Daemons : SpawnsDaemon(t, d)

-----------------------------------------------------------------------------
(* The commands: they run on the main thread, one at a time. *)

Foreign == {d \in Daemons : Alive(d) /\ d # child}

\* observe_start, observe_stop, and set_privacy_paused or update_sources_config.
Commands(c) ==
  /\ app = "up" /\ In("ui", "idle") /\ Spare
  /\ command' = c /\ done' = FALSE
  /\ task' = [task EXCEPT !["ui"] =
       CASE c = "start" -> [Idle EXCEPT !.pc = "running?"]
         [] c = "stop"  -> [Idle EXCEPT !.pc = "flag"]
         [] OTHER       -> [Idle EXCEPT !.pc = "loading", !.then = "flag"]]
  /\ clean' = (c # "start" /\ Foreign = {} /\ \A t \in Autos : task[t].pc \in Watching)
  /\ UNCHANGED <<daemons, file, child, stopping, paused, used, sup, mon, app, early, faults>>

\* observe_stop_inner: the flag first, then the child.
Flags ==
  /\ In("ui", "flag")
  /\ stopping' = TRUE /\ Goes("ui", "kill")
  /\ paused' = IF Reload THEN command = "pause" ELSE paused
  /\ clean' = (clean /\ (Reload \/ In("supervisor", "idle")) /\ (command = "resume" \/ In("monitor", "idle")))
  /\ early' = IF Reload /\ clean' THEN {t \in Autos : ~In(t, "idle")} ELSE {}
  /\ UNCHANGED <<daemons, file, child, used, command, done, sup, mon, app, faults>>

KillsUnflagged ==       \* the flag is forgotten when there was no child
  /\ In("ui", "kill")
  /\ IF Alive(child) THEN Dies(child) ELSE UNCHANGED daemons
  /\ stopping' = Alive(child)
  /\ child' = NoDaemon
  /\ task' = [task EXCEPT !["ui"] = [Idle EXCEPT !.pc = IF command = "stop" THEN "idle" ELSE "running?"]]
  /\ done' = (command = "stop")
  /\ UNCHANGED <<file, paused, used, command, sup, mon, app, ghosts, faults>>

Kills ==
  /\ In("ui", "kill")
  /\ IF Alive(child) THEN Dies(child) ELSE UNCHANGED daemons
  /\ child' = NoDaemon
  /\ task' = [task EXCEPT !["ui"] = [Idle EXCEPT !.pc = IF command = "stop" THEN "idle" ELSE "running?"]]
  /\ done' = (command = "stop")
  /\ UNCHANGED <<file, stopping, paused, used, command, sup, mon, app, ghosts, faults>>

EndsReload ==
  /\ In("ui", "awaiting") /\ (IF SocketAlive THEN Faultless ELSE Faulty)
  /\ stopping' = FALSE /\ Goes("ui", "idle") /\ done' = TRUE /\ early' = {}
  /\ UNCHANGED <<daemons, file, child, paused, used, command, sup, mon, app, clean>>

\* The error goes to the caller; a failed reload leaves the flag set.
Failed ==
  /\ In("ui", "failed") /\ Goes("ui", "idle") /\ early' = {}
  /\ UNCHANGED <<daemons, file, child, stopping, paused, used, command, done, sup, mon, app, clean, faults>>

UiStep == StartStep("ui") \/ Flags \/ Kills \/ EndsReload \/ Failed

-----------------------------------------------------------------------------
(* The supervisor, every two seconds. *)

S == "supervisor"
\* try_acquire: with room in the rolling window, or with what has left it since.
Budgeted ==
  \/ used < MaxRestarts /\ used' = used + 1 /\ Faultless
  \/ used > 0 /\ used' \in 1 .. used /\ Faulty

Refused == used = MaxRestarts /\ UNCHANGED used /\ Faultless

SupervisorLooks ==
  /\ In(S, "idle")
  /\ IF stopping THEN crashed' = 0 /\ UNCHANGED task ELSE UNCHANGED crashed /\ Goes(S, "probing socket")
  /\ Moves(S)
  /\ UNCHANGED <<daemons, file, child, stopping, paused, used, command, done, recent, mon, app, early, faults>>

SupervisorSeesSocket ==
  /\ In(S, "probing socket") /\ SocketAlive
  /\ crashed' = 0 /\ child' = Reaped /\ Goes(S, "idle")
  /\ Moves(S)
  /\ UNCHANGED <<daemons, file, stopping, paused, used, command, done, recent, mon, app, early, faults>>

SupervisorWaits ==
  /\ In(S, "probing socket") /\ ~SocketAlive /\ recent
  /\ Goes(S, "idle")
  /\ Moves(S)
  /\ UNCHANGED <<daemons, file, child, stopping, paused, used, command, done, sup, mon, app, early, faults>>

\* Every such tick counts as a crash, one that the budget refuses too.  The start
\* comes after a pause of up to 64 s, and does not read the flag again.
SupervisorCounts ==
  /\ In(S, "probing socket") /\ ~SocketAlive /\ ~recent
  /\ crashed' = IF crashed > GiveUpAfter THEN crashed ELSE crashed + 1
  /\ \/ crashed' > GiveUpAfter /\ UNCHANGED used /\ Faultless /\ Goes(S, "idle")
     \/ crashed' <= GiveUpAfter /\ Refused /\ Goes(S, "idle")
     \/ crashed' <= GiveUpAfter /\ Budgeted /\ Goes(S, "running?")
  /\ Moves(S)
  /\ UNCHANGED <<daemons, file, child, stopping, paused, command, done, recent, mon, app, early>>

SupervisorEnds ==
  /\ task[S].pc \in {"up", "failed"}
  /\ recent' = (recent \/ In(S, "up"))
  /\ Goes(S, "idle")
  /\ Moves(S)
  /\ UNCHANGED <<daemons, file, child, stopping, paused, used, command, done, crashed, mon, app, early, faults>>

\* Eight seconds are enough for a boot, unless it is slow.
GraceEnds ==
  /\ recent /\ recent' = FALSE
  /\ IF \E d \in Daemons : daemon[d] \in {"booting", "locking", "running"} THEN Faulty ELSE Faultless
  /\ UNCHANGED <<daemons, file, child, stopping, paused, used, task, command, done, crashed, mon, app, ghosts>>

SupervisorStep ==
  \/ SupervisorLooks \/ SupervisorSeesSocket \/ SupervisorWaits \/ SupervisorCounts
  \/ SupervisorEnds \/ StartStep(S)

-----------------------------------------------------------------------------
(* The health monitor, every thirty seconds. *)

M == "monitor"

MonitorLooks ==
  /\ In(M, "idle")
  /\ IF stopping THEN stagnant' = 0 /\ UNCHANGED task ELSE Goes(M, "paused?") /\ UNCHANGED stagnant
  /\ Moves(M)
  /\ UNCHANGED <<daemons, file, child, stopping, paused, used, command, done, sup, alerted, app, early, faults>>

MonitorSeesPause ==
  /\ In(M, "paused?")
  /\ IF paused THEN stagnant' = 0 /\ Goes(M, "idle") ELSE Goes(M, "probing socket") /\ UNCHANGED stagnant
  /\ Moves(M)
  /\ UNCHANGED <<daemons, file, child, stopping, paused, used, command, done, sup, alerted, app, early, faults>>

More(ticks) == IF ticks < HealTicks THEN ticks + 1 ELSE ticks
HealingDue == stagnant' = HealTicks /\ ~alerted

\* A daemon that is down is restarted when a healing is due: neither flag is read
\* again.
MonitorSeesNone ==
  /\ In(M, "probing socket") /\ ~SocketAlive
  /\ stagnant' = More(stagnant)
  /\ Goes(M, IF HealingDue THEN "acquiring" ELSE "idle")
  /\ Moves(M)
  /\ UNCHANGED <<daemons, file, child, stopping, paused, used, command, done, sup, alerted, app, early, faults>>

\* One that answers is asked for its events: they flow, stand still, or tell nothing,
\* the first count or none.  (The count, which is awaited, is read by the monitor alone.)
\* A healing that is due goes on to Lumen Cua.
MonitorCounts(events) ==
  /\ In(M, "probing socket") /\ SocketAlive
  /\ stagnant' = CASE events = "flow" -> 0 [] events = "still" -> More(stagnant) [] OTHER -> stagnant
  /\ Goes(M, IF HealingDue THEN "failed" ELSE "idle")
  /\ alerted' = (alerted /\ stagnant' # 0)
  /\ Moves(M)
  /\ UNCHANGED <<daemons, file, child, stopping, paused, used, command, done, sup, app, early, faults>>

MonitorAcquires ==
  /\ In(M, "acquiring")
  /\ \/ Budgeted /\ Goes(M, "running?")
     \/ Refused /\ Goes(M, "failed")
  /\ Moves(M)
  /\ UNCHANGED <<daemons, file, child, stopping, paused, command, done, sup, mon, app, early>>

\* What was restarted is healed, and so is a Lumen Cua that answers.
MonitorEnds(healed) ==
  /\ task[M].pc \in {"up", "failed"} /\ (In(M, "up") => healed)
  /\ stagnant' = (IF healed THEN 0 ELSE stagnant) /\ alerted' = ~healed
  /\ Goes(M, "idle")
  /\ Moves(M)
  /\ UNCHANGED <<daemons, file, child, stopping, paused, used, command, done, sup, app, early, faults>>

MonitorStep ==
  \/ MonitorLooks \/ MonitorSeesPause \/ MonitorSeesNone \/ MonitorAcquires
  \/ \E events \in {"flow", "still", "unknown"} : MonitorCounts(events)
  \/ (\E healed \in BOOLEAN : MonitorEnds(healed)) \/ StartStep(M)

-----------------------------------------------------------------------------
(* The shell's life. *)

\* Quit: the owned child is stopped.  Killed: it is orphaned.
Leaves(killed) ==
  /\ app = "up" /\ app' = "down"
  /\ Faulty /\ (killed \/ \A t \in Tasks : In(t, "idle"))
  /\ daemon' = [d \in Daemons |-> IF d = child /\ ~killed THEN "dead" ELSE daemon[d]]
  /\ orphans' = {d \in Daemons : daemon'[d] \notin {"none", "dead"}}
  /\ seen' = [d \in Daemons |-> d \in orphans' /\ seen[d]]
  /\ child' = NoDaemon /\ stopping' = FALSE /\ used' = 0
  /\ task' = [t \in Tasks |-> Idle] /\ command' = "none" /\ done' = FALSE
  /\ crashed' = 0 /\ recent' = FALSE /\ stagnant' = 0 /\ alerted' = FALSE
  /\ clean' = FALSE /\ early' = {}
  /\ UNCHANGED <<file, paused>>

\* The pause that is shown is the file's.  With launch_observe the first command,
\* a start, is the shell's own.
LaunchesShell ==
  /\ app = "down" /\ Spare /\ app' = "up"
  /\ paused' = (file = "yes")
  /\ UNCHANGED <<daemons, file, child, stopping, used, task, command, done, sup, mon, ghosts, faults>>

-----------------------------------------------------------------------------
(* The daemon. *)

\* Without a configuration it runs with the default's data directory.
ReadsConfig(d) ==
  /\ daemon[d] = "booting"
  /\ daemon' = [daemon EXCEPT ![d] = IF file = "torn" THEN "elsewhere" ELSE "locking"]
  /\ seen' = [seen EXCEPT ![d] = (file = "yes")]
  /\ UNCHANGED <<orphans, file, child, stopping, paused, used, task, command, done, sup, mon, app, ghosts, faults>>

TakesLock(d) ==
  /\ daemon[d] = "locking"
  /\ IF \E e \in Daemons : daemon[e] \in {"running", "serving"} THEN Dies(d)
     ELSE daemon' = [daemon EXCEPT ![d] = "running"] /\ UNCHANGED <<seen, orphans>>
  /\ UNCHANGED <<file, child, stopping, paused, used, task, command, done, sup, mon, app, ghosts, faults>>

BindsControl(d) ==
  /\ daemon[d] = "running"
  /\ daemon' = [daemon EXCEPT ![d] = "serving"]
  /\ UNCHANGED <<seen, orphans, file, child, stopping, paused, used, task, command, done, sup, mon, app, ghosts, faults>>

Boots(d) == ReadsConfig(d) \/ TakesLock(d) \/ BindsControl(d)

DaemonCrashes(d) ==
  /\ Alive(d) /\ Faulty /\ Dies(d)
  /\ UNCHANGED <<file, child, stopping, paused, used, task, command, done, sup, mon, app, ghosts>>

\* The parent watchdog.
ParentWatchdog(d) ==
  /\ d \in orphans /\ Dies(d)
  /\ UNCHANGED <<file, child, stopping, paused, used, task, command, done, sup, mon, app, ghosts, faults>>

ObserveRest == ~Spare /\ In("ui", "idle") /\ UNCHANGED observeVars

ObserveNext ==
  \/ \E c \in {"start", "stop", "pause", "resume"} : Commands(c)
  \/ UiStep \/ SupervisorStep \/ MonitorStep \/ GraceEnds
  \/ \E t \in Tasks : StartFails(t)
  \/ (\E killed \in BOOLEAN : Leaves(killed)) \/ LaunchesShell
  \/ \E d \in Daemons : Boots(d) \/ DaemonCrashes(d) \/ ParentWatchdog(d)
  \/ ObserveRest

ObserveSpec == ObserveInit /\ [][ObserveNext]_observeVars

-----------------------------------------------------------------------------
(* Properties. *)

\* When a stop has returned, the daemon is gone and nothing brings it back: not the
\* supervisor, not the monitor.  The exceptions: an automatic start overlapped it, a
\* daemon of an earlier shell was left, or the supervisor or the monitor had read the
\* flag before the stop set it - both probe the socket and start without a second look.
StopHolds ==
  command = "stop" /\ done /\ clean => \A d \in Daemons : ~Alive(d)

\* When a change of the pause has returned Ok, no daemon works with the old setting,
\* then or after any later crash and restart.  The exceptions: an automatic start
\* overlapped it, the daemon was not the shell's own, or the monitor had read the
\* flags before a pause set them, and may yet start beside the supervisor.
PauseHolds ==
  Reload /\ done /\ clean =>
    \A d \in Daemons : daemon[d] \in {"locking", "running", "serving"} => seen[d] = (command = "pause")

\* Stop and pause are kept, against the tasks that start the daemon on their own.
CommandsHold == StopHolds /\ PauseHolds

\* A reload has set the flag and not given it back.
Reloading ==
  Reload /\ (In("ui", "kill") \/ (task["ui"].then = "spawn" /\ task["ui"].pc \notin {"idle", "failed"}))

\* A reload is not taken for a crash: while one is under way the budget pays only for
\* a restart by one who had read the flag before the reload set it (or another start
\* overlaps, and clears the flag).
ReloadSparesBudget ==
  [][\A t \in Autos : ~In(t, "running?") /\ task'[t].pc = "running?" /\ Reloading /\ clean
       => t \in early]_observeVars

\* What the user commands is done, and costs the shell nothing it needs later.
CommandsKept == []CommandsHold /\ ReloadSparesBudget

\* The pause is a hard stop: once it has been set, no daemon works without it.
PauseStops ==
  command = "pause" /\ done => \A d \in Daemons : daemon[d] \in {"locking", "running", "serving"} => seen[d]
=============================================================================
