----------------------------- MODULE ActDriver ------------------------------
(***************************************************************************)
(* The embedded cua-driver inside Lumen Cua: connections that each run     *)
(* ensure() on a blocking thread, the one slot that holds the child, the   *)
(* socket path the driver binds, and the end of the server.  The slot's    *)
(* mutex is held for single steps only, so ensures interleave.             *)
(*                                                                         *)
(* A driver leaves when the pipe to its parent closes; that, and when it   *)
(* binds its socket, is the driver's own behaviour.                        *)
(***************************************************************************)
EXTENDS Naturals, FiniteSets

CONSTANTS
  Drivers,        \* driver processes, one per spawn
  Callers,        \* connections that call ensure
  NoDriver,
  MaxCrashes      \* bound: drivers that die on their own

ASSUME DriverAssumption == NoDriver \notin Drivers /\ MaxCrashes \in Nat

VARIABLES
  child,      \* child[d]: "none", "starting", "serving" or "dead"
  pipe,       \* drivers whose stdin this process holds open
  slot,       \* DRIVER: the driver the slot holds
  path,       \* whose socket file is at driver_socket
  ensure,     \* ensure[c]: where the call of c is
  mine,       \* mine[c]: the driver c spawned and has not put in the slot yet
  calm,       \* callers whose ensure nothing has overlapped so far
  server,     \* "serving", "told" to end, "draining" or "exited"
  crashes

driverVars == <<child, pipe, slot, path, ensure, mine, calm, server, crashes>>

Alive(d) == d # NoDriver /\ child[d] \in {"starting", "serving"}

\* socket_live: a connect succeeds.
SocketLive == path # NoDriver /\ child[path] = "serving"

Strays == {d \in Drivers : Alive(d) /\ d \notin pipe}

DriverTypeOK ==
  /\ child \in [Drivers -> {"none", "starting", "serving", "dead"}]
  /\ slot \in Drivers \cup {NoDriver} /\ path \in Drivers \cup {NoDriver}
  /\ \A c \in Callers : (ensure[c] = "settling") <=> (mine[c] # NoDriver)
  /\ \A d \in Drivers : child[d] = "none" => d # slot /\ d # path /\ d \notin pipe

DriverInit ==
  /\ child = [d \in Drivers |-> "none"] /\ pipe = {}
  /\ slot = NoDriver /\ path = NoDriver
  /\ ensure = [c \in Callers |-> "idle"] /\ mine = [c \in Callers |-> NoDriver]
  /\ calm = {} /\ server = "serving" /\ crashes = 0

Reaches(c, pc) == ensure' = [ensure EXCEPT ![c] = pc]

-----------------------------------------------------------------------------
(* ensure(), step by step. *)

\* The bound: every call in flight finds a driver to spawn.
Spare == Cardinality({d \in Drivers : child[d] = "none"})
           > Cardinality({c \in Callers : ensure[c] \in {"looking", "checking", "stopping", "spawning"}})

\* The policy and skill files are written first.
Begins(c) ==
  /\ server \in {"serving", "told"} /\ ensure[c] = "idle" /\ Spare
  /\ Reaches(c, "looking")
  /\ calm' = IF Strays = {} /\ \A o \in Callers \ {c} : ensure[o] = "idle" THEN {c} ELSE {}
  /\ UNCHANGED <<child, pipe, slot, path, mine, server, crashes>>

Looks(c) ==
  /\ ensure[c] = "looking"
  /\ Reaches(c, IF SocketLive THEN "checking" ELSE "stopping")
  /\ UNCHANGED <<child, pipe, slot, path, mine, calm, server, crashes>>

\* child_alive: an exited child is taken out of the slot.
Reaped == IF Alive(slot) THEN slot ELSE NoDriver

Checks(c) ==
  /\ ensure[c] = "checking"
  /\ slot' = Reaped
  /\ Reaches(c, IF Alive(slot) THEN "ok" ELSE "stopping")
  /\ UNCHANGED <<child, pipe, path, mine, calm, server, crashes>>

\* stop: kill, wait, and remove whatever file is at the path.
Stopped ==
  IF slot = NoDriver THEN UNCHANGED <<child, pipe, slot, path>>
  ELSE /\ child' = [child EXCEPT ![slot] = "dead"] /\ pipe' = pipe \ {slot}
       /\ slot' = NoDriver /\ path' = NoDriver

StopsOld(c) ==
  /\ ensure[c] = "stopping"
  /\ Stopped
  /\ Reaches(c, "spawning")
  /\ UNCHANGED <<mine, calm, server, crashes>>

Spawns(c, d) ==
  /\ ensure[c] = "spawning" /\ child[d] = "none"
  /\ child' = [child EXCEPT ![d] = "starting"] /\ pipe' = pipe \cup {d}
  /\ path' = NoDriver
  /\ mine' = [mine EXCEPT ![c] = d] /\ Reaches(c, "settling")
  /\ UNCHANGED <<slot, calm, server, crashes>>

\* 50 ms later: a driver that has exited is an error, else it takes the slot.
\* The process the slot held is dropped: not killed, but its pipe closes.
SettlesKeeping(c) ==       \* the old process is leaked with its pipe
  /\ ensure[c] = "settling"
  /\ IF Alive(mine[c])
     THEN slot' = mine[c] /\ UNCHANGED pipe /\ Reaches(c, "waiting")
     ELSE pipe' = pipe \ {mine[c]} /\ Reaches(c, "failed") /\ UNCHANGED slot
  /\ mine' = [mine EXCEPT ![c] = NoDriver]
  /\ UNCHANGED <<child, path, calm, server, crashes>>

Settles(c) ==
  /\ ensure[c] = "settling"
  /\ IF Alive(mine[c])
     THEN slot' = mine[c] /\ pipe' = pipe \ {slot} /\ Reaches(c, "waiting")
     ELSE pipe' = pipe \ {mine[c]} /\ Reaches(c, "failed") /\ UNCHANGED slot
  /\ mine' = [mine EXCEPT ![c] = NoDriver]
  /\ UNCHANGED <<child, path, calm, server, crashes>>

\* wait_for_socket: one look at the socket, then one at the child.
WaitsWell(c) ==
  /\ ensure[c] = "waiting" /\ SocketLive
  /\ Reaches(c, "ok")
  /\ UNCHANGED <<child, pipe, slot, path, mine, calm, server, crashes>>

WaitsInVain(c) ==
  /\ ensure[c] = "waiting" /\ ~SocketLive /\ ~Alive(slot)
  /\ slot' = NoDriver
  /\ Reaches(c, "taking")
  /\ UNCHANGED <<child, pipe, path, mine, calm, server, crashes>>

\* Whatever the slot holds by now is taken out and dropped.
Takes(c) ==
  /\ ensure[c] = "taking"
  /\ slot' = NoDriver /\ pipe' = pipe \ {slot}
  /\ Reaches(c, "failed")
  /\ UNCHANGED <<child, path, mine, calm, server, crashes>>

\* 8 seconds without a socket.
DeadlinePasses(c) ==
  /\ ensure[c] = "waiting" /\ ~SocketLive
  /\ Reaches(c, "failed")
  /\ UNCHANGED <<child, pipe, slot, path, mine, calm, server, crashes>>

Answers(c) ==
  /\ ensure[c] \in {"ok", "failed"}
  /\ Reaches(c, "idle") /\ calm' = calm \ {c}
  /\ UNCHANGED <<child, pipe, slot, path, mine, server, crashes>>

EnsureStep(c) ==
  \/ Looks(c) \/ Checks(c) \/ StopsOld(c) \/ Settles(c)
  \/ WaitsWell(c) \/ WaitsInVain(c) \/ Takes(c) \/ DeadlinePasses(c) \/ Answers(c)
  \/ \E d \in Drivers : Spawns(c, d)

-----------------------------------------------------------------------------
(* The server and the drivers. *)

\* Shutdown stops the driver and answers; other connections go on meanwhile.
ShutdownCommand ==
  /\ server = "serving" /\ server' = "told"
  /\ Stopped /\ calm' = {}
  /\ UNCHANGED <<ensure, mine, crashes>>

\* The accept loop ends, and stops the driver again.
AcceptEnds ==
  /\ server = "told" /\ server' = "draining"
  /\ Stopped /\ calm' = {}
  /\ UNCHANGED <<ensure, mine, crashes>>

\* The runtime waits for its blocking threads; the exit closes every pipe.
Exits ==
  /\ server = "draining" /\ \A c \in Callers : ensure[c] = "idle"
  /\ server' = "exited" /\ pipe' = {} /\ slot' = NoDriver
  /\ UNCHANGED <<child, path, ensure, mine, calm, crashes>>

\* A driver finds the path free or replaces what is there.
Binds(d) ==
  /\ child[d] = "starting"
  /\ child' = [child EXCEPT ![d] = "serving"] /\ path' = d
  /\ UNCHANGED <<pipe, slot, ensure, mine, calm, server, crashes>>

CrashesAlone(d) ==
  /\ Alive(d) /\ crashes < MaxCrashes
  /\ crashes' = crashes + 1
  /\ child' = [child EXCEPT ![d] = "dead"] /\ calm' = {}
  /\ UNCHANGED <<pipe, slot, path, ensure, mine, server>>

ParentGone(d) ==
  /\ Alive(d) /\ d \notin pipe
  /\ child' = [child EXCEPT ![d] = "dead"]
  /\ UNCHANGED <<pipe, slot, path, ensure, mine, calm, server, crashes>>

DriverRest ==
  /\ server = "exited" \/ (~Spare /\ \A c \in Callers : ensure[c] = "idle")
  /\ UNCHANGED driverVars

DriverNext ==
  \/ \E c \in Callers : Begins(c) \/ EnsureStep(c)
  \/ ShutdownCommand \/ AcceptEnds \/ Exits
  \/ \E d \in Drivers : Binds(d) \/ CrashesAlone(d) \/ ParentGone(d)
  \/ DriverRest

DriverSpec == DriverInit /\ [][DriverNext]_driverVars

-----------------------------------------------------------------------------
(* Properties. *)

Tracked == {slot} \cup {mine[c] : c \in Callers}

\* However ensures, failed starts, shutdowns and crashes interleave, a live
\* driver that still has its pipe is the slot's or one that its ensure is
\* about to put there: no driver is forgotten with the pipe open, where
\* nothing could ever end it.
DriversAccounted == \A d \in Drivers : Alive(d) /\ d \in pipe => d \in Tracked

\* An ensure that says yes, and that no other ensure, shutdown, stray driver or
\* crash overlapped, leaves the slot's own driver serving at the path.
LoneEnsureServes ==
  \A c \in calm : ensure[c] = "ok" => slot # NoDriver /\ path = slot /\ child[slot] = "serving"

\* One driver answers, and none is forgotten.
DriversTrue == DriversAccounted /\ LoneEnsureServes
=============================================================================
