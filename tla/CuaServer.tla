----------------------------- MODULE CuaServer ------------------------------
(***************************************************************************)
(* Lumen Cua as a service: processes started with `serve`, which claim one *)
(* socket path in several steps, and the desktop's controller, which       *)
(* probes the path, launches another process when nothing answers in time, *)
(* and restarts the service after a permission has changed.  The           *)
(* controller's mutex lets one call through at a time; the processes it    *)
(* launches it does not own.                                               *)
(***************************************************************************)
EXTENDS Naturals, FiniteSets

CONSTANTS
  Servers,      \* processes, one per launch
  NoServer,
  MaxMishaps    \* bound: crashes, and probes that time out on a busy server

ASSUME ServerAssumption == NoServer \notin Servers /\ MaxMishaps \in Nat

VARIABLES
  proc,         \* proc[s]: where the process is
  sock,         \* whose socket file is at the path
  raced,        \* two processes have claimed the path at the same time
  loose,        \* still starting when the call that launched them went on
  control,      \* the controller's call: [pc, goal]
  stale,        \* processes launched before the restart in progress began
  answered,     \* the server that answered the last verification
  mishaps

serverVars == <<proc, sock, raced, loose, control, stale, answered, mishaps>>

Unstarted == {s \in Servers : proc[s] = "none"}
Starting  == {s \in Servers : proc[s] \in {"looking", "removing", "binding", "securing"}}
Claiming  == {s \in Servers : proc[s] \in {"removing", "binding", "securing"}}

\* A connect succeeds until the listener is dropped; a request is answered
\* until the accept loop ends.
Listening(s) == s # NoServer /\ proc[s] \in {"securing", "serving", "told", "closing"}
Answering(s) == s # NoServer /\ proc[s] \in {"serving", "told"}

ServerTypeOK ==
  /\ proc \in [Servers -> {"none", "looking", "removing", "binding", "securing",
                           "serving", "told", "closing", "gone"}]
  /\ sock # NoServer => proc[sock] \notin {"none", "looking", "removing", "binding"}
  /\ control.goal = "ensure" => stale = {}

ServerInit ==
  /\ proc = [s \in Servers |-> "none"] /\ sock = NoServer
  /\ raced = FALSE /\ loose = {}
  /\ control = [pc |-> "idle", goal |-> "ensure"] /\ stale = {} /\ answered = NoServer
  /\ mishaps = 0

-----------------------------------------------------------------------------
(* serve(). *)

Becomes(s, state) == proc' = [proc EXCEPT ![s] = state]
Controller == <<loose, control, stale, answered, mishaps>>

LooksAtFileOnly(s) ==      \* any file that is there is stale
  /\ proc[s] = "looking"
  /\ Becomes(s, IF sock = NoServer THEN "binding" ELSE "removing")
  /\ raced' = (raced \/ (~Listening(sock) /\ Claiming # {}))
  /\ UNCHANGED <<sock, Controller>>

\* exists, then connect: a live server is left alone.
LooksAtPath(s) ==
  /\ proc[s] = "looking"
  /\ Becomes(s, IF sock = NoServer THEN "binding"
                ELSE IF Listening(sock) THEN "gone" ELSE "removing")
  /\ raced' = (raced \/ (~Listening(sock) /\ Claiming # {}))
  /\ UNCHANGED <<sock, Controller>>

RemovesFile(s) ==
  /\ proc[s] = "removing"
  /\ Becomes(s, IF sock = NoServer THEN "gone" ELSE "binding")
  /\ sock' = NoServer
  /\ UNCHANGED <<raced, Controller>>

BindsSocket(s) ==
  /\ proc[s] = "binding"
  /\ IF sock = NoServer THEN sock' = s /\ Becomes(s, "securing")
     ELSE UNCHANGED sock /\ Becomes(s, "gone")
  /\ UNCHANGED <<raced, Controller>>

\* set_permissions, on the path.
SecuresSocket(s) ==
  /\ proc[s] = "securing"
  /\ Becomes(s, IF sock = NoServer THEN "gone" ELSE "serving")
  /\ UNCHANGED <<sock, raced, Controller>>

\* The Shutdown command was answered; the accept loop learns of it.
LoopEnds(s) ==
  /\ proc[s] = "told" /\ Becomes(s, "closing")
  /\ UNCHANGED <<sock, raced, Controller>>

\* Whatever file is at the path is removed.
Closes(s) ==
  /\ proc[s] = "closing" /\ Becomes(s, "gone") /\ sock' = NoServer
  /\ UNCHANGED <<raced, Controller>>

ServerStep(s) ==
  \/ LooksAtPath(s) \/ RemovesFile(s) \/ BindsSocket(s) \/ SecuresSocket(s)
  \/ LoopEnds(s) \/ Closes(s)

ServerCrashes(s) ==
  /\ proc[s] \notin {"none", "gone"} /\ mishaps < MaxMishaps
  /\ mishaps' = mishaps + 1 /\ Becomes(s, "gone")
  /\ UNCHANGED <<sock, raced, loose, control, stale, answered>>

-----------------------------------------------------------------------------
(* The controller. *)

Doing(pc) == control.pc = pc
Does(pc) == control' = [control EXCEPT !.pc = pc]

\* ensure_running, status, or refresh_screen_permission.
Calls(goal) ==
  /\ Doing("idle") /\ Unstarted # {}
  /\ control' = [pc |-> "probing", goal |-> goal]
  /\ stale' = IF goal = "restart" THEN {s \in Servers : proc[s] # "none"} ELSE {}
  /\ UNCHANGED <<proc, sock, raced, loose, answered, mishaps>>

\* The probe, first and last, and what follows when it is answered: a
\* restart's first client is told to stop, its second is verified.
Answered ==
  /\ Answering(sock)
  /\ Does(IF control.goal = "restart" THEN "stopping" ELSE "idle")
  /\ IF control.goal = "verify"
     THEN answered' = sock ELSE answered' = NoServer
  /\ loose' = loose \cup Starting
  /\ UNCHANGED <<proc, sock, raced, stale, mishaps>>

Probes == Doing("probing") /\ Answered

\* 500 ms without an answer; a busy server may need longer.
ProbesInVain ==
  /\ Doing("probing")
  /\ IF Answering(sock) THEN mishaps < MaxMishaps /\ mishaps' = mishaps + 1 ELSE UNCHANGED mishaps
  /\ Does("launching")
  /\ UNCHANGED <<proc, sock, raced, loose, stale, answered>>

LaunchesServer(s) ==
  /\ Doing("launching") /\ proc[s] = "none"
  /\ Becomes(s, "looking") /\ Does("awaiting path")
  /\ UNCHANGED <<sock, raced, loose, stale, answered, mishaps>>

\* wait_for_path_state(true): any file at the path will do.
FindsPath ==
  /\ Doing("awaiting path") /\ sock # NoServer
  /\ Does("awaiting answer")
  /\ UNCHANGED <<proc, sock, raced, loose, stale, answered, mishaps>>

FindsAnswer == Doing("awaiting answer") /\ Answered

\* Deadlines: the path, the answer, or the path's removal.  What was launched and
\* is still starting is left to itself.
GivesUp ==
  /\ \/ Doing("awaiting path") /\ sock = NoServer
     \/ Doing("awaiting answer") /\ ~Answering(sock)
     \/ Doing("awaiting removal") /\ sock # NoServer
  /\ loose' = loose \cup Starting
  /\ Does("idle")
  /\ UNCHANGED <<proc, sock, raced, stale, answered, mishaps>>

\* client.shutdown(): acknowledged, or the call fails.
Stops ==
  /\ Doing("stopping")
  /\ IF Answering(sock) THEN Becomes(sock, "told") /\ Does("awaiting removal")
     ELSE UNCHANGED proc /\ Does("idle")
  /\ UNCHANGED <<sock, raced, loose, stale, answered, mishaps>>

\* The second ensure of a restart, for the client that is verified.
SeesRemoval ==
  /\ Doing("awaiting removal") /\ sock = NoServer /\ Unstarted # {}
  /\ control' = [pc |-> "probing", goal |-> "verify"]
  /\ UNCHANGED <<proc, sock, raced, loose, stale, answered, mishaps>>

ServerRest == Unstarted = {} /\ UNCHANGED serverVars

ServerNext ==
  \/ \E s \in Servers : ServerStep(s) \/ ServerCrashes(s) \/ LaunchesServer(s)
  \/ \E goal \in {"ensure", "restart"} : Calls(goal)
  \/ Probes \/ ProbesInVain \/ FindsPath \/ FindsAnswer \/ GivesUp \/ Stops \/ SeesRemoval
  \/ ServerRest

ServerSpec == ServerInit /\ [][ServerNext]_serverVars

-----------------------------------------------------------------------------
(* Properties. *)

\* A server that serves is the one a client reaches, across crashes, stale
\* files, slow starts and restarts, as long as no two starts overlapped between
\* their look at the path and their bind (which a launch that was given up
\* too early, followed by another, makes possible).
ServedIsReachable ==
  \A s \in Servers : proc[s] \in {"serving", "told"} /\ ~raced => sock = s

\* The server that a restart verifies was launched by that restart, and so sees
\* the permission that was changed before it; the one exception is a process of
\* an earlier call that was still starting when that call went on.
RestartIsFresh ==
  control.goal = "verify" /\ answered # NoServer =>
    answered \notin stale \/ answered \in loose \/ raced

\* Who answers at the path is the server that is meant.
ServerTrue == ServedIsReachable /\ RestartIsFresh
=============================================================================
