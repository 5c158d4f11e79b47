---------------------------- MODULE InputReplay -----------------------------
(***************************************************************************)
(* InputReplay in Lumen Cua: the steps of a replay, run one after the      *)
(* other on a blocking thread, either through the embedded driver or, when *)
(* none is bundled, by posting input behind four gates.  Each request runs *)
(* on a thread of its own, and goes on when its client has given up.       *)
(*                                                                         *)
(* The user moves meanwhile: the front application, the space and the      *)
(* windows change between the reading of the gates and the input.          *)
(***************************************************************************)
EXTENDS Naturals, FiniteSets, Sequences

CONSTANTS
  Replays,      \* requests
  Apps,         \* applications that steps are for
  User,         \* the application the user works in
  MaxSteps      \* bound: steps of a request (the code takes up to 16)

ASSUME ReplayAssumption == User \notin Apps /\ MaxSteps \in Nat \ {0}

VARIABLES
  route,      \* "driver" when its binary is bundled, else "native"
  front,      \* the frontmost application
  here,       \* applications whose window is on the current space
  top,        \* applications whose window is topmost at the click point
  idle,       \* no input from the user for PRESENCE_BUSY_SECS
  held,       \* the focus lock is held
  replay,     \* replay[r]: [pc, left, step, gates]
  moved,      \* replays whose gates were outdated since they were read, by the user
              \* or by what another replay brought to the front
  calls       \* tools the driver was asked for last: [tool, mode, keys]

replayVars == <<route, front, here, top, idle, held, replay, moved, calls>>
desktop    == <<front, here, top, idle>>

\* "key" stands for shortcut, submit and type too: they pass the same gates.
NativeActions == {"focus", "click", "key"}
DriverActions == NativeActions \cup {"launch", "submit", "type", "scroll", "page", "cursor"}
KeyKinds      == {"none", "plain", "combo", "addressbar"}

\* The parts of an InputStep that the code decides on.  "skip" is a step the
\* stop-lines refuse or a dry one; how a click names its place is its `place`.
NativeSteps ==
  [action : NativeActions, app : Apps, allow : BOOLEAN, skip : {FALSE}]
  \cup [action : {"focus"}, app : Apps, allow : {FALSE}, skip : {TRUE}]
SkippedStep == [action |-> "cursor", keys |-> "none", window |-> FALSE, place |-> "none", skip |-> TRUE]
DriverSteps ==
  {SkippedStep}
  \cup [action : {"click"}, keys : {"none"}, window : BOOLEAN,
        place : {"token", "xy", "relative", "none"}, skip : {FALSE}]
  \cup [action : {"key", "submit"}, keys : KeyKinds, window : BOOLEAN, place : {"none"}, skip : {FALSE}]
  \cup [action : DriverActions \ {"click", "key", "submit"}, keys : {"none"}, window : BOOLEAN,
        place : {"none"}, skip : {FALSE}]

NoStep == [action |-> "none"]
NoGates == [cross |-> TRUE, front |-> TRUE, top |-> TRUE, present |-> TRUE, lock |-> TRUE]

\* Where a replay waits for the driver's command-line tool, and nothing else.
Waits == {"ensuring", "opening", "calling", "closing"}

ReplayTypeOK ==
  /\ front \in Apps \cup {User} /\ here \cup top \subseteq Apps
  /\ \A r \in Replays :
       /\ replay[r].left \in 0 .. MaxSteps
       /\ (replay[r].step = NoStep) <=> (replay[r].pc \in {"new", "next", "done", "error"} \cup Waits)
       /\ r \in moved => replay[r].pc \in {"last look", "acting"}

ReplayInit ==
  /\ route \in {"driver", "native"}
  /\ front = User /\ here = Apps /\ top = Apps /\ idle = FALSE /\ held = FALSE
  /\ replay = [r \in Replays |-> [pc |-> "new", left |-> 0, step |-> NoStep, gates |-> NoGates]]
  /\ moved = {} /\ calls = {}

-----------------------------------------------------------------------------
(* The user. *)

\* Replays that have read their gates and not acted yet.
Looked == {r \in Replays : replay[r].pc \in {"last look", "acting"}}

\* (The driver path reads nothing of the desktop itself.)
Moves(f, h, t) ==
  /\ route = "native"
  /\ front' = f /\ here' = h /\ top' = t /\ desktop' # desktop
  /\ moved' = Looked
  /\ UNCHANGED <<route, held, replay, calls>>

UserMoves == idle' = FALSE /\ \E f \in Apps \cup {User}, h, t \in SUBSET Apps : Moves(f, h, t)

\* Two seconds without input.
UserRests ==
  /\ route = "native" /\ ~idle /\ idle' = TRUE
  /\ UNCHANGED <<route, front, here, top, held, replay, moved, calls>>

-----------------------------------------------------------------------------
(* The gates. *)

GatesOf(s) ==
  [cross   |-> s.app \in here,
   front   |-> s.allow => front = s.app,
   top     |-> s.allow /\ s.action = "click" => s.app \in top,
   present |-> s.allow => idle,
   lock    |-> ~held]

Blocking(g) == ~g.cross \/ ~g.front \/ ~g.top \/ ~g.lock

At(r, pc) == replay[r].pc = pc
Step(r) == replay[r].step

\* The step has its result: the next one, after a pause, or the end, which the
\* driver is told.
Done(r) ==
  /\ replay' = [replay EXCEPT ![r] =
       [pc |-> IF @.left > 1 THEN "next" ELSE IF route = "driver" THEN "closing" ELSE "done",
        left |-> @.left - 1, step |-> NoStep, gates |-> NoGates]]
  /\ moved' = moved \ {r}

Goes(r, pc, g) ==
  /\ replay' = [replay EXCEPT ![r].pc = pc, ![r].gates = g]
  /\ moved' = moved \ {r}

\* replay: an empty request and one of more than 16 steps are errors.
Requests(r, n) ==
  /\ At(r, "new")
  /\ replay' = [replay EXCEPT ![r].pc = IF route = "driver" THEN "ensuring" ELSE "next", ![r].left = n]
  /\ UNCHANGED <<route, desktop, held, moved, calls>>

SettledUnasked(s) ==      \* allow_foreground is not looked at
  \/ s.action = "focus" /\ front = s.app /\ s.app \in here
  \/ s.action = "click" /\ s.app \notin here
  \/ s.skip

\* run_step up to its gates: what needs none has its result at once.
Settled(s) ==
  \/ s.action = "focus" /\ (~s.allow \/ (front = s.app /\ s.app \in here))
  \/ s.action = "click" /\ s.app \notin here
  \/ s.skip

TakesStep(r, s) ==
  /\ IF Settled(s) THEN Done(r)
     ELSE /\ replay' = [replay EXCEPT ![r].pc = "gating", ![r].step = s]
          /\ UNCHANGED moved
  /\ UNCHANGED <<route, desktop, held, calls>>

\* wait_and_evaluate: a busy user is waited for, every gate read anew.
ReadsGatesPatiently(r, late) ==      \* no PRESENCE_WAIT_MAX_SECS
  /\ At(r, "gating")
  /\ LET g == GatesOf(Step(r)) IN
       IF ~g.present THEN UNCHANGED <<replay, moved>>
       ELSE IF Blocking(g) THEN Done(r) ELSE Goes(r, "acting", NoGates)
  /\ UNCHANGED <<route, desktop, held, calls>>

ReadsGates(r, late) ==
  /\ At(r, "gating")
  /\ LET g == GatesOf(Step(r)) IN
       IF ~g.present
       THEN late /\ Goes(r, "last look", g)
       ELSE IF Blocking(g) THEN Done(r) ELSE Goes(r, "acting", NoGates)
  /\ UNCHANGED <<route, desktop, held, calls>>

\* presence_after_wait: presence is read once more, the other gates are not.
LooksAgain(r) ==
  /\ At(r, "last look")
  /\ IF ~idle \/ Blocking(replay[r].gates) THEN Done(r)
     ELSE /\ replay' = [replay EXCEPT ![r].pc = "acting", ![r].gates = NoGates]
          /\ UNCHANGED moved
  /\ UNCHANGED <<route, desktop, held, calls>>

\* Input goes to the process, whatever is in front by now.
Posts(r) ==
  /\ At(r, "acting") /\ Step(r).action # "focus"
  /\ Done(r)
  /\ UNCHANGED <<route, desktop, held, calls>>

\* The one step that takes the focus lock, and the front.  An activation that
\* fails ends the whole replay.
Activates(r) ==
  /\ At(r, "acting") /\ Step(r).action = "focus"
  /\ IF held THEN Done(r) /\ UNCHANGED <<front, held>>
     ELSE /\ held' = TRUE /\ front' = Step(r).app
          /\ replay' = [replay EXCEPT ![r].pc = "holding"]
          /\ moved' = (IF front' = front THEN moved ELSE Looked) \ {r}
  /\ UNCHANGED <<route, here, top, idle, calls>>

Releases(r, ok) ==
  /\ At(r, "holding") /\ held' = FALSE
  /\ IF ok THEN Done(r)
     ELSE /\ replay' = [replay EXCEPT ![r].pc = "error", ![r].step = NoStep]
          /\ UNCHANGED moved
  /\ UNCHANGED <<route, desktop, calls>>

-----------------------------------------------------------------------------
(* Through the driver: the tools a step is mapped to. *)

Call(tool, mode, keys) == [tool |-> tool, mode |-> mode, keys |-> keys]
Plain(tool) == Call(tool, "none", "none")
Behind(tool) == Call(tool, "background", "none")

\* resolve_target: the step's application is launched (again) for its pid, and
\* its windows are listed when the launch named none.
Resolving(s) == {Plain("launch_app")} \cup (IF s.window THEN {} ELSE {Plain("list_windows")})

\* map_step, and the window state a relative click is turned into pixels with.
\* No tools: the mapping refuses the step.
Tools(s) ==
  CASE s.action \in {"launch", "focus"} -> {Plain("launch_app")}
    [] s.action = "click" ->
         IF s.place = "token" \/ (s.window /\ s.place = "xy") THEN {Behind("click")}
         ELSE IF s.window /\ s.place = "relative" THEN {Plain("get_window_state"), Behind("click")}
         ELSE {}
    [] s.action \in {"key", "submit"} ->
         IF s.keys \in {"combo", "addressbar"} THEN {Call("hotkey", "background", s.keys)}
         ELSE IF s.keys = "plain" \/ s.action = "submit" THEN {Behind("press_key")} ELSE {}
    [] s.action = "type" -> {Behind("type_text")}
    [] s.action = "scroll" -> {Behind("scroll")}
    [] s.action = "page" -> {Plain("page")}
    [] OTHER -> {Plain("set_agent_cursor_enabled")}

SessionCalls == {Plain("start_session"), Plain("set_agent_cursor_enabled"), Plain("end_session")}

Turns(r, pc) ==
  /\ replay' = [replay EXCEPT ![r].pc = pc]
  /\ UNCHANGED <<route, desktop, held, moved>>

\* ensure: a driver that runs is asked for its version, one that does not is started;
\* a failure ends the replay.  The session's calls follow, the last of them at its end.
Ensures(r, ok) ==
  /\ At(r, "ensuring")
  /\ Turns(r, IF ok THEN "opening" ELSE "error")
  /\ calls' = IF ok THEN SessionCalls ELSE calls

\* A step that the stop-lines refuse or a dry one calls nothing.
DriverStep(r, s) ==
  /\ At(r, "next")
  /\ IF s.skip THEN Done(r) /\ UNCHANGED <<route, desktop, held, calls>>
     ELSE Turns(r, "calling") /\ calls' = Resolving(s) \cup Tools(s)

\* act_driver::call waits without a limit.  That a call failed is no error of the
\* replay: the session goes on, the step is told as refused.
CallReturns(r) ==
  /\ \/ At(r, "opening") /\ Turns(r, "next")
     \/ At(r, "calling") /\ Done(r) /\ UNCHANGED <<route, desktop, held>>
     \/ At(r, "closing") /\ Turns(r, "done")
  /\ UNCHANGED calls

\* What the policy files that ensure writes let a driver do.
OpenTools ==
  {"check_permissions", "health_report", "get_agent_cursor_state", "get_config", "set_config",
   "get_screen_size", "get_window_state", "get_desktop_state", "launch_app", "list_apps",
   "list_windows", "page", "start_session", "end_session", "get_session",
   "set_agent_cursor_enabled", "set_agent_cursor_motion", "set_agent_cursor_theme", "set_value"}
BackgroundTools == {"click", "right_click", "type_text", "press_key", "hotkey", "scroll"}

Allowed(c) ==
  /\ c.tool \in OpenTools \/ (c.tool \in BackgroundTools /\ c.mode = "background")
  /\ ~(c.tool = "hotkey" /\ c.keys = "addressbar")

-----------------------------------------------------------------------------
\* The answer, if the client still waits: the thread does not notice that it gave up.
Replies(r) ==
  /\ replay[r].pc \in {"done", "error"}
  /\ replay' = [replay EXCEPT ![r] = [pc |-> "new", left |-> 0, step |-> NoStep, gates |-> NoGates]]
  /\ UNCHANGED <<route, desktop, held, moved, calls>>

\* What the replay's own thread does; the rest is the driver's.
ReplayStep(r) ==
  \/ At(r, "next") /\ route = "native" /\ \E s \in NativeSteps : TakesStep(r, s)
  \/ ReadsGates(r, TRUE) \/ LooksAgain(r) \/ Posts(r) \/ Activates(r)
  \/ \E ok \in BOOLEAN : Releases(r, ok)
  \/ route = "driver" /\ \E s \in DriverSteps : DriverStep(r, s)
  \/ Replies(r)

DriverAnswers(r) == CallReturns(r) \/ \E ok \in BOOLEAN : Ensures(r, ok)

ReplayNext ==
  \/ UserMoves \/ UserRests
  \/ \E r \in Replays :
       \/ \E n \in 1 .. MaxSteps : Requests(r, n)
       \/ ReadsGates(r, FALSE)
       \/ ReplayStep(r) \/ DriverAnswers(r)

ReplaySpec == ReplayInit /\ [][ReplayNext]_replayVars

-----------------------------------------------------------------------------
(* Properties. *)

\* Through waits for a busy user, other replays and the lock: when a step that may
\* take the foreground acts and neither the user nor another replay has changed the
\* desktop since its gates were read, its application is in front, on this space,
\* not covered, and the user idle.
ForegroundIsTheirs ==
  \A r \in Replays : At(r, "acting") /\ r \notin moved /\ Step(r).allow =>
    /\ front = Step(r).app /\ Step(r).app \in here
    /\ Step(r).action = "click" => Step(r).app \in top
    /\ idle

\* A replay never takes the front away from the user's application: what it
\* activates was in front when its gates were read, so the front changes only when
\* the desktop had moved in between.
FocusNotStolen ==
  [][\A r \in Replays : At(r, "acting") /\ replay'[r].pc = "holding" /\ front' # front
       => r \in moved /\ Step(r).allow]_replayVars

\* One activation at a time: the lock is held while a replay is at it, and no longer.
LockHeldOnce ==
  /\ held <=> \E r \in Replays : At(r, "holding")
  /\ \A q, r \in Replays : At(q, "holding") /\ At(r, "holding") => q = r

\* Whatever a draft holds, the driver is asked for nothing its policy refuses,
\* but a draft's own address-bar shortcut.
CallsAllowed == \A c \in calls : Allowed(c) \/ c.keys = "addressbar"

\* Every replay ends and releases its thread, with its client or without, even when
\* the user never rests - unless the driver leaves it without an answer for ever,
\* for nothing limits that wait.
ReplaysEnd ==
  \A r \in Replays :
    []<>(replay[r].pc \notin Waits) => (~At(r, "new") ~> At(r, "new"))

\* What reaches the screen while a replay acts was allowed when it was looked at.
ReplaysStayPut == ForegroundIsTheirs /\ LockHeldOnce /\ CallsAllowed

\* Replays leave the user's foreground alone, at every step.
ForegroundKept == []ReplaysStayPut /\ FocusNotStolen
=============================================================================
