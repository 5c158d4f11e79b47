--------------------------- MODULE BrowserSettings ---------------------------
(***************************************************************************)
(* The extension's settings record in browser.storage.local.  Everything   *)
(* that changes one of its fields calls updateSettings, which reads the    *)
(* record, waits, and writes the whole record back with its patch; nothing *)
(* keeps two calls apart, except that policy syncs are chained.            *)
(***************************************************************************)
EXTENDS Naturals

CONSTANT MaxCalls      \* bound: calls of updateSettings

VARIABLES
  conf,      \* the stored record: [paused, known, allowed, excluded]
  call,      \* call[w]: the call under way for w
  wish,      \* what the user last asked setPaused for
  open,      \* the daemon's capture gate
  calls      \* number of calls so far

vars == <<conf, call, wish, open, calls>>

\* setPaused, syncPolicyOnce, a flush answered with 423, excludeCurrentHost.
Writers == {"pause", "policy", "refusal", "host"}

Confs == [paused : BOOLEAN, known : BOOLEAN, allowed : BOOLEAN, excluded : BOOLEAN]

Fresh == [paused |-> FALSE, known |-> FALSE, allowed |-> FALSE, excluded |-> FALSE]
Idle  == [pc |-> "idle", known |-> FALSE, allowed |-> FALSE, read |-> Fresh]

TypeOK ==
  /\ conf \in Confs
  /\ call \in [Writers -> [pc : {"idle", "asked", "read"}, known : BOOLEAN,
                           allowed : BOOLEAN, read : Confs]]
  /\ wish \in BOOLEAN /\ open \in BOOLEAN /\ calls \in 0 .. MaxCalls

Init ==
  /\ conf = Fresh /\ call = [w \in Writers |-> Idle]
  /\ wish = FALSE /\ open = TRUE /\ calls = 0

\* The patch is fixed: the user's choice, the policy just fetched (no answer
\* makes it unknown), the refusal, the host of the current tab.
Ask(w) ==
  /\ call[w].pc = "idle" /\ calls < MaxCalls
  /\ calls' = calls + 1
  /\ \E known \in BOOLEAN :
       call' = [call EXCEPT ![w] = [Idle EXCEPT !.pc = "asked", !.known = known,
                                                !.allowed = known /\ open]]
  /\ wish' = IF w = "pause" THEN ~wish ELSE wish
  /\ UNCHANGED <<conf, open>>

Read(w) ==
  /\ call[w].pc = "asked"
  /\ call' = [call EXCEPT ![w] = [@ EXCEPT !.pc = "read", !.read = conf]]
  /\ UNCHANGED <<conf, wish, open, calls>>

Patched(w, c) ==
  CASE w = "pause"   -> [c EXCEPT !.paused = wish]
    [] w = "policy"  -> [c EXCEPT !.known = call[w].known, !.allowed = call[w].allowed]
    [] w = "refusal" -> [c EXCEPT !.allowed = FALSE]
    [] w = "host"    -> [c EXCEPT !.excluded = TRUE]

Write(w) ==
  /\ call[w].pc = "read"
  /\ conf' = Patched(w, call[w].read)
  /\ call' = [call EXCEPT ![w] = Idle]
  /\ UNCHANGED <<wish, open, calls>>

ToggleGate ==
  /\ open' = ~open
  /\ UNCHANGED <<conf, call, wish, calls>>

Next ==
  \/ \E w \in Writers : Ask(w) \/ Read(w) \/ Write(w)
  \/ ToggleGate

Spec == Init /\ [][Next]_vars

-----------------------------------------------------------------------------
(* What the documentation says, and the code does not guarantee. *)

\* "Extension pause is always a hard local capture/write gate"
\* (docs/BROWSER_CAPTURE.md): once setPaused has written the pause it is in force
\* until the user resumes.
PauseHolds == wish /\ call["pause"].pc = "idle" => conf.paused

=============================================================================
