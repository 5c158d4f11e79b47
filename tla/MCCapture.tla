------------------------------- MODULE MCCapture -------------------------------
(***************************************************************************)
(* Small instances of what the daemon records: the sessions of the screen  *)
(* loop, the microphone loop, and the keyboard and mouse.  The input task  *)
(* binds to sessions of its own instance, which open and close as they     *)
(* like; else the three share no state at this grain: a behaviour runs one *)
(* part and leaves the others where they started.                          *)
(***************************************************************************)
EXTENDS Sessions, AudioCapture, HidInput

CONSTANTS mail, bank, chat, a, b

\* With a blocklist, an unknown front closes the gate.
MCMailAndBank == {mail, bank}
MCBank        == {bank}

\* Windows of two apps; a press whose release is elsewhere is a drag.
MCPlaces == {[app |-> mail, title |-> a], [app |-> chat, title |-> b]}
MCInputs == {[kind |-> "key", button |-> "none", at |-> 0], [kind |-> "submit", button |-> "none", at |-> 0],
             [kind |-> "down", button |-> "left", at |-> 0], [kind |-> "up", button |-> "left", at |-> 1]}

\* bounds: a second run or a failed write, and one thing at a time that closes the gate.
MCTroubles == 2

VARIABLE part

captureVars == <<part, vars, audioVars, hidVars>>

CaptureInit ==
  /\ part \in {"screen", "audio", "input"} /\ Init /\ AudioInit /\ HidInit
  /\ part # "audio" => mode = "session"
  /\ part # "input" => ~settings.observe /\ ~settings.text

CaptureNext ==
  \/ /\ part = "screen" /\ Next
     /\ runs' + faults' <= MCTroubles /\ ~(screen'.locked /\ screen'.paused)
     /\ UNCHANGED <<part, audioVars, hidVars>>
  \/ part = "audio" /\ AudioNext /\ UNCHANGED <<part, vars, hidVars>>
  \/ part = "input" /\ HidNext /\ UNCHANGED <<part, vars, audioVars>>

CaptureSpec == CaptureInit /\ [][CaptureNext]_captureVars
=============================================================================
