------------------------------ MODULE MCDesktop ------------------------------
(***************************************************************************)
(* Small instances of the desktop process: the daemon it keeps alive, the  *)
(* menu of skills, the assistant windows.  At this grain they share no     *)
(* state: a behaviour runs one part and leaves the others where they       *)
(* started.                                                                *)
(***************************************************************************)
EXTENDS SkillLibrary, SelectionAssistant, ObserveShell, TLC

CONSTANTS u1, u2

\* The parts share no state, so that one pair may be permuted in all of them.
\* Everything checked is safety.
MCPair    == {u1, u2}
Symmetric == Permutations(MCPair)

MCWindows == 3       \* bound: mouse-ups, shows and closures together

VARIABLE part

desktopVars == <<part, skillVars, assistantVars, observeVars>>

\* A part that does not run starts in one of its initial states.
DesktopInit ==
  /\ part \in {"skills", "assistant", "shell"}
  /\ AssistantInit
  /\ SkillInit /\ front = "editor"
  /\ ObserveInit /\ (part # "shell" => orphans = {} /\ file = "no")

DesktopNext ==
  \/ part = "skills" /\ SkillNext /\ UNCHANGED <<part, assistantVars, observeVars>>
  \/ /\ part = "assistant" /\ AssistantNext
     /\ epoch' + shows' + Len(mainQueue') <= MCWindows
     /\ UNCHANGED <<part, skillVars, observeVars>>
  \/ part = "shell" /\ ObserveNext /\ UNCHANGED <<part, skillVars, assistantVars>>

DesktopSpec == DesktopInit /\ [][DesktopNext]_desktopVars
=============================================================================
