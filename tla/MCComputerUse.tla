---------------------------- MODULE MCComputerUse ----------------------------
(***************************************************************************)
(* The four machines behind "computer use".  What one leaves another is   *)
(* a file or a socket that each of them models, so a behaviour runs one    *)
(* part and leaves the others where they started.                          *)
(***************************************************************************)
EXTENDS ActDriver, InputReplay, CuaServer, CuaInstall

VARIABLE part

Init ==
  /\ DriverInit /\ ReplayInit /\ ServerInit /\ InstallInit
  /\ part \in {"driver", "replay", "server", "install"}
  /\ part # "replay" => route = "native"
  /\ part # "install" => target = "none"

DriverAlone(A)  == part = "driver" /\ A /\ UNCHANGED <<part, replayVars, serverVars, installVars>>
ReplayAlone(A)  == part = "replay" /\ A /\ UNCHANGED <<part, driverVars, serverVars, installVars>>
ServerAlone(A)  == part = "server" /\ A /\ UNCHANGED <<part, driverVars, replayVars, installVars>>
InstallAlone(A) == part = "install" /\ A /\ UNCHANGED <<part, driverVars, replayVars, serverVars>>

vars == <<part, driverVars, replayVars, serverVars, installVars>>

Next ==
  \/ DriverAlone(DriverNext) \/ ReplayAlone(ReplayNext)
  \/ ServerAlone(ServerNext) \/ InstallAlone(InstallNext)

\* The thread that runs a replay goes on.
Fairness == \A r \in Replays : WF_vars(ReplayAlone(ReplayStep(r)))

Spec == Init /\ [][Next]_vars /\ Fairness
=============================================================================
