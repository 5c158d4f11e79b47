----------------------------- MODULE CuaInstall -----------------------------
(***************************************************************************)
(* How the desktop shell puts Lumen Cua beside itself at every start: it   *)
(* compares the installed bundle with its payload, stops the server, moves *)
(* the old bundle aside and the new one in, proves that the new one runs,  *)
(* and puts the old one back when it does not.  Files are moved in steps;  *)
(* the shell may be killed between any two of them.                        *)
(***************************************************************************)
EXTENDS Naturals

CONSTANT MaxTrouble     \* bound: kills, crashes, failing copies, verifications, moves and removals

ASSUME InstallAssumption == MaxTrouble \in Nat

VARIABLES
  target,     \* the installed bundle: "none", "old", "new", or the "ruin" of one removed in part
  backup,     \* this process's .previous bundle
  kept,       \* .previous bundles of shells that are gone
  served,     \* the socket: "none", "live", or "stale" (the server crashed)
  shell,      \* "down", "up", "failed", or the step of the preparation
  attempt,    \* 1: open, 2: open_lenient
  had,        \* the preparation found a bundle
  first,      \* the bundle that was there before all preparations
  proved,     \* a new bundle has been verified
  unreturned, \* this shell could not take a rejected bundle away or move the previous one back
  cleared,    \* a preparation has removed as stale what the one before could not move back
  trouble

installVars == <<target, backup, kept, served, shell, attempt, had, first, proved, unreturned, cleared, trouble>>

Works(bundle) == bundle \in {"old", "new"}

InstallTypeOK ==
  /\ {target, backup} \cup kept \subseteq {"none", "old", "new", "ruin"}
  /\ served \in {"none", "live", "stale"} /\ attempt \in {1, 2}
  /\ shell = "down" => backup = "none"

InstallInit ==
  /\ target \in {"none", "old"} /\ backup = "none" /\ kept = {}
  /\ served \in IF target = "none" THEN {"none"} ELSE {"none", "live"}
  /\ shell = "down" /\ attempt = 1 /\ had = FALSE
  /\ first = target /\ proved = FALSE /\ unreturned = FALSE /\ cleared = FALSE /\ trouble = 0

Troubled == trouble < MaxTrouble /\ trouble' = trouble + 1
Quietly == UNCHANGED trouble
Tried(ok) == IF ok THEN Quietly ELSE Troubled
Past == <<first, proved>>
Losses == <<unreturned, cleared>>

-----------------------------------------------------------------------------
(* prepare_runtime_cua_app. *)

\* A server whose file is at the path answers Shutdown and removes it; a stale
\* file is an error.
Opens ==
  /\ shell = "down"
  /\ attempt' = 1 /\ shell' = "comparing" /\ unreturned' = FALSE
  /\ UNCHANGED <<target, backup, kept, served, had, Past, cleared, trouble>>

Compares ==
  /\ shell = "comparing"
  /\ had' = Works(target)
  /\ IF target = "new" THEN shell' = "up" /\ UNCHANGED served
     ELSE IF served = "stale" THEN shell' = "erring" /\ UNCHANGED served
     ELSE shell' = "staging" /\ served' = "none"
  /\ UNCHANGED <<target, backup, kept, attempt, Past, Losses, trouble>>

\* ditto, and the checks of the staged copy.
Stages(ok) ==
  /\ shell = "staging" /\ Tried(ok)
  /\ shell' = IF ok THEN "moving" ELSE "erring"
  /\ UNCHANGED <<target, backup, kept, served, attempt, had, Past, Losses>>

-----------------------------------------------------------------------------
(* activate_staged_bundle. *)

\* What a removal leaves of a bundle when it fails.
Remains(bundle) == {bundle, "ruin"}

\* A .previous bundle of this process is taken for stale, also when it is one that
\* open could not move back before open_lenient prepares again.
ClearsStale(ok) ==
  /\ shell = "moving" /\ backup # "none" /\ Tried(ok)
  /\ backup' \in IF ok THEN {"none"} ELSE Remains(backup)
  /\ shell' = IF ok THEN "moving" ELSE "checking old"
  /\ cleared' = (cleared \/ (backup = "old" /\ unreturned))
  /\ UNCHANGED <<target, kept, served, attempt, had, Past, unreturned>>

MovesAside(ok) ==
  /\ shell = "moving" /\ backup = "none" /\ Tried(ok)
  /\ IF ok THEN backup' = target /\ target' = "none" /\ shell' = "activating"
     ELSE target # "none" /\ shell' = "checking old" /\ UNCHANGED <<target, backup>>
  /\ UNCHANGED <<kept, served, attempt, had, Past, Losses>>

MovesIn(ok) ==
  /\ shell = "activating" /\ Tried(ok)
  /\ IF ok THEN target' = "new" /\ shell' = "verifying" ELSE shell' = "returning" /\ UNCHANGED target
  /\ UNCHANGED <<backup, kept, served, attempt, had, Past, Losses>>

\* verify_installed_runtime: the new bundle serves, answers and goes.
Launches ==
  /\ shell = "verifying" /\ served # "live" /\ served' = "live"
  /\ UNCHANGED <<target, backup, kept, shell, attempt, had, Past, Losses, trouble>>

Verifies(ok) ==
  /\ shell = "verifying" /\ served' = "none" /\ Tried(ok)
  /\ IF ok THEN served = "live" /\ shell' = "clearing" ELSE shell' = "rejecting"
  /\ proved' = (proved \/ ok)
  /\ UNCHANGED <<target, backup, kept, attempt, had, first, Losses>>

\* The rejected bundle goes; that it does not is no error.
Rejects(ok) ==
  /\ shell = "rejecting" /\ shell' = "returning" /\ Tried(ok)
  /\ target' \in IF ok THEN {"none"} ELSE Remains(target)
  /\ unreturned' = (unreturned \/ ~ok)
  /\ UNCHANGED <<backup, kept, served, attempt, had, Past, cleared>>

ReturnsNothing(ok) ==      \* the bundle that was moved aside goes with the rejected one
  /\ shell = "returning" /\ shell' = "checking old"
  /\ backup' = "none" /\ ok /\ Tried(ok)
  /\ UNCHANGED <<target, kept, served, attempt, had, Past, Losses>>

\* The previous bundle, when there was one, is moved back: onto nothing or what is
\* left of the rejected one if that is empty, for no other directory is replaced.
Returns(ok) ==
  /\ shell = "returning" /\ shell' = "checking old"
  /\ IF backup = "none" THEN ok /\ UNCHANGED <<target, backup>>
     ELSE IF ok THEN ~Works(target) /\ target' = backup /\ backup' = "none"
     ELSE UNCHANGED <<target, backup>>
  /\ IF ok \/ target # "none" THEN Quietly ELSE Troubled
  /\ unreturned' = (unreturned \/ ~ok)
  /\ UNCHANGED <<kept, served, attempt, had, Past, cleared>>

ClearsBackup(ok) ==
  /\ shell = "clearing" /\ Tried(ok)
  /\ IF ok THEN backup' = "none" /\ shell' = "up"
     ELSE backup # "none" /\ backup' \in Remains(backup) /\ shell' = "checking old"
  /\ UNCHANGED <<target, kept, served, attempt, had, Past, Losses>>

\* What is in place after an error is registered and verified in its turn.
ChecksOld ==
  /\ shell = "checking old" /\ shell' = "erring"
  /\ UNCHANGED <<target, backup, kept, served, attempt, had, Past, Losses, trouble>>

\* open failed: open_lenient prepares again, then takes any valid bundle.
Errs ==
  /\ shell = "erring"
  /\ IF attempt = 1 THEN attempt' = 2 /\ shell' = "comparing"
     ELSE attempt' = attempt /\ shell' = IF Works(target) THEN "up" ELSE "failed"
  /\ UNCHANGED <<target, backup, kept, served, had, Past, Losses, trouble>>

-----------------------------------------------------------------------------
(* The rest of the desktop's life. *)

\* ensure_running: a process that finds a stale file replaces it.
Serves ==
  /\ shell = "up" /\ served # "live" /\ served' = "live"
  /\ UNCHANGED <<target, backup, kept, shell, attempt, had, Past, Losses, trouble>>

ServerDies ==
  /\ served = "live" /\ served' = "stale" /\ Troubled
  /\ UNCHANGED <<target, backup, kept, shell, attempt, had, Past, Losses>>

\* The name of the backup holds the process id: the next shell ignores it.
Forsakes(left) == backup' = "none" /\ kept' = (kept \cup {left}) \ {"none"}

Quits ==
  /\ shell \in {"up", "failed"} /\ shell' = "down" /\ Forsakes(backup)
  /\ UNCHANGED <<target, served, attempt, had, Past, Losses, trouble>>

\* Also in the middle of a removal.
Killed ==
  /\ shell \notin {"down", "up", "failed"} /\ shell' = "down" /\ Troubled
  /\ target' \in IF shell = "rejecting" THEN Remains(target) ELSE {target}
  /\ \E left \in IF shell \in {"moving", "clearing"} /\ backup # "none" THEN Remains(backup) ELSE {backup} :
       Forsakes(left)
  /\ cleared' = (cleared \/ (shell = "moving" /\ backup = "old" /\ unreturned))
  /\ UNCHANGED <<served, attempt, had, Past, unreturned>>

InstallStep ==
  \/ Opens \/ Compares \/ Launches \/ ChecksOld \/ Errs
  \/ \E ok \in BOOLEAN :
       \/ Stages(ok) \/ ClearsStale(ok) \/ MovesAside(ok) \/ MovesIn(ok)
       \/ Verifies(ok) \/ Rejects(ok) \/ Returns(ok) \/ ClearsBackup(ok)

InstallNext == InstallStep \/ Serves \/ ServerDies \/ Quits \/ Killed

InstallSpec == InstallInit /\ [][InstallNext]_installVars

-----------------------------------------------------------------------------
(* Properties. *)

\* A preparation that found a bundle leaves one that works, however it ends: a copy,
\* a move or a verification that failed costs the update, never the service.  The
\* exception: what was rejected could not be taken away, or the previous bundle not
\* moved back.
NeverBare == shell \in {"up", "failed"} /\ had /\ ~unreturned => Works(target)

\* Between any two moves, across kills and when it cannot be moved back, the bundle
\* that was there at first is on the disk, in place or moved aside, until a new one
\* has proved itself - or until the same shell prepares again and takes the bundle it
\* could not move back for stale.
OldKeptUntilProved == first = "old" /\ ~proved => "old" \in {target, backup} \cup kept \/ cleared

\* No failure, crash or kill loses it alone: the update and the way back have to fail.
LossTakesTwo == cleared => trouble >= 2

\* An installation that fails or is killed leaves what worked.
InstallSafe == NeverBare /\ OldKeptUntilProved /\ LossTakesTwo
=============================================================================
