-------------------------------- MODULE MCLoops --------------------------------
(***************************************************************************)
(* Small instances of two loops of the daemon that must come to an end of  *)
(* what they began: the focus tick with its sessions, and a batch worker.  *)
(* They share no state at this grain: a behaviour runs one part and leaves *)
(* the other where it started.                                             *)
(***************************************************************************)
EXTENDS Sessions, BatchWorker

CONSTANTS mail, bank

\* With a blocklist, an unknown front closes the gate.
MCMailAndBank == {mail, bank}
MCBank        == {bank}

VARIABLE part

loopVars == <<part, vars, batchVars>>

LoopsInit ==
  /\ part \in {"screen", "worker"} /\ Init /\ BatchInit
  /\ part # "worker" => kind = "ax"

ScreenAlone(A) == part = "screen" /\ A /\ UNCHANGED <<part, batchVars>>
WorkerAlone(A) == part = "worker" /\ A /\ UNCHANGED <<part, vars>>

LoopsNext == ScreenAlone(Next) \/ WorkerAlone(BatchNext)

(***************************************************************************)
(* The loops are tasks that always run again, a capture call returns, the  *)
(* select! of the screen loop serves its focus tick again and again, time  *)
(* passes, clocks advance, and a daemon that is down is started again.     *)
(* Nothing owes the worker an engine.                                      *)
(***************************************************************************)
LoopsFairness ==
  /\ WF_loopVars(WorkerAlone(BatchStep) \/ ScreenAlone(LoopStep))
  /\ SF_loopVars(ScreenAlone(BeginPoll))
  /\ WF_loopVars(\/ ScreenAlone(IdleElapses)
                 \/ WorkerAlone(\E as \in {"running", "idle", "disabled"} : Starts(as)))
  /\ \A j \in Jobs : WF_loopVars(WorkerAlone(BackoffPasses(j)))

LoopsSpec == LoopsInit /\ [][LoopsNext]_loopVars /\ LoopsFairness
=============================================================================
