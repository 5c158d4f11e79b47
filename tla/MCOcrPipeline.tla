--------------------------- MODULE MCOcrPipeline ---------------------------
(***************************************************************************)
(* Small instances of the OCR pipeline and of the helper process its       *)
(* engine is.  The pipeline takes what the engine answers as a choice, so  *)
(* that they share no state at this grain: a behaviour runs one part and   *)
(* leaves the other where it started.                                      *)
(***************************************************************************)
EXTENDS OcrPipeline, OcrHelper, TLC

CONSTANTS j1, j2, e1, e2

MCJobs   == {j1, j2}
MCEvents == {e1, e2}

VARIABLE part

ocrVars == <<part, vars, helperVars>>

OcrInit ==
  /\ part \in {"pipeline", "helper"} /\ Init /\ HelperInit
  /\ part # "helper" => boxes = "never"

PipelineAlone(A) == part = "pipeline" /\ A /\ UNCHANGED <<part, helperVars>>
HelperAlone(A)   == part = "helper" /\ A /\ UNCHANGED <<part, vars>>

OcrNext == PipelineAlone(Next) \/ HelperAlone(HelperNext)

(***************************************************************************)
(* Of the pipeline, what OcrPipeline says; and the timeout of a call       *)
(* passes.  Nothing is owed by the helper.                                 *)
(***************************************************************************)
OcrFairness ==
  /\ WF_ocrVars(PipelineAlone(WorkerStep))
  /\ WF_ocrVars(PipelineAlone(CooldownEnds) \/ HelperAlone(TimesOut))
  /\ WF_ocrVars(PipelineAlone(\E enabled \in BOOLEAN : Boot(enabled)))
  /\ \A j \in Jobs : WF_ocrVars(PipelineAlone(TimePasses(j)))

OcrSpec == OcrInit /\ [][OcrNext]_ocrVars /\ OcrFairness

=============================================================================
