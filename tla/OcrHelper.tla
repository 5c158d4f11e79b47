------------------------------ MODULE OcrHelper ------------------------------
(***************************************************************************)
(* The OCR engine in a process of its own.  For each picture the worker    *)
(* spawns a helper, writes a request to its input, reads an answer from    *)
(* its output and waits for it to exit, all under one timeout; the helper  *)
(* reads, recognises, answers and exits.  The native engine may crash or   *)
(* hang; the daemon may be stopped or die with a helper at work.           *)
(*                                                                         *)
(* One worker asks: for the text of a picture, then for its boxes.  The    *)
(* fallback to an engine in the daemon's own process is off, as it is by   *)
(* default.                                                                *)
(***************************************************************************)
EXTENDS Naturals, Sequences

CONSTANTS
  MaxCalls,     \* bound: helpers spawned
  MaxDowns      \* bound: ends of the daemon

ASSUME HelperAssumption == MaxCalls \in Nat /\ MaxDowns \in Nat

VARIABLES
  helpers,   \* helpers[i]: [pc, input, answer, hung, orphan]
  picture,   \* the job's picture: [pc, mode, text, since]
  boxes,     \* include_boxes and boxes_when_empty_only
  alive,     \* the daemon runs
  downs

helperVars == <<helpers, picture, boxes, alive, downs>>

\* input is what the pipe has of the request; a result has words or none.
Spawned == [pc |-> "reading", input |-> "nothing", answer |-> "none", hung |-> FALSE, orphan |-> FALSE]

\* pc says where the call is, text what the job has found, since the helpers before it.
Unasked == [pc |-> "idle", mode |-> "text", text |-> "none", since |-> 0]

HelperInit ==
  /\ boxes \in {"never", "when empty", "always"}
  /\ helpers = <<>> /\ picture = Unasked /\ alive = FALSE /\ downs = 0

Latest     == Len(helpers)
Calling    == picture.pc # "idle"
Running(h) == h.pc \in {"reading", "working", "answered"}

-----------------------------------------------------------------------------
(* The worker's side. *)

\* The process is there, or cannot be spawned.
Calls(mode, text, since) ==
  \/ /\ Latest < MaxCalls
     /\ helpers' = Append(helpers, Spawned)
     /\ picture' = [pc |-> "writing", mode |-> mode, text |-> text, since |-> since]
  \/ /\ UNCHANGED helpers
     /\ picture' = [Unasked EXCEPT !.text = IF text = "words" THEN text ELSE "retry", !.since = since]

Ask ==
  /\ alive /\ ~Calling
  /\ Calls("text", "none", Latest)
  /\ UNCHANGED <<boxes, alive, downs>>

\* kill().await; every error is retryable, but boxes are optional once there is text.
KillAndFail ==
  /\ helpers' = [helpers EXCEPT ![Latest].pc = IF Running(helpers[Latest]) THEN "failed" ELSE @]
  /\ picture' = [picture EXCEPT !.pc = "idle", !.text = IF @ = "words" THEN @ ELSE "retry"]
  /\ UNCHANGED <<boxes, alive, downs>>

Writes ==
  /\ picture.pc = "writing" /\ Running(helpers[Latest])
  /\ IF helpers[Latest].input = "nothing"
     THEN helpers' = [helpers EXCEPT ![Latest].input = "header"] /\ UNCHANGED picture
     ELSE /\ helpers' = [helpers EXCEPT ![Latest].input = "whole"]
          /\ picture' = [picture EXCEPT !.pc = "listening"]
  /\ UNCHANGED <<boxes, alive, downs>>

\* The helper has gone: a write or a read fails.
PipeBreaks ==
  /\ picture.pc \in {"writing", "listening"} /\ ~Running(helpers[Latest])
  /\ helpers[Latest].answer = "none"
  /\ KillAndFail

\* A length over MAX_HEADER_BYTES is an error; else the exit is next.
Listens ==
  /\ picture.pc = "listening" /\ helpers[Latest].answer # "none"
  /\ IF helpers[Latest].answer = "oversized" THEN KillAndFail
     ELSE picture' = [picture EXCEPT !.pc = "reaping"] /\ UNCHANGED <<helpers, boxes, alive, downs>>

\* What process_job makes of a result.
Result(answer) ==
  LET text == IF picture.text = "words" THEN "words" ELSE answer
  IN  IF picture.mode = "text" /\ (boxes = "always" \/ (boxes = "when empty" /\ answer = "blank"))
      THEN Calls("boxes", text, picture.since)
      ELSE picture' = [picture EXCEPT !.pc = "idle", !.text = text] /\ UNCHANGED helpers

\* child.wait: a result counts if the helper ended well.
Reaps ==
  /\ picture.pc = "reaping" /\ ~Running(helpers[Latest])
  /\ IF helpers[Latest].pc = "exited" /\ helpers[Latest].answer # "error"
     THEN Result(helpers[Latest].answer) /\ UNCHANGED <<boxes, alive, downs>>
     ELSE KillAndFail

\* Mutant of TimesOut: the timeout ends with the answer.
TimesOutListening == picture.pc \in {"writing", "listening"} /\ KillAndFail

\* One timeout over the whole exchange, the exit included.
TimesOut == Calling /\ KillAndFail

-----------------------------------------------------------------------------
(* The helper's side: run_ocr_helper_stdio. *)

GoesTo(i, pc) ==
  /\ helpers' = [helpers EXCEPT ![i].pc = pc]
  /\ UNCHANGED <<picture, boxes, alive, downs>>

\* The picture is read, or the input ends before it is whole.
Reads(i) ==
  /\ helpers[i].pc = "reading"
  /\ \/ helpers[i].input = "whole" /\ GoesTo(i, "working")
     \/ helpers[i].input # "whole" /\ helpers[i].orphan /\ GoesTo(i, "failed")

\* The native engine returns and the answer is written, which fails if nobody reads.
Works(i) ==
  /\ helpers[i].pc = "working" /\ ~helpers[i].hung
  /\ \/ helpers[i].orphan /\ GoesTo(i, "failed")
     \/ \E answer \in {"words", "blank", "error", "oversized"} :
          /\ ~helpers[i].orphan
          /\ helpers' = [helpers EXCEPT ![i].pc = "answered", ![i].answer = answer]
          /\ UNCHANGED <<picture, boxes, alive, downs>>

Exits(i) == helpers[i].pc = "answered" /\ ~helpers[i].hung /\ GoesTo(i, "exited")

\* The process crashes; or the engine hangs, at work or while it is torn down.
Crashes(i) == Running(helpers[i]) /\ GoesTo(i, "failed")
Hangs(i) ==
  /\ helpers[i].pc \in {"working", "answered"} /\ ~helpers[i].hung
  /\ helpers' = [helpers EXCEPT ![i].hung = TRUE]
  /\ UNCHANGED <<picture, boxes, alive, downs>>

-----------------------------------------------------------------------------
(* The daemon. *)

Ends(kept) ==
  /\ alive /\ downs < MaxDowns
  /\ alive' = FALSE /\ downs' = downs + 1 /\ picture' = Unasked
  /\ helpers' = kept /\ UNCHANGED boxes

\* A stop waits for the worker; a kill leaves the helper to itself.
StopsDown == ~Calling /\ Ends(helpers)
Dies      == Calling /\ Ends([helpers EXCEPT ![Latest].orphan = TRUE])

ComesUp == ~alive /\ alive' = TRUE /\ UNCHANGED <<helpers, picture, boxes, downs>>

WorkerSide    == Writes \/ PipeBreaks \/ Listens \/ Reaps
HelperSide(i) == Reads(i) \/ Works(i) \/ Exits(i)
HelperNext ==
  \/ Ask \/ WorkerSide \/ TimesOut
  \/ \E i \in DOMAIN helpers : HelperSide(i) \/ Crashes(i) \/ Hangs(i)
  \/ StopsDown \/ Dies \/ ComesUp

HelperSpec == HelperInit /\ [][HelperNext]_helperVars

-----------------------------------------------------------------------------
(* Properties. *)

\* "timeout kills and reaps the child" (docs/OCR_PRODUCT.md): whatever goes wrong, a
\* helper runs for the call under way or was left by a daemon that died.
HelpersReaped ==
  \A i \in DOMAIN helpers : Running(helpers[i]) => (i = Latest /\ Calling) \/ helpers[i].orphan

\* Words are stored as the text of a picture only if a helper of this job had all of
\* it, found them and exited well; none are stored only if every helper found none.
TextEarned ==
  LET own == picture.since + 1 .. Latest
      good(i, answer) == /\ helpers[i].pc = "exited" /\ helpers[i].input = "whole"
                         /\ helpers[i].answer = answer
  IN  /\ picture.text = "words" => \E i \in own : good(i, "words")
      /\ picture.text = "blank" => \A i \in own : i < Latest \/ ~Calling => good(i, "blank")

\* A job comes to an end, hung engines included.
JobsEnd == Calling ~> ~Calling

\* The helper isolates the daemon from its engine and leaves nothing behind.
HelpersHold == [](HelpersReaped /\ TextEarned) /\ JobsEnd

=============================================================================
