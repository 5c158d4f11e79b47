---------------------------- MODULE AudioCapture ----------------------------
(***************************************************************************)
(* The microphone loop: the voice gate that merges voiced quanta into      *)
(* trunks and groups trunks into audio sessions, the loop that stores each *)
(* trunk and queues it for transcription, and the export that lays the     *)
(* transcribed trunks of a session on one timeline.                        *)
(*                                                                         *)
(* Sound comes in quanta of one time unit; quantum q is the q-th the       *)
(* microphone delivered, and a body is the sequence of the quanta a trunk  *)
(* holds.  Whether a quantum passes the voice gate is a choice.            *)
(***************************************************************************)
EXTENDS Naturals, Sequences, SequencesExt

CONSTANTS
  TrunkMax,      \* trunk_max_ms
  SilenceMax,    \* session_silence_ms
  PreRoll,       \* DEFAULT_TRUNK_PREROLL_MS
  Padding,       \* trunk_padding_ms
  WavMax,        \* max_audio_bytes
  MaxQuanta,     \* bound: quanta delivered
  Backlog        \* bound: how far the loop may fall behind the microphone

ASSUME AudioAssumption ==
  /\ {TrunkMax, SilenceMax, WavMax} \subseteq Nat \ {0}
  /\ {PreRoll, Padding, MaxQuanta, Backlog} \subseteq Nat
  /\ Padding < TrunkMax

VARIABLES
  mode,         \* audio.mode: "session" or "continuous"
  clock,        \* quanta the microphone has delivered
  heard,        \* heard[q]: [voice, session], the session q was accepted in
  mic,          \* AudioOrchestrator: [session, long, ordinal, trunk, pending, preroll]
  sids,       \* sessions opened so far; their ids are 1 .. opened
  rolled,       \* sessions closed because they had become too long
  ear,         \* "waiting", "draining", "storing" or "stopped"
  drained,        \* trunks drained in this poll and not stored yet
  chunks,         \* audio_chunk.v1 events: [session, ordinal, body, ts]
  lostQuanta          \* quanta known to be lost: too large, not stored, cut off

audioVars == <<mode, clock, heard, mic, sids, rolled, ear, drained, chunks, lostQuanta>>

NoSid == 0

Fresh == [session |-> NoSid, long |-> FALSE, ordinal |-> 0,
          trunk |-> <<>>, pending |-> <<>>, preroll |-> <<>>]

AudioInit ==
  /\ mode \in {"session", "continuous"}
  /\ clock = 0 /\ heard = <<>>
  /\ mic = Fresh /\ sids = 0 /\ rolled = {}
  /\ ear = "waiting" /\ drained = <<>> /\ chunks = {} /\ lostQuanta = {}

-----------------------------------------------------------------------------
(* The orchestrator: functions of its state. *)

\* The last n elements of s (all of it when it is shorter).
LastN(s, n) == SubSeq(s, IF Len(s) > n THEN Len(s) - n + 1 ELSE 1, Len(s))

Closed(m) == [m EXCEPT !.session = NoSid, !.long = FALSE]

\* A long session is closed before more sound is accepted; in continuous mode
\* only by voice.  The trunk is left as it is.
Rolls(m, voice) == m.session # NoSid /\ m.long /\ (mode = "session" \/ voice)

Accepting(m, voice) ==
  LET kept == IF Rolls(m, voice) THEN Closed(m) ELSE m
  IN  IF voice /\ kept.session = NoSid
      THEN [kept EXCEPT !.session = sids + 1, !.long = FALSE, !.ordinal = 0]
      ELSE kept

\* append_voice_to_trunk
WithVoiceCopied(m, q) ==     \* the pre-roll is copied, not taken
  [m EXCEPT !.trunk = (IF m.trunk = <<>> THEN m.preroll ELSE m.trunk) \o m.pending \o <<q>>,
            !.pending = <<>>]

WithVoice(m, q) ==
  [m EXCEPT !.trunk = (IF m.trunk = <<>> THEN m.preroll ELSE m.trunk) \o m.pending \o <<q>>,
            !.preroll = IF m.trunk = <<>> THEN <<>> ELSE @,
            !.pending = <<>>]

\* The quiet quantum when no trunk is open, and when one is.
WithPreRoll(m, q) == [m EXCEPT !.preroll = LastN(Append(@, q), PreRoll)]
WithSilence(m, q) == [m EXCEPT !.pending = Append(@, q)]

\* flush_trunk: nothing happens without a session or without a trunk.
Flushable(m) == m.session # NoSid /\ m.trunk # <<>>
Body(m)      == m.trunk \o LastN(m.pending, Padding)
Trunk(m)     == [session |-> m.session, ordinal |-> m.ordinal + 1, body |-> Body(m), ts |-> clock]
Flushed(m)   == IF Flushable(m)
                THEN [m EXCEPT !.trunk = <<>>, !.pending = <<>>, !.ordinal = @ + 1]
                ELSE m
Emits(m)     == Flushable(m) /\ Len(Body(m)) <= WavMax
TooLarge(m)  == IF Flushable(m) /\ ~Emits(m) THEN Range(Body(m)) ELSE {}
Emitted(m)   == IF Emits(m) THEN <<Trunk(m)>> ELSE <<>>

-----------------------------------------------------------------------------
(* The loop. *)

\* A quantum arrives in the microphone's stream.
Deliver ==
  /\ ear # "stopped" /\ clock < MaxQuanta /\ clock - Len(heard) < Backlog
  /\ clock' = clock + 1
  /\ UNCHANGED <<mode, heard, mic, sids, rolled, ear, drained, chunks, lostQuanta>>

\* The open session reaches max_session_ms.
SessionLasts ==
  /\ ear # "stopped" /\ mic.session # NoSid /\ ~mic.long
  /\ mic' = [mic EXCEPT !.long = TRUE]
  /\ UNCHANGED <<mode, clock, heard, sids, rolled, ear, drained, chunks, lostQuanta>>

\* poll.tick(): drain_ready starts.
Poll ==
  /\ ear = "waiting" /\ ear' = "draining"
  /\ UNCHANGED <<mode, clock, heard, mic, sids, rolled, drained, chunks, lostQuanta>>

\* What on_chunk leaves and returns: [mic, out, dropped].
Turn(m, flush, close) ==
  LET after == IF flush THEN Flushed(m) ELSE m
  IN  [mic |-> IF close THEN Closed(after) ELSE after,
       out |-> IF flush THEN Emitted(m) ELSE <<>>,
       dropped |-> IF flush THEN TooLarge(m) ELSE {}]

Voiced(m, q) == LET w == WithVoice(m, q) IN Turn(w, Len(w.trunk) >= TrunkMax, FALSE)

Quiet(m, q) ==
  IF m.trunk = <<>> THEN Turn(WithPreRoll(m, q), FALSE, FALSE)
  ELSE IF m.session = NoSid THEN Turn(m, FALSE, FALSE)
  ELSE LET w == WithSilence(m, q)
           over == Len(w.pending) >= SilenceMax
       IN  Turn(w, over \/ Len(w.trunk) >= TrunkMax, over /\ mode = "session")

OnChunk(voice) ==
  /\ ear = "draining" /\ Len(heard) < clock
  /\ LET q == Len(heard) + 1
         m == Accepting(mic, voice)
         t == IF voice THEN Voiced(m, q) ELSE Quiet(m, q)
     IN /\ heard' = Append(heard, [voice |-> voice, session |-> m.session])
        /\ sids' = IF voice /\ m.session > sids THEN sids + 1 ELSE sids
        /\ rolled' = IF Rolls(mic, voice) THEN rolled \cup {mic.session} ELSE rolled
        /\ mic' = t.mic
        /\ drained' = drained \o t.out
        /\ lostQuanta' = lostQuanta \cup t.dropped
  /\ UNCHANGED <<mode, clock, ear, chunks>>

\* The stream is empty: drain_ready ends with apply_idle_session_timeouts.
EndDrain ==
  /\ ear = "draining" /\ Len(heard) = clock
  /\ rolled' = IF mic.long THEN rolled \cup {mic.session} ELSE rolled
  /\ mic' = IF mic.long THEN Closed(mic) ELSE mic
  /\ ear' = IF drained = <<>> THEN "waiting" ELSE "storing"
  /\ UNCHANGED <<mode, clock, heard, sids, drained, chunks, lostQuanta>>

\* try_recv fails: the error leaves drain_ready and the loop, with the trunks
\* of this poll and the open one.
Disconnect ==
  /\ ear = "draining"
  /\ lostQuanta' = lostQuanta \cup Range(mic.trunk) \cup UNION {Range(drained[i].body) : i \in DOMAIN drained}
  /\ drained' = <<>> /\ mic' = Fresh /\ ear' = "stopped"
  /\ UNCHANGED <<mode, clock, heard, sids, rolled, chunks>>

\* persist_audio_capture of the next trunk: stored, or lost when it fails.
PersistTrunk(ok) ==
  /\ ear = "storing"
  /\ chunks' = IF ok THEN chunks \cup {Head(drained)} ELSE chunks
  /\ lostQuanta' = IF ok THEN lostQuanta ELSE lostQuanta \cup Range(Head(drained).body)
  /\ drained' = Tail(drained)
  /\ ear' = IF Len(drained) = 1 THEN "waiting" ELSE "storing"
  /\ UNCHANGED <<mode, clock, heard, mic, sids, rolled>>

\* The loop is cancelled: the open trunk is stored, unless its session was
\* closed for its length; then it is dropped.
Cancel(ok) ==
  /\ ear = "waiting"
  /\ chunks' = IF ok THEN chunks \cup Range(Emitted(mic)) ELSE chunks
  /\ lostQuanta' = IF ok /\ Emits(mic) THEN lostQuanta ELSE lostQuanta \cup Range(mic.trunk)
  /\ mic' = Fresh /\ ear' = "stopped"
  /\ UNCHANGED <<mode, clock, heard, sids, rolled, drained>>

AudioRest == ear = "stopped" /\ UNCHANGED audioVars

AudioNext ==
  \/ Deliver \/ SessionLasts \/ Poll \/ EndDrain \/ Disconnect
  \/ \E voice \in BOOLEAN : OnChunk(voice)
  \/ \E ok \in BOOLEAN : PersistTrunk(ok) \/ Cancel(ok)
  \/ AudioRest

AudioSpec == AudioInit /\ [][AudioNext]_audioVars

-----------------------------------------------------------------------------
(* export_session_transcript over the trunks of one session that have a    *)
(* transcript: sorted by (ts, ordinal), each starting at its offset from   *)
(* the first one or where the previous one ends.                           *)

SortsBefore(a, b) == a.ts < b.ts \/ (a.ts = b.ts /\ a.ordinal < b.ordinal)

Chunks(T) ==
  CHOOSE cs \in [1 .. Cardinality(T) -> T] : \A i, j \in DOMAIN cs : i < j => SortsBefore(cs[i], cs[j])

EndsAdding(cs) ==       \* the offset added to the previous end
  LET end[i \in 0 .. Len(cs)] ==
        IF i = 0 THEN 0
        ELSE cs[i].ts - cs[1].ts + end[i - 1] + Len(cs[i].body)
  IN  end

Ends(cs) ==
  LET end[i \in 0 .. Len(cs)] ==
        IF i = 0 THEN 0
        ELSE LET raw == cs[i].ts - cs[1].ts
             IN  (IF raw > end[i - 1] THEN raw ELSE end[i - 1]) + Len(cs[i].body)
  IN  end

Segments(T) ==
  LET cs == Chunks(T)
      end == Ends(cs)
  IN  [i \in 1 .. Len(cs) |-> [chunk |-> cs[i], start |-> end[i] - Len(cs[i].body), end |-> end[i]]]

-----------------------------------------------------------------------------
(* Properties. *)

Held   == Range(mic.trunk) \cup UNION {Range(drained[i].body) : i \in DOMAIN drained}
Stored == UNION {Range(r.body) : r \in chunks}

\* Across rolls, flushes, failed writes and stops: a quantum that passed the
\* voice gate is stored, on its way to the store, or lost in one of the ways
\* the code accepts, and it is in one place only.
VoiceAccounted ==
  /\ \A q \in DOMAIN heard : heard[q].voice => q \in Held \cup Stored \cup lostQuanta
  /\ Held \cap Stored = {} /\ (Held \cup Stored) \cap lostQuanta = {}
  /\ \A r, s \in chunks : r # s => Range(r.body) \cap Range(s.body) = {}

QuietAt(r, I) == \A i \in I : ~heard[r.body[i]].voice

\* Silence is not stored: however quanta were grouped, a stored trunk
\* begins with at most the pre-roll, ends with at most the padding and has no
\* silence inside that should have ended it.
QuietBounded ==
  \A r \in chunks :
    LET n == Len(r.body) IN
      /\ ~QuietAt(r, 1 .. n)
      /\ ~(PreRoll < n /\ QuietAt(r, 1 .. PreRoll + 1))
      /\ ~(Padding < n /\ QuietAt(r, n - Padding .. n))
      /\ \A i \in 2 .. n : i + SilenceMax - 1 < n => ~QuietAt(r, i .. i + SilenceMax - 1) \/ i <= PreRoll

\* A trunk that holds speech of another session than its own took it over from
\* a session that was closed for its length: close_session leaves the trunk.
SpeechOfOtherSessions ==
  \A r \in chunks : \A q \in Range(r.body) :
    heard[q].voice /\ heard[q].session # r.session => heard[q].session \in rolled

\* The export's sort key gives the order the sound was heard in, and no two
\* trunks of a session share an ordinal, whatever was lost between them.
OrdinalsFollowSound ==
  \A r, s \in chunks : r.session = s.session /\ r # s =>
    /\ r.ordinal # s.ordinal
    /\ r.ordinal < s.ordinal => r.ts <= s.ts /\ r.body[1] < s.body[1]

\* What is stored of a session is its sound, in order.
TrunksOrdered == SpeechOfOtherSessions /\ OrdinalsFollowSound /\ QuietBounded

\* All that was said is kept, once, where and when it was said.
VoiceKept == VoiceAccounted /\ TrunksOrdered

\* Whichever trunks have a transcript, the segments of the exported document
\* follow each other, none starts before its trunk's offset, and none ends
\* later than a trunk and the loop's backlog past it: clamping the starts does
\* not add up over a session.
ExportDriftBounded ==
  \A T \in SUBSET chunks :
    (T # {} /\ \A r, s \in T : r.session = s.session) =>
      LET segs == Segments(T) IN
        /\ segs[1].start = 0
        /\ \A i \in DOMAIN segs :
             LET offset == segs[i].chunk.ts - segs[1].chunk.ts IN
               /\ segs[i].start >= offset
               /\ i > 1 => segs[i].start >= segs[i - 1].end
               /\ segs[i].end <= offset + WavMax + Backlog
=============================================================================
