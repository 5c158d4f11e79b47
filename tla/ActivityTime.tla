------------------------------ MODULE ActivityTime ------------------------------
(***************************************************************************)
(* Time accounting: from activity polls to samples to segments.            *)
(*                                                                         *)
(* The producer (ActivityAccumulator) numbers the samples of one capture   *)
(* lifetime, a stream; gates, restarts and a clock set back begin another. *)
(* The store takes a sample at any time after it was made, late, twice or  *)
(* never, and gives each the interval to the next consecutive one, touching *)
(* the new sample's segment and its predecessor's only.                    *)
(***************************************************************************)
EXTENDS Integers, FiniteSets

CONSTANTS
  Keys,         \* window identities, idle and lock flags included
  None,         \* no sample, no key, no emission
  Heartbeat,    \* a steady run emits at least this often
  Gap,          \* 30 s
  MaxStreams,   \* bound: lifetimes
  MaxSeq,       \* bound: samples of a lifetime
  MaxTime,      \* bound: seconds
  MaxSteps      \* bound: times the wall clock is set

Streams == 1 .. MaxStreams
Points  == Streams \X (1 .. MaxSeq)
Times   == 0 .. MaxTime

ASSUME TimeAssumption ==
  /\ None \notin Keys /\ None \notin Nat
  /\ Heartbeat \in Nat /\ Gap \in Nat \ {0}
  /\ MaxStreams \in Nat \ {0} /\ MaxSeq \in Nat /\ MaxTime \in Nat /\ MaxSteps \in Nat

VARIABLES
  now,       \* the wall clock
  real,      \* the time that really passed
  steps,     \* how often the clock was set
  producer,  \* [stream, seq, key, last]: last_key and last_emit
  sent,      \* sent[p]: the sample numbered p = <<stream, seq>>, once made
  samples,   \* activity_samples
  segments,  \* activity_segments of source 'auto': [start, duration, key]
  gated      \* history: real times at which a poll found the gate closed

vars == <<now, real, steps, producer, sent, samples, segments, gated>>

\* ts: SourceEvent.ts; at: when that really was.
Samples  == [ts : Times, key : Keys, at : Times]
Segments == [start : Times, duration : 0 .. (Gap - 1), key : Keys]

TypeOK ==
  /\ now \in Times /\ real \in Times /\ steps \in 0 .. MaxSteps
  /\ producer \in [stream : Streams, seq : 0 .. MaxSeq, key : Keys \cup {None},
                   last : Times \cup {None}]
  /\ sent \in [Points -> Samples \cup {None}]
  /\ samples \in [Points -> Samples \cup {None}]
  /\ segments \in [Points -> Segments \cup {None}]
  /\ gated \subseteq Times

Fresh(stream) == [stream |-> stream, seq |-> 0, key |-> None, last |-> None]

Nothing == [p \in Points |-> None]

Init ==
  /\ now = 0 /\ real = 0 /\ steps = 0
  /\ producer = Fresh(1)
  /\ sent = Nothing /\ samples = Nothing /\ segments = Nothing
  /\ gated = {}

-----------------------------------------------------------------------------
(* The producer. *)

Room == producer.stream < MaxStreams

\* discontinuity(): forget the last sample and begin a new lifetime.  One that
\* has no sample yet is as good as new.
Broken == IF producer.seq = 0 THEN producer ELSE Fresh(producer.stream + 1)

\* Paused, eyes closed, lock state unknown, app blocked, idle probe failed.
PollGated ==
  /\ producer.seq = 0 \/ Room
  /\ producer' = Broken
  /\ gated' = gated \cup {real}
  /\ UNCHANGED <<now, real, steps, sent, samples, segments>>

\* A new process has a new accumulator.
Restart ==
  /\ producer.seq # 0 /\ Room
  /\ producer' = Broken
  /\ UNCHANGED <<now, real, steps, sent, samples, segments, gated>>

\* The producer a sample is added to, had it not looked at the clock.
CurrentWhateverClock == producer

\* ingest_detailed begins a new lifetime when the clock is not past the last
\* emission.
Current == IF producer.last # None /\ now <= producer.last THEN Broken ELSE producer

Due(c, key) == key # c.key \/ now - c.last >= Heartbeat

\* PollOpen: a change or a due heartbeat is worth a sample.
PollOpen(key) ==
  /\ Current = producer \/ Room
  /\ IF Due(Current, key)
     THEN /\ Current.seq < MaxSeq
          /\ producer' = [stream |-> Current.stream, seq |-> Current.seq + 1, key |-> key, last |-> now]
          /\ sent' = [sent EXCEPT ![<<Current.stream, Current.seq + 1>>] =
                        [ts |-> now, key |-> key, at |-> real]]
     ELSE UNCHANGED <<producer, sent>>
  /\ UNCHANGED <<now, real, steps, samples, segments, gated>>

-----------------------------------------------------------------------------
(* The store. *)

After(p) == <<p[1], p[2] + 1>>

\* To the next consecutive sample, when it is there and not too far.
Duration(a, b) ==
  IF b # None /\ b.ts - a.ts \in 0 .. (Gap - 1) THEN b.ts - a.ts ELSE 0

\* materialize_activity_sample, from the samples S.
Segment(S, p) ==
  [start    |-> S[p].ts,
   duration |-> Duration(S[p], IF After(p) \in Points THEN S[After(p)] ELSE None),
   key      |-> S[p].key]

\* Project, had it thought of ordered arrival only.
ProjectForward(p) ==
  LET S == [samples EXCEPT ![p] = sent[p]]
  IN  /\ samples' = S
      /\ segments' = [q \in Points |->
           IF q = p THEN [start |-> S[p].ts, duration |-> 0, key |-> S[p].key]
           ELSE IF After(q) = p /\ S[q] # None THEN Segment(S, q) ELSE segments[q]]

\* project_activity_event of a new sample: its row, its segment and its
\* predecessor's.
Project(p) ==
  LET S == [samples EXCEPT ![p] = sent[p]]
  IN  /\ samples' = S
      /\ segments' = [q \in Points |->
           IF q = p \/ (After(q) = p /\ S[q] # None) THEN Segment(S, q) ELSE segments[q]]

\* A sample arrives, for the first time or again: an exact replay changes
\* nothing.
Deliver(p) ==
  /\ sent[p] # None
  /\ IF samples[p] = None THEN Project(p) ELSE UNCHANGED <<samples, segments>>
  /\ UNCHANGED <<now, real, steps, producer, sent, gated>>

Wipe ==
  /\ samples # Nothing
  /\ samples' = Nothing /\ segments' = Nothing
  /\ UNCHANGED <<now, real, steps, producer, sent, gated>>

-----------------------------------------------------------------------------
(* Time. *)

Tick ==
  /\ real < MaxTime /\ now < MaxTime
  /\ real' = real + 1 /\ now' = now + 1
  /\ UNCHANGED <<steps, producer, sent, samples, segments, gated>>

\* The wall clock is set, back or forward (a time server, a sleep).
SetClock ==
  /\ steps < MaxSteps
  /\ steps' = steps + 1
  /\ now' \in Times
  /\ UNCHANGED <<real, producer, sent, samples, segments, gated>>

-----------------------------------------------------------------------------

Next ==
  \/ \E key \in Keys : PollOpen(key)
  \/ PollGated \/ Restart
  \/ \E p \in Points : Deliver(p)
  \/ Wipe \/ Tick \/ SetClock

Spec == Init /\ [][Next]_vars

-----------------------------------------------------------------------------
(* Properties. *)

\* The segments are a function of the set of samples in the table, whatever
\* order, repetition or loss they came with: "ordered and late arrivals update
\* at most two intervals", and that is enough.
ProjectionIsFunction ==
  \A p \in Points :
    segments[p] = IF samples[p] = None THEN None ELSE Segment(samples, p)

\* Within a lifetime no two segments overlap, so that a total counts no moment
\* of the wall clock twice.
LifetimeSegmentsDisjoint ==
  \A p, q \in {p \in Points : segments[p] # None} :
    p[1] = q[1] /\ p[2] < q[2] => segments[p].start + segments[p].duration <= segments[q].start

\* "Pause, closed eyes and blocklisted applications ... break continuity": no
\* segment spans a moment at which a poll found the gate closed.
NoTimeWhileGated ==
  \A p \in Points :
    segments[p] # None /\ segments[p].duration > 0
      => \A t \in gated : t <= sent[p].at \/ t >= sent[After(p)].at

\* What the reports add up: no moment of a lifetime twice, and none at which
\* nothing was to be recorded.
TimeCountedOnce == LifetimeSegmentsDisjoint /\ NoTimeWhileGated

=============================================================================
