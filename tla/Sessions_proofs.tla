---------------------------- MODULE Sessions_proofs ----------------------------
(***************************************************************************)
(* The sessions table for every set of applications, every queue capacity  *)
(* and every number of runs, sessions and failed writes; the microphone's  *)
(* loop for every length of a trunk, of the silence that ends one, of the  *)
(* pre-roll, of the padding and of the backlog; and the keyboard and the   *)
(* mouse for every set of windows and of presses.                          *)
(*                                                                         *)
(* What makes the two invariants of the table inductive is where a         *)
(* transition can be between the bind and the write: in the capture's hand *)
(* only until the batch is queued or dropped, then in the queue, then in   *)
(* the hand of the persist task, which writes the session before the       *)
(* frames bound to it.  What makes the microphone's inductive is how the   *)
(* trunk under way begins and how long it may have been silent, so that    *)
(* whatever flush cuts off has silence only where a stored trunk may.      *)
(* What keeps the export from drifting is that a trunk's timestamp is less *)
(* than the backlog after whatever is heard later; that trunks can be      *)
(* sorted, and that the ends of their segments exist, is proved by         *)
(* induction.                                                              *)
(* What makes the keyboard's is that every press is handled in turn: those *)
(* before the n-th are in an event, in what is open, or given up, and the  *)
(* events of one sort lie before each other and before what is open.       *)
(***************************************************************************)
EXTENDS Sessions, AudioCapture, HidInput, Integers, SequenceTheorems, FiniteSetTheorems,
        WellFoundedInduction, TLAPS

\* A capture's app is an app, and its hand is empty but between bind and queue.
LoopConsistent ==
  /\ loop.pc = "gated" => loop.app \in Fronts
  /\ loop.pc # "bound" => loop.hand = Empty

\* The frames of a batch are bound to the session it names as open.
FramesBound ==
  /\ \A t \in InFlight : t.frames = t.open \/ t = Empty
  /\ writer.pc = "frames" =>
       \/ writer.hand.frames = None
       \/ rows[writer.hand.frames] # "none"
       \/ writer.hand.frames \in rowless

DownIsEmpty ==
  daemon = "down" =>
    /\ binder = NoSession /\ queue = <<>>
    /\ loop.pc = "over" /\ hid.pc = "wait" /\ writer.pc = "wait"

IInv ==
  /\ TypeOK /\ LoopConsistent /\ FramesBound /\ DownIsEmpty
  /\ OpenRowExplained /\ EvidenceHasRow

-----------------------------------------------------------------------------
(* Facts about single operators. *)

LEMMA EmptyIsBatch == Empty \in Batches /\ Empty.closed = None /\ Empty.open = None /\ Empty.frames = None
  BY DEF Empty, Batches

LEMMA NoneIsNoSid == SessionsAssumption => None \notin Sids
  BY DEF SessionsAssumption, Sids

LEMMA AppendRange ==
  ASSUME NEW S, NEW q \in Seq(S), NEW x \in S
  PROVE  /\ Append(q, x) \in Seq(S) /\ Len(Append(q, x)) = Len(q) + 1
         /\ Range(Append(q, x)) = Range(q) \cup {x}
<1>1. /\ Append(q, x) \in Seq(S) /\ Len(Append(q, x)) = Len(q) + 1
      /\ \A i \in 1 .. Len(q) : Append(q, x)[i] = q[i]
      /\ Append(q, x)[Len(q) + 1] = x
  BY AppendProperties
<1>2. Len(q) \in Nat /\ DOMAIN q = 1 .. Len(q) /\ DOMAIN Append(q, x) = 1 .. (Len(q) + 1)
  BY <1>1, LenProperties
<1>3. Range(Append(q, x)) = Range(q) \cup {x}
  BY <1>1, <1>2 DEF Range
<1> QED BY <1>1, <1>3

LEMMA TailRange ==
  ASSUME NEW S, NEW q \in Seq(S), q # <<>>
  PROVE  /\ Tail(q) \in Seq(S) /\ Len(Tail(q)) = Len(q) - 1 /\ Head(q) \in S
         /\ Range(q) = Range(Tail(q)) \cup {Head(q)}
<1>1. /\ Tail(q) \in Seq(S) /\ Len(Tail(q)) = Len(q) - 1 /\ Head(q) \in S
      /\ \A i \in 1 .. Len(Tail(q)) : Tail(q)[i] = q[i + 1]
  BY HeadTailProperties
<1>2. /\ Len(q) \in Nat \ {0} /\ DOMAIN q = 1 .. Len(q)
      /\ DOMAIN Tail(q) = 1 .. (Len(q) - 1)
  BY <1>1, LenProperties, EmptySeq
<1>3. Head(q) = q[1]
  OBVIOUS
<1>4. Range(q) = Range(Tail(q)) \cup {Head(q)}
  <2>1. ASSUME NEW i \in DOMAIN q PROVE q[i] = Head(q) \/ q[i] \in Range(Tail(q))
    <3>1. CASE i = 1 BY <3>1, <1>3
    <3>2. CASE i # 1
      <4>1. i - 1 \in DOMAIN Tail(q) /\ Tail(q)[i - 1] = q[i]
        BY <3>2, <1>1, <1>2
      <4> QED BY <4>1 DEF Range
    <3> QED BY <3>1, <3>2
  <2>2. ASSUME NEW i \in DOMAIN Tail(q) PROVE Tail(q)[i] \in Range(q)
    <3>1. i + 1 \in DOMAIN q /\ Tail(q)[i] = q[i + 1]
      BY <1>1, <1>2
    <3> QED BY <3>1 DEF Range
  <2>3. Head(q) \in Range(q)
    BY <1>2, <1>3 DEF Range
  <2> QED BY <2>1, <2>2, <2>3 DEF Range
<1> QED BY <1>1, <1>4

LEMMA RangeOfEmpty == Range(<<>>) = {}
  BY DEF Range

-----------------------------------------------------------------------------
(* What a bind and a write do. *)

LEMMA TouchFacts ==
  ASSUME SessionsAssumption, TypeOK, NEW app \in Fronts, Touch(app)
  PROVE  LET t == Transition(app)
         IN  /\ binder' \in Binders
             /\ opened' \in 0 .. MaxSessions
             /\ t \in Batches /\ t.frames = t.open /\ t.open = binder'.sid
             /\ binder.sid = binder'.sid \/ binder.sid = t.closed
<1>1. Touched(app) \in Sids
  <2>1. CASE Keeps(app) BY <2>1 DEF Touched, Keeps, TypeOK, Binders
  <2>2. CASE ~Keeps(app)
    BY <2>2 DEF Touched, Touch, Room, TypeOK, Sids, SessionsAssumption
  <2> QED BY <2>1, <2>2
<1>2. opened' \in 0 .. MaxSessions
  BY DEF Touch, Room, TypeOK, SessionsAssumption
<1>3. Transition(app) \in Batches
  BY <1>1 DEF Transition, Batches, TypeOK, Binders
<1>4. binder' \in Binders
  BY <1>1 DEF Touch, Binders
<1> QED BY <1>1, <1>2, <1>3, <1>4 DEF Touch, Transition, Touched, Keeps

LEMMA ApplyFacts ==
  ASSUME TypeOK, SessionsAssumption, NEW t \in Batches, Apply(t)
  PROVE  /\ rows' \in [Sids -> {"none", "open", "closed"}] /\ evidence' = evidence
         /\ faults' \in 0 .. MaxFaults
         /\ lost' \subseteq Sids /\ rowless' \subseteq Sids
         /\ lost \subseteq lost' /\ stale' = stale /\ rowless \subseteq rowless'
         /\ \A s \in Sids : rows'[s] = "none" => rows[s] = "none"
         /\ \A s \in Sids : rows'[s] = "open" =>
              s = t.open \/ s \in lost' \/ (rows[s] = "open" /\ s # t.closed)
<1>1. CASE rows' = Upserted(t) /\ UNCHANGED <<evidence, faults, history>>
  <2>1. rows' \in [Sids -> {"none", "open", "closed"}]
    BY <1>1 DEF Upserted, TypeOK
  <2>2. \A s \in Sids : rows'[s] = IF s = t.open THEN "open" ELSE IF s = t.closed THEN "closed" ELSE rows[s]
    BY <1>1 DEF Upserted
  <2>3. evidence' = evidence /\ faults' = faults /\ lost' = lost /\ stale' = stale /\ rowless' = rowless
    BY <1>1 DEF history
  <2>4. \A s \in Sids : rows'[s] = "none" => rows[s] = "none"
    BY <2>2
  <2> QED BY <2>1, <2>2, <2>3, <2>4 DEF TypeOK
<1>2. CASE /\ faults < MaxFaults /\ faults' = faults + 1
           /\ lost' = lost \cup ({t.closed} \ {None})
           /\ rowless' = rowless \cup Named(t)
           /\ UNCHANGED <<tables, stale>>
  <2>1. t.closed \in Sids \cup {None} /\ t.open \in Sids \cup {None}
    BY DEF Batches
  <2>2. faults' \in 0 .. MaxFaults
    BY <1>2 DEF TypeOK, SessionsAssumption
  <2>3. rows' = rows /\ evidence' = evidence /\ stale' = stale
    BY <1>2 DEF tables
  <2> QED BY <1>2, <2>1, <2>2, <2>3, NoneIsNoSid DEF Named, TypeOK
<1>3. \/ rows' = Upserted(t) /\ UNCHANGED <<evidence, faults, history>>
      \/ /\ faults < MaxFaults /\ faults' = faults + 1
         /\ lost' = lost \cup ({t.closed} \ {None})
         /\ rowless' = rowless \cup Named(t)
         /\ UNCHANGED <<tables, stale>>
  BY DEF Apply
<1> QED BY <1>1, <1>2, <1>3

-----------------------------------------------------------------------------
\* An open row after a step that closed nothing behind anybody's back.
LEMMA ExplainedStep ==
  ASSUME OpenRowExplained, daemon # "down",
         \A s \in Sids : rows'[s] = "open" =>
           \/ s = binder'.sid \/ s \in lost' \cup stale'
           \/ \E t \in InFlight' : t.closed = s
           \/ /\ rows[s] = "open"
              /\ s = binder.sid => s = binder'.sid,
         lost \subseteq lost', stale \subseteq stale',
         \A t \in InFlight :
           t \in InFlight' \/ t.closed \notin Sids \/ t.closed \in lost' \/ rows'[t.closed] # "open"
             \/ t.closed \in stale'
  PROVE  OpenRowExplained'
  BY DEF OpenRowExplained

-----------------------------------------------------------------------------
(* The invariant. *)

LEMMA InitIInv == ASSUME SessionsAssumption, Init PROVE IInv
<1>1. TypeOK
  <2>1. <<>> \in Seq(Batches) /\ Len(<<>>) = 0
    OBVIOUS
  <2>2. screen \in Screens /\ binder \in Binders /\ loop \in LoopStates
    BY EmptyIsBatch DEF Init, Waiting, NoSession, Fronts, Screens, Binders, LoopStates
  <2>3. rows \in [Sids -> {"none", "open", "closed"}] /\ opened \in 0 .. MaxSessions
    BY DEF Init, SessionsAssumption
  <2>4. hid \in [pc : {"wait", "ready"}, app : Fronts] /\ writer \in [pc : {"wait", "apply", "frames"}, hand : Batches]
    BY EmptyIsBatch DEF Init, Fronts
  <2>5. runs \in 0 .. MaxRuns /\ faults \in 0 .. MaxFaults /\ Len(queue) <= QueueCapacity /\ queue \in Seq(Batches)
    BY <2>1 DEF Init, SessionsAssumption
  <2> QED BY <2>2, <2>3, <2>4, <2>5 DEF Init, TypeOK
<1>2. LoopConsistent
  BY DEF Init, LoopConsistent, Waiting
<1>3. InFlight = {Empty}
  BY RangeOfEmpty DEF Init, InFlight, Waiting
<1>4. FramesBound
  BY <1>3 DEF FramesBound, Init
<1>5. DownIsEmpty /\ OpenRowExplained /\ EvidenceHasRow
  BY DEF Init, DownIsEmpty, OpenRowExplained, EvidenceHasRow
<1> QED BY <1>1, <1>2, <1>4, <1>5 DEF IInv

\* The steps that leave the tables, the open session and the transitions alone.
Calm ==
  \/ BeginPoll \/ PollNothing \/ GateCapture \/ SkipCapture
  \/ HidGate \/ WriterLosesFrames \/ Desktop \/ IdleElapses
  \/ UNCHANGED vars

LEMMA CalmType ==
  ASSUME SessionsAssumption, TypeOK, Calm
  PROVE  TypeOK'
<1>1. loop' \in LoopStates
  <2>1. CASE BeginPoll BY <2>1 DEF BeginPoll, TypeOK, LoopStates, Screens
  <2>2. CASE PollNothing BY <2>2 DEF PollNothing, TypeOK, LoopStates, Fronts
  <2>3. CASE GateCapture BY <2>3 DEF GateCapture, Passes, TypeOK, LoopStates, Screens
  <2>4. CASE SkipCapture
    <3>1. loop' = [loop EXCEPT !.pc = AfterCapture, !.app = Unknown]
      BY <2>4 DEF SkipCapture
    <3>2. AfterCapture \in {"close", "wait"} /\ Unknown \in Fronts
      BY DEF AfterCapture, Fronts
    <3> QED BY <3>1, <3>2 DEF TypeOK, LoopStates
  <2>5. CASE loop' = loop BY <2>5 DEF TypeOK
  <2> QED BY <2>1, <2>2, <2>3, <2>4, <2>5
        DEF Calm, HidGate, WriterLosesFrames, Desktop, IdleElapses, vars
<1>2. screen' \in Screens
  <2>1. CASE Desktop BY <2>1 DEF Desktop, TypeOK, Screens
  <2>2. CASE screen' = screen BY <2>2 DEF TypeOK
  <2> QED BY <2>1, <2>2
        DEF Calm, BeginPoll, PollNothing, GateCapture, SkipCapture, HidGate, WriterLosesFrames,
            IdleElapses, vars
<1>3. binder' \in Binders
  <2>1. CASE IdleElapses BY <2>1 DEF IdleElapses, TypeOK, Binders
  <2>2. CASE binder' = binder BY <2>2 DEF TypeOK
  <2> QED BY <2>1, <2>2
        DEF Calm, BeginPoll, PollNothing, GateCapture, SkipCapture, HidGate, WriterLosesFrames,
            Desktop, vars
<1>4. hid' \in [pc : {"wait", "ready"}, app : Fronts]
  <2>1. CASE HidGate BY <2>1 DEF HidGate, TypeOK, Screens
  <2>2. CASE hid' = hid BY <2>2 DEF TypeOK
  <2> QED BY <2>1, <2>2
        DEF Calm, BeginPoll, PollNothing, GateCapture, SkipCapture, WriterLosesFrames, Desktop,
            IdleElapses, vars
<1>5. /\ writer' \in [pc : {"wait", "apply", "frames"}, hand : Batches] /\ faults' \in 0 .. MaxFaults
  <2>1. CASE WriterLosesFrames
    BY <2>1, EmptyIsBatch DEF WriterLosesFrames, WriterDone, TypeOK, SessionsAssumption
  <2>2. CASE writer' = writer /\ faults' = faults BY <2>2 DEF TypeOK
  <2> QED BY <2>1, <2>2
        DEF Calm, BeginPoll, PollNothing, GateCapture, SkipCapture, HidGate, Desktop,
            IdleElapses, vars
<1>6. UNCHANGED <<opened, tables, queue, rest, history>>
  BY DEF Calm, BeginPoll, PollNothing, GateCapture, SkipCapture, HidGate, WriterLosesFrames,
         Desktop, IdleElapses, vars, tables, rest, history
<1> QED BY <1>1, <1>2, <1>3, <1>4, <1>5, <1>6 DEF TypeOK, tables, rest, history

LEMMA CalmFacts ==
  ASSUME TypeOK, LoopConsistent, Calm
  PROVE  /\ UNCHANGED <<tables, queue, daemon, history>>
         /\ binder'.sid = binder.sid /\ loop'.hand = loop.hand
         /\ LoopConsistent'
         /\ InFlight' = InFlight
         /\ writer'.pc = writer.pc \/ (writer.pc = "frames" /\ writer'.pc = "wait")
         /\ writer'.pc = "frames" => writer' = writer
         /\ DownIsEmpty => DownIsEmpty'
<1>1. CASE BeginPoll
  BY <1>1 DEF BeginPoll, TypeOK, LoopStates, Screens, LoopConsistent, DownIsEmpty, InFlight, rest, tables, history
<1>2. CASE PollNothing
  BY <1>2 DEF PollNothing, TypeOK, LoopStates, Screens, LoopConsistent, DownIsEmpty, InFlight, rest, tables, history
<1>3. CASE GateCapture
  BY <1>3 DEF GateCapture, Passes, TypeOK, LoopStates, Screens, LoopConsistent, DownIsEmpty, InFlight, rest, tables, history
<1>4. CASE SkipCapture
  BY <1>4 DEF SkipCapture, AfterCapture, TypeOK, LoopStates, LoopConsistent, DownIsEmpty, InFlight, rest, tables, history
<1>5. CASE HidGate
  BY <1>5 DEF HidGate, LoopConsistent, DownIsEmpty, InFlight, rest, tables, history
<1>6. CASE WriterLosesFrames
  BY <1>6 DEF WriterLosesFrames, WriterDone, LoopConsistent, DownIsEmpty, InFlight, rest, tables, history
<1>7. CASE Desktop
  BY <1>7 DEF Desktop, LoopConsistent, DownIsEmpty, InFlight, rest, tables, history
<1>8. CASE IdleElapses
  BY <1>8 DEF IdleElapses, NoSession, TypeOK, Binders, LoopConsistent, DownIsEmpty, InFlight, rest, tables, history
<1>9. CASE UNCHANGED vars
  BY <1>9 DEF vars, LoopConsistent, DownIsEmpty, InFlight, tables, history
<1> QED BY <1>1, <1>2, <1>3, <1>4, <1>5, <1>6, <1>7, <1>8, <1>9 DEF Calm

LEMMA CalmStep == ASSUME SessionsAssumption, IInv, Calm PROVE IInv'
<1>1. TypeOK'
  BY CalmType DEF IInv
<1>2. LoopConsistent'
  BY CalmFacts DEF IInv
<1>3. /\ rows' = rows /\ evidence' = evidence /\ rowless' = rowless /\ lost' = lost
      /\ stale' = stale /\ daemon' = daemon /\ queue' = queue /\ InFlight' = InFlight
      /\ binder'.sid = binder.sid /\ loop'.hand = loop.hand
      /\ writer.pc = "wait" => writer'.pc = "wait"
      /\ writer'.pc = "frames" => writer' = writer
  BY CalmFacts DEF IInv, tables, history
<1>4. FramesBound'
  BY <1>3 DEF IInv, FramesBound
<1>5. DownIsEmpty'
  BY CalmFacts DEF IInv
<1>6. OpenRowExplained'
  BY <1>3 DEF IInv, OpenRowExplained
<1>7. EvidenceHasRow'
  BY <1>3 DEF IInv, EvidenceHasRow
<1> QED BY <1>1, <1>2, <1>4, <1>5, <1>6, <1>7 DEF IInv

-----------------------------------------------------------------------------
(* The steps that write a transition at once: polls, closes, the input loop. *)

LEMMA DirectWrite ==
  ASSUME SessionsAssumption, IInv, NEW t \in Batches, Apply(t),
         UNCHANGED <<writer, queue>>, loop'.hand = loop.hand, daemon # "down",
         t.open = binder'.sid,
         binder.sid = binder'.sid \/ binder.sid = t.closed
  PROVE  FramesBound' /\ OpenRowExplained' /\ EvidenceHasRow'
<1>1. /\ evidence' = evidence /\ lost \subseteq lost' /\ stale' = stale /\ rowless \subseteq rowless'
      /\ \A s \in Sids : rows'[s] = "none" => rows[s] = "none"
      /\ \A s \in Sids : rows'[s] = "open" =>
           s = t.open \/ s \in lost' \/ (rows[s] = "open" /\ s # t.closed)
  BY ApplyFacts DEF IInv
<1>2. InFlight' = InFlight
  BY DEF InFlight
<1>3. FramesBound'
  BY <1>1, <1>2 DEF FramesBound, IInv, TypeOK, Batches
<1>4. OpenRowExplained'
  BY <1>1, <1>2, ExplainedStep DEF IInv
<1>5. EvidenceHasRow'
  BY <1>1 DEF IInv, EvidenceHasRow, TypeOK
<1> QED BY <1>3, <1>4, <1>5

LEMMA ClosingFacts ==
  ASSUME TypeOK, binder' = NoSession
  PROVE  /\ Closing \in Batches /\ Closing.open = binder'.sid /\ Closing.closed = binder.sid
         /\ binder' \in Binders
  BY DEF TypeOK, Closing, Empty, Batches, Binders, NoSession, Fronts

LEMMA PollStep ==
  ASSUME SessionsAssumption, IInv, PollLocked \/ PollBinds
  PROVE  IInv'
<1>1. /\ loop.pc = "poll" /\ loop' = [loop EXCEPT !.pc = "polled"]
      /\ UNCHANGED <<screen, hid, queue, writer, rest>>
  BY DEF PollLocked, PollBinds
<1>2. /\ loop' \in LoopStates /\ loop'.pc = "polled" /\ loop'.hand = loop.hand /\ loop.hand = Empty
  BY <1>1 DEF IInv, TypeOK, LoopStates, Fronts, LoopConsistent
<1>3. PICK t \in Batches :
        /\ Apply(t) /\ binder' \in Binders /\ opened' \in 0 .. MaxSessions
        /\ t.open = binder'.sid
        /\ binder.sid = binder'.sid \/ binder.sid = t.closed
  <2>1. CASE PollLocked
    BY <2>1, ClosingFacts DEF PollLocked, IInv, TypeOK
  <2>2. CASE PollBinds
    <3>1. loop.app \in Fronts /\ Touch(loop.app) /\ Apply(Transition(loop.app))
      BY <2>2 DEF PollBinds, Fronts
    <3> QED BY <3>1, TouchFacts DEF IInv
  <2> QED BY <2>1, <2>2
<1>4. daemon' = daemon /\ runs' = runs /\ daemon # "down"
  BY <1>1 DEF rest, IInv, DownIsEmpty
<1>5. TypeOK'
  BY <1>1, <1>2, <1>3, <1>4, ApplyFacts DEF IInv, TypeOK
<1>6. LoopConsistent' /\ DownIsEmpty'
  BY <1>2, <1>4 DEF LoopConsistent, DownIsEmpty
<1>7. FramesBound' /\ OpenRowExplained' /\ EvidenceHasRow'
  BY <1>1, <1>2, <1>3, <1>4, DirectWrite
<1> QED BY <1>5, <1>6, <1>7 DEF IInv

LEMMA CloseIdleStep ==
  ASSUME SessionsAssumption, IInv, CloseIdle
  PROVE  IInv'
<1>1. /\ loop' = Waiting /\ loop.hand = Empty /\ daemon # "down"
      /\ UNCHANGED <<screen, opened, hid, queue, writer, rest>>
  BY DEF CloseIdle, IInv, LoopConsistent, DownIsEmpty
<1>2. loop' \in LoopStates /\ loop'.pc = "wait" /\ loop'.hand = loop.hand
  BY <1>1, EmptyIsBatch DEF Waiting, LoopStates, Fronts
<1>3. LoopConsistent' /\ DownIsEmpty'
  BY <1>1, <1>2 DEF LoopConsistent, DownIsEmpty, rest
<1>4. CASE Apply(Closing) /\ binder' = NoSession
  <2>1. TypeOK'
    BY <1>1, <1>2, <1>4, ClosingFacts, ApplyFacts DEF IInv, TypeOK, rest
  <2>2. FramesBound' /\ OpenRowExplained' /\ EvidenceHasRow'
    BY <1>1, <1>2, <1>4, ClosingFacts, DirectWrite DEF IInv
  <2> QED BY <1>3, <2>1, <2>2 DEF IInv
<1>5. CASE UNCHANGED <<binder, tables, faults, history>>
  <2>1. InFlight' = InFlight
    BY <1>1, <1>2 DEF InFlight
  <2>2. TypeOK'
    BY <1>1, <1>2, <1>5 DEF IInv, TypeOK, rest, tables, history
  <2>3. FramesBound' /\ OpenRowExplained' /\ EvidenceHasRow'
    BY <1>1, <1>5, <2>1 DEF IInv, FramesBound, OpenRowExplained, EvidenceHasRow, rest, tables, history
  <2> QED BY <1>3, <2>2, <2>3 DEF IInv
<1> QED BY <1>4, <1>5 DEF CloseIdle

LEMMA HidBindStep ==
  ASSUME SessionsAssumption, IInv, HidBind
  PROVE  IInv'
<1>1. /\ hid.pc = "ready" /\ hid' = [pc |-> "wait", app |-> Unknown] /\ daemon # "down"
      /\ UNCHANGED <<screen, loop, queue, writer, rest>>
  BY DEF HidBind, IInv, DownIsEmpty
<1>2. LoopConsistent' /\ DownIsEmpty' /\ hid' \in [pc : {"wait", "ready"}, app : Fronts]
  BY <1>1 DEF IInv, LoopConsistent, DownIsEmpty, rest, Fronts
<1>3. CASE Touch(hid.app) /\ Apply(Transition(hid.app))
  <2>1. hid.app \in Fronts
    BY DEF IInv, TypeOK
  <2>2. PICK t \in Batches :
          /\ Apply(t) /\ binder' \in Binders /\ opened' \in 0 .. MaxSessions
          /\ t.open = binder'.sid
          /\ binder.sid = binder'.sid \/ binder.sid = t.closed
    BY <1>3, <2>1, TouchFacts DEF IInv
  <2>3. TypeOK'
    BY <1>1, <1>2, <2>2, ApplyFacts DEF IInv, TypeOK, rest
  <2>4. FramesBound' /\ OpenRowExplained' /\ EvidenceHasRow'
    BY <1>1, <2>2, DirectWrite DEF IInv
  <2> QED BY <1>2, <2>3, <2>4 DEF IInv
<1>4. CASE UNCHANGED <<binder, opened, tables, faults, history>>
  <2>1. InFlight' = InFlight
    BY <1>1 DEF InFlight
  <2>2. TypeOK'
    BY <1>1, <1>2, <1>4 DEF IInv, TypeOK, rest, tables, history
  <2>3. FramesBound' /\ OpenRowExplained' /\ EvidenceHasRow'
    BY <1>1, <1>4, <2>1 DEF IInv, FramesBound, OpenRowExplained, EvidenceHasRow, rest, tables, history
  <2> QED BY <1>2, <2>2, <2>3 DEF IInv
<1> QED BY <1>3, <1>4 DEF HidBind

LEMMA StopStep ==
  ASSUME SessionsAssumption, IInv, Stop
  PROVE  IInv'
<1>1. /\ loop.pc = "wait" /\ loop' = [Waiting EXCEPT !.pc = "over"] /\ loop.hand = Empty
      /\ daemon = "up" /\ daemon' = "draining" /\ Apply(Closing) /\ binder' = NoSession
      /\ UNCHANGED <<screen, opened, hid, queue, writer, runs>>
  BY DEF Stop, IInv, LoopConsistent
<1>2. loop' \in LoopStates /\ loop'.pc = "over" /\ loop'.hand = loop.hand
  BY <1>1, EmptyIsBatch DEF Waiting, LoopStates, Fronts
<1>3. LoopConsistent' /\ DownIsEmpty'
  BY <1>1, <1>2 DEF LoopConsistent, DownIsEmpty
<1>4. TypeOK'
  BY <1>1, <1>2, ClosingFacts, ApplyFacts DEF IInv, TypeOK
<1>5. FramesBound' /\ OpenRowExplained' /\ EvidenceHasRow'
  BY <1>1, <1>2, ClosingFacts, DirectWrite DEF IInv
<1> QED BY <1>3, <1>4, <1>5 DEF IInv

-----------------------------------------------------------------------------
(* The capture and the persist task. *)

LEMMA BindCaptureStep ==
  ASSUME SessionsAssumption, IInv, BindCapture
  PROVE  IInv'
<1>1. /\ loop.pc = "gated" /\ loop.app \in Fronts /\ loop.hand = Empty /\ daemon # "down"
      /\ loop' = [loop EXCEPT !.pc = "bound", !.app = Unknown, !.hand = Transition(loop.app)]
      /\ UNCHANGED <<screen, tables, hid, queue, writer, rest, faults, history>>
  BY DEF BindCapture, IInv, LoopConsistent, DownIsEmpty
<1>2. LET t == Transition(loop.app)
      IN  /\ binder' \in Binders /\ opened' \in 0 .. MaxSessions
          /\ t \in Batches /\ t.frames = t.open /\ t.open = binder'.sid
          /\ binder.sid = binder'.sid \/ binder.sid = t.closed
  BY <1>1, TouchFacts DEF BindCapture, IInv
<1>3. loop' \in LoopStates /\ loop'.pc = "bound" /\ loop'.hand = Transition(loop.app)
  BY <1>1, <1>2 DEF IInv, TypeOK, LoopStates, Fronts
<1>4. InFlight' = (InFlight \ {Empty}) \cup {Transition(loop.app)} \/ InFlight' = InFlight \cup {Transition(loop.app)}
  BY <1>1, <1>3 DEF InFlight
<1>5. TypeOK'
  BY <1>1, <1>2, <1>3 DEF IInv, TypeOK, tables, rest, history
<1>6. LoopConsistent' /\ DownIsEmpty'
  BY <1>1, <1>3 DEF LoopConsistent, DownIsEmpty, rest
<1>7. FramesBound' /\ EvidenceHasRow'
  BY <1>1, <1>2, <1>4 DEF IInv, FramesBound, EvidenceHasRow, tables, history
<1>8. OpenRowExplained'
  <2>1. SUFFICES ASSUME NEW s \in Sids, rows[s] = "open", s \notin lost \cup stale, s # binder'.sid
                 PROVE  \E t \in InFlight' : t.closed = s
    BY <1>1 DEF OpenRowExplained, tables, rest, history
  <2>2. CASE s = binder.sid
    BY <2>1, <2>2, <1>2, <1>4
  <2>3. CASE s # binder.sid
    BY <2>1, <2>3, <1>1, <1>4, EmptyIsBatch, NoneIsNoSid DEF IInv, OpenRowExplained
  <2> QED BY <2>2, <2>3
<1> QED BY <1>5, <1>6, <1>7, <1>8 DEF IInv

LEMMA CaptureEndsStep ==
  ASSUME SessionsAssumption, IInv, QueueBatch \/ CaptureFails
  PROVE  IInv'
<1>1. /\ loop.pc = "bound" /\ loop' = [loop EXCEPT !.pc = AfterCapture, !.hand = Empty]
      /\ UNCHANGED <<screen, binder, opened, tables, hid, writer, rest, faults, stale, rowless>>
      /\ lost \subseteq lost' /\ lost' \subseteq lost \cup ({loop.hand.closed} \ {None})
      /\ \/ queue' = Append(queue, loop.hand) /\ Len(queue) < QueueCapacity
         \/ queue' = queue /\ lost' = lost \cup ({loop.hand.closed} \ {None})
  BY DEF QueueBatch, CaptureFails
<1>2. /\ AfterCapture \in {"close", "wait"} /\ loop.hand \in Batches
      /\ loop' \in LoopStates /\ loop'.pc = AfterCapture /\ loop'.hand = Empty
  BY <1>1, EmptyIsBatch DEF AfterCapture, IInv, TypeOK, LoopStates
<1>3. /\ queue' \in Seq(Batches) /\ Len(queue') <= QueueCapacity
      /\ \/ Range(queue') = Range(queue) \cup {loop.hand}
         \/ Range(queue') = Range(queue) /\ lost' = lost \cup ({loop.hand.closed} \ {None})
  <2>1. CASE queue' = Append(queue, loop.hand) /\ Len(queue) < QueueCapacity
    <3>1. Len(queue) \in Nat
      BY LenProperties DEF IInv, TypeOK
    <3>2. Range(queue') = Range(queue) \cup {loop.hand} /\ queue' \in Seq(Batches) /\ Len(queue') = Len(queue) + 1
      BY <2>1, <1>2, AppendRange DEF IInv, TypeOK
    <3> QED BY <2>1, <3>1, <3>2 DEF SessionsAssumption
  <2>2. CASE queue' = queue /\ lost' = lost \cup ({loop.hand.closed} \ {None})
    BY <2>2 DEF IInv, TypeOK
  <2> QED BY <1>1, <2>1, <2>2
<1>4. TypeOK'
  <2>1. lost' \subseteq Sids
    BY <1>1, <1>2 DEF IInv, TypeOK, Batches
  <2> QED BY <1>1, <1>2, <1>3, <2>1 DEF IInv, TypeOK, tables, rest
<1>5. LoopConsistent' /\ DownIsEmpty'
  BY <1>1, <1>2 DEF IInv, LoopConsistent, DownIsEmpty, rest
<1>6. /\ \A t \in InFlight' : t \in InFlight \/ t = Empty
      /\ \A t \in InFlight : t \in InFlight' \/ t.closed = None \/ t.closed \in lost'
  BY <1>1, <1>2, <1>3 DEF InFlight
<1>7. FramesBound' /\ EvidenceHasRow'
  BY <1>1, <1>6 DEF IInv, FramesBound, EvidenceHasRow, tables
<1>8. OpenRowExplained'
  BY <1>1, <1>6, NoneIsNoSid DEF IInv, OpenRowExplained, tables, rest
<1> QED BY <1>4, <1>5, <1>7, <1>8 DEF IInv

LEMMA WriterTakesStep ==
  ASSUME SessionsAssumption, IInv, WriterTakes
  PROVE  IInv'
<1>1. /\ writer.pc = "wait" /\ queue # <<>> /\ daemon # "down"
      /\ writer' = [pc |-> "apply", hand |-> Head(queue)] /\ queue' = Tail(queue)
      /\ UNCHANGED <<screen, binder, opened, tables, loop, hid, rest, faults, history>>
  BY DEF WriterTakes
<1>2. /\ queue' \in Seq(Batches) /\ Len(queue') <= QueueCapacity /\ Head(queue) \in Batches
      /\ Range(queue) = Range(queue') \cup {Head(queue)}
  <2>1. /\ Tail(queue) \in Seq(Batches) /\ Len(Tail(queue)) = Len(queue) - 1 /\ Head(queue) \in Batches
        /\ Range(queue) = Range(Tail(queue)) \cup {Head(queue)}
    BY <1>1, TailRange DEF IInv, TypeOK
  <2>2. Len(queue) \in Nat
    BY LenProperties DEF IInv, TypeOK
  <2> QED BY <1>1, <2>1, <2>2 DEF IInv, TypeOK, SessionsAssumption
<1>3. InFlight' = InFlight
  BY <1>1, <1>2 DEF InFlight
<1>4. TypeOK'
  BY <1>1, <1>2 DEF IInv, TypeOK, tables, rest, history
<1>5. LoopConsistent' /\ DownIsEmpty'
  BY <1>1 DEF IInv, LoopConsistent, DownIsEmpty, rest
<1>6. FramesBound' /\ EvidenceHasRow' /\ OpenRowExplained'
  BY <1>1, <1>3 DEF IInv, FramesBound, EvidenceHasRow, OpenRowExplained, tables, rest, history
<1> QED BY <1>4, <1>5, <1>6 DEF IInv

LEMMA WriterAppliesStep ==
  ASSUME SessionsAssumption, IInv, WriterApplies
  PROVE  IInv'
<1> DEFINE t == writer.hand
<1>1. /\ writer.pc = "apply" /\ writer' = [writer EXCEPT !.pc = "frames"] /\ t \in Batches
      /\ writer'.pc = "frames" /\ writer'.hand = t /\ daemon # "down"
      /\ writer' \in [pc : {"wait", "apply", "frames"}, hand : Batches]
      /\ UNCHANGED <<screen, binder, opened, loop, hid, queue, rest>>
  BY DEF WriterApplies, IInv, TypeOK, DownIsEmpty
<1>2. t \in InFlight /\ InFlight' \subseteq InFlight /\ \A u \in InFlight : u \in InFlight' \/ u = t
  BY <1>1 DEF InFlight
<1>3. /\ rows' \in [Sids -> {"none", "open", "closed"}] /\ evidence' = evidence
      /\ faults' \in 0 .. MaxFaults
      /\ lost' \subseteq Sids /\ stale' \subseteq Sids /\ rowless' \subseteq Sids
      /\ lost \subseteq lost' /\ stale \subseteq stale' /\ rowless \subseteq rowless'
      /\ \A s \in Sids : rows'[s] = "none" => rows[s] = "none" /\ (s = t.open => s \in rowless')
      /\ \A s \in Sids : rows'[s] = "open" =>
           s \in {binder.sid} \cup stale' \cup lost' \/ (rows[s] = "open" /\ s # t.closed)
  <2>1. CASE /\ rows' = Upserted(t)
             /\ stale' = stale \cup ({t.open} \ {binder.sid, None})
             /\ UNCHANGED <<evidence, faults, lost, rowless>>
    <3>1. \A s \in Sids : rows'[s] = IF s = t.open THEN "open" ELSE IF s = t.closed THEN "closed" ELSE rows[s]
      BY <2>1 DEF Upserted
    <3>2. rows' \in [Sids -> {"none", "open", "closed"}]
      BY <2>1 DEF Upserted, IInv, TypeOK
    <3>3. \A s \in Sids : s = t.open => s \in {binder.sid} \cup stale'
      BY <2>1, NoneIsNoSid
    <3>4. stale' \subseteq Sids
      BY <2>1, <1>1 DEF IInv, TypeOK, Batches
    <3> QED BY <2>1, <3>1, <3>2, <3>3, <3>4 DEF IInv, TypeOK
  <2>2. CASE /\ faults < MaxFaults /\ faults' = faults + 1
             /\ lost' = lost \cup ({t.closed} \ {None})
             /\ rowless' = rowless \cup Named(t)
             /\ UNCHANGED <<tables, stale>>
    <3>1. rows' = rows /\ evidence' = evidence /\ stale' = stale
      BY <2>2 DEF tables
    <3>2. faults' \in 0 .. MaxFaults
      BY <2>2 DEF IInv, TypeOK, SessionsAssumption
    <3>3. t.closed \in Sids \cup {None} /\ t.open \in Sids \cup {None}
      BY <1>1 DEF Batches
    <3> QED BY <2>2, <3>1, <3>2, <3>3, NoneIsNoSid DEF IInv, TypeOK, Named
  <2> QED BY <2>1, <2>2 DEF WriterApplies
<1>4. TypeOK'
  BY <1>1, <1>3 DEF IInv, TypeOK, rest
<1>5. LoopConsistent' /\ DownIsEmpty'
  BY <1>1 DEF IInv, LoopConsistent, DownIsEmpty, rest
<1>6. FramesBound'
  <2>1. t.frames = t.open \/ t.frames = None
    BY <1>2, EmptyIsBatch DEF IInv, FramesBound
  <2>2. t.frames \in Sids \cup {None}
    BY <1>1 DEF Batches
  <2>3. \A u \in InFlight' : u.frames = u.open \/ u = Empty
    BY <1>2 DEF IInv, FramesBound
  <2> QED BY <1>1, <1>3, <2>1, <2>2, <2>3 DEF FramesBound
<1>7. EvidenceHasRow'
  BY <1>3 DEF IInv, EvidenceHasRow, TypeOK
<1>8. OpenRowExplained'
  BY <1>1, <1>2, <1>3 DEF IInv, OpenRowExplained
<1> QED BY <1>4, <1>5, <1>6, <1>7, <1>8 DEF IInv

LEMMA WriterPutsStep ==
  ASSUME SessionsAssumption, IInv, WriterPutsFrames
  PROVE  IInv'
<1>1. /\ writer.pc = "frames" /\ evidence' = evidence \cup ({writer.hand.frames} \ {None})
      /\ writer' = [pc |-> "wait", hand |-> Empty] /\ writer.hand \in Batches
      /\ UNCHANGED <<screen, binder, opened, rows, loop, hid, queue, rest, faults, history>>
  BY DEF WriterPutsFrames, WriterDone, IInv, TypeOK
<1>2. InFlight' = InFlight
  BY <1>1 DEF InFlight
<1>3. TypeOK'
  BY <1>1, EmptyIsBatch DEF IInv, TypeOK, Batches, rest, history
<1>4. LoopConsistent' /\ DownIsEmpty'
  BY <1>1 DEF IInv, LoopConsistent, DownIsEmpty, rest
<1>5. EvidenceHasRow'
  BY <1>1 DEF IInv, EvidenceHasRow, FramesBound, history
<1>6. FramesBound' /\ OpenRowExplained'
  BY <1>1, <1>2 DEF IInv, FramesBound, OpenRowExplained, rest, history
<1> QED BY <1>3, <1>4, <1>5, <1>6 DEF IInv

-----------------------------------------------------------------------------
(* Stop, crash and start. *)

LEMMA GoneStep ==
  ASSUME SessionsAssumption, IInv, Exit \/ Crash
  PROVE  IInv'
<1>1. /\ Gone /\ UNCHANGED <<screen, opened, tables, runs, faults, history>>
  BY DEF Exit, Crash
<1>2. loop' \in LoopStates /\ loop'.pc = "over" /\ loop'.hand = Empty
  BY <1>1, EmptyIsBatch DEF Gone, Waiting, LoopStates, Fronts
<1>3. binder' \in Binders
  BY <1>1 DEF Gone, NoSession, Binders, Fronts
<1>4. queue' \in Seq(Batches) /\ Len(queue') <= QueueCapacity
  BY <1>1 DEF Gone, SessionsAssumption
<1>5. TypeOK'
  BY <1>1, <1>2, <1>3, <1>4, EmptyIsBatch DEF Gone, IInv, TypeOK, tables, history, Fronts
<1>6. InFlight' = {Empty}
  BY <1>1, <1>2, RangeOfEmpty DEF Gone, InFlight
<1>7. LoopConsistent' /\ DownIsEmpty' /\ FramesBound' /\ OpenRowExplained'
  BY <1>1, <1>2, <1>6 DEF Gone, LoopConsistent, DownIsEmpty, FramesBound, OpenRowExplained
<1>8. EvidenceHasRow'
  BY <1>1 DEF IInv, EvidenceHasRow, tables, history
<1> QED BY <1>5, <1>7, <1>8 DEF IInv

LEMMA StartStep ==
  ASSUME SessionsAssumption, IInv, Start
  PROVE  IInv'
<1>1. /\ daemon = "down" /\ runs < MaxRuns /\ rows' = Recovered /\ daemon' = "up"
      /\ runs' = runs + 1 /\ loop' = Waiting
      /\ UNCHANGED <<screen, binder, opened, evidence, hid, queue, writer, faults, history>>
  BY DEF Start
<1>2. loop' \in LoopStates /\ loop'.pc = "wait" /\ loop'.hand = Empty
  BY <1>1, EmptyIsBatch DEF Waiting, LoopStates, Fronts
<1>3. /\ rows' \in [Sids -> {"none", "open", "closed"}]
      /\ \A s \in Sids : rows'[s] # "open" /\ (rows'[s] = "none" => rows[s] = "none")
  BY <1>1 DEF Recovered, IInv, TypeOK
<1>4. runs' \in 0 .. MaxRuns
  BY <1>1 DEF IInv, TypeOK, SessionsAssumption
<1>5. TypeOK'
  BY <1>1, <1>2, <1>3, <1>4 DEF IInv, TypeOK, history
<1>6. InFlight' = {Empty}
  BY <1>1, <1>2, RangeOfEmpty DEF IInv, DownIsEmpty, InFlight
<1>7. LoopConsistent' /\ DownIsEmpty' /\ FramesBound' /\ OpenRowExplained'
  BY <1>1, <1>2, <1>3, <1>6
     DEF IInv, LoopConsistent, DownIsEmpty, FramesBound, OpenRowExplained
<1>8. EvidenceHasRow'
  BY <1>1, <1>3 DEF IInv, EvidenceHasRow, TypeOK, history
<1> QED BY <1>5, <1>7, <1>8 DEF IInv

-----------------------------------------------------------------------------

LEMMA Step == ASSUME SessionsAssumption, IInv, [Next]_vars PROVE IInv'
BY CalmStep, PollStep, CloseIdleStep, HidBindStep, StopStep, BindCaptureStep, CaptureEndsStep,
   WriterTakesStep, WriterAppliesStep, WriterPutsStep, GoneStep, StartStep
   DEF Next, LoopStep, HidStep, WriterStep, Calm

\* The invariant holds in every state the daemon, its tasks and the user can
\* bring about.
THEOREM Inductive == Spec => []IInv
<1>1. Init => IInv
  BY InitIInv, SessionsAssumption
<1>2. IInv /\ [Next]_vars => IInv'
  BY Step, SessionsAssumption
<1> QED BY <1>1, <1>2, PTL DEF Spec

\* A session row left open while the daemon runs is the open session's, is about
\* to be closed, or was lost in one of the three ways the code can lose it
\* (a dropped batch, a failed write, a batch overtaken by the session's end).
THEOREM NoOtherLeak == Spec => []OpenRowExplained
<1>1. IInv => OpenRowExplained
  BY DEF IInv
<1> QED BY <1>1, Inductive, PTL

\* A stored screenshot's session has a row, unless the database refused it, for
\* every queue capacity and every pattern of dropped batches.
THEOREM ScreenshotsHaveSessions == Spec => []EvidenceHasRow
<1>1. IInv => EvidenceHasRow
  BY DEF IInv
<1> QED BY <1>1, Inductive, PTL

\* Rows of sessions and the frames that name them account for each other.
THEOREM RowsAndFrames == Spec => []SessionsAccounted
BY NoOtherLeak, ScreenshotsHaveSessions, PTL DEF SessionsAccounted


-----------------------------------------------------------------------------
(* The microphone.  A poll changes the orchestrator's state several times over, so that *)
(* the invariant is stated of values: m is the orchestrator, h what was heard, o the    *)
(* sessions rolled over, n the sessions opened, k the clock, d the trunks drained, c    *)
(* those stored and l the quanta lost.                                                  *)

HeardRec == [voice : BOOLEAN, session : Nat]
MicRec ==
  [session : Nat, long : BOOLEAN, ordinal : Nat, trunk : Seq(Nat), pending : Seq(Nat), preroll : Seq(Nat)]
TrunkRec == [session : Nat, ordinal : Nat, body : Seq(Nat), ts : Nat]

\* What the orchestrator holds and has not flushed.
Line(m) == Range(m.preroll) \cup Range(m.trunk) \cup Range(m.pending)

Spoken(h, b, I) == \E i \in I : h[b[i]].voice

\* The trunk being recorded: it ends with voice, and is silent at its beginning for the
\* pre-roll and within for less than the silence that would have ended it.
Begun(h, b) ==
  /\ h[b[Len(b)]].voice
  /\ \E i \in 1 .. Len(b) : i <= PreRoll + 1 /\ h[b[i]].voice
  /\ \A i \in 1 .. Len(b) :
       i > PreRoll /\ i + SilenceMax - 1 <= Len(b) => Spoken(h, b, i .. i + SilenceMax - 1)

\* The body of a trunk that was flushed.
Ended(h, b) ==
  /\ Spoken(h, b, 1 .. Len(b))
  /\ PreRoll < Len(b) => Spoken(h, b, 1 .. PreRoll + 1)
  /\ Padding < Len(b) => Spoken(h, b, Len(b) - Padding .. Len(b))
  /\ \A i \in 2 .. Len(b) :
       i > PreRoll /\ i + SilenceMax - 1 < Len(b) => Spoken(h, b, i .. i + SilenceMax - 1)

MicFits(m, h, o, n) ==
  /\ m \in MicRec /\ m.session \in {NoSid, n}
  /\ m.trunk = <<>> => m.pending = <<>>
  /\ m.trunk # <<>> => m.preroll = <<>> /\ Begun(h, m.trunk)
  /\ Len(m.preroll) <= PreRoll /\ Len(m.pending) <= SilenceMax
  /\ \A q \in Line(m) : q \in 1 .. Len(h)
  /\ \A q \in Range(m.preroll) \cup Range(m.pending) : ~h[q].voice
  /\ \A q \in Range(m.trunk) : h[q].voice =>
       h[q].session # NoSid /\ (h[q].session = m.session \/ h[q].session \in o)

\* A trunk that was flushed lies before all the orchestrator holds.
CutFits(t, m, h, o, n, k) ==
  /\ t \in TrunkRec /\ t.body # <<>> /\ t.ts <= k /\ t.session \in 1 .. n
  /\ t.session = m.session => t.ordinal <= m.ordinal
  /\ \A q \in Range(t.body) : q \in 1 .. Len(h) /\ \A p \in Line(m) : q < p
  /\ \A q \in Range(t.body) : h[q].voice => h[q].session = t.session \/ h[q].session \in o
  /\ Ended(h, t.body)

Precedes(a, b) ==
  /\ \A q \in Range(a.body), p \in Range(b.body) : q < p
  /\ a.ts <= b.ts /\ a.session <= b.session
  /\ a.session = b.session => a.ordinal < b.ordinal

InOrder(d, c) ==
  /\ \A i, j \in DOMAIN d : i < j => Precedes(d[i], d[j])
  /\ \A r \in c, i \in DOMAIN d : Precedes(r, d[i])
  /\ \A r, s \in c : r # s => Precedes(r, s) \/ Precedes(s, r)

Everywhere(m, h, d, c, l) ==
  /\ l \subseteq 1 .. Len(h) /\ l \cap Line(m) = {}
  /\ \A t \in c \cup Range(d) : Range(t.body) \cap l = {}
  /\ \A q \in 1 .. Len(h) : h[q].voice =>
       q \in Range(m.trunk) \/ q \in l \/ \E t \in c \cup Range(d) : q \in Range(t.body)

Fits(m, h, o, n, k, d, c, l) ==
  /\ h \in Seq(HeardRec) /\ n \in Nat /\ k \in Nat /\ d \in Seq(TrunkRec)
  /\ MicFits(m, h, o, n)
  /\ \A t \in c \cup Range(d) : CutFits(t, m, h, o, n, k)
  /\ InOrder(d, c) /\ Everywhere(m, h, d, c, l)

VoiceInv ==
  /\ Fits(mic, heard, rolled, sids, clock, drained, chunks, lostQuanta)
  /\ Len(mic.pending) < SilenceMax
  /\ ear \in {"waiting", "stopped"} => drained = <<>>
  /\ ear = "storing" => drained # <<>>

-----------------------------------------------------------------------------
(* Sequences. *)

LEMMA RangeIs ==
  ASSUME NEW S, NEW s \in Seq(S)
  PROVE  /\ Range(s) \subseteq S /\ \A i \in 1 .. Len(s) : s[i] \in Range(s)
         /\ \A x \in Range(s) : \E i \in 1 .. Len(s) : x = s[i]
  BY LenProperties, ElementOfSeq DEF Range

LEMMA JoinIs ==
  ASSUME NEW S, NEW s \in Seq(S), NEW t \in Seq(S)
  PROVE  Range(s \o t) = Range(s) \cup Range(t)
<1>1. /\ s \o t \in Seq(S) /\ Len(s \o t) = Len(s) + Len(t) /\ Len(s) \in Nat /\ Len(t) \in Nat
      /\ \A i \in 1 .. Len(s) + Len(t) : (s \o t)[i] = IF i <= Len(s) THEN s[i] ELSE t[i - Len(s)]
  BY ConcatProperties, LenProperties
<1>2. ASSUME NEW x \in Range(s \o t) PROVE x \in Range(s) \cup Range(t)
  <2>1. PICK i \in 1 .. Len(s) + Len(t) : x = (s \o t)[i]
    BY <1>1, <1>2, RangeIs
  <2>2. i > Len(s) => i - Len(s) \in 1 .. Len(t)
    BY <1>1
  <2>. QED BY <1>1, <2>1, <2>2, RangeIs
<1>3. ASSUME NEW x \in Range(s) PROVE x \in Range(s \o t)
  <2>1. PICK i \in 1 .. Len(s) : x = s[i]
    BY <1>3, RangeIs
  <2>2. i \in 1 .. Len(s \o t) /\ (s \o t)[i] = x
    BY <1>1, <2>1
  <2>. QED BY <1>1, <2>2, RangeIs
<1>4. ASSUME NEW x \in Range(t) PROVE x \in Range(s \o t)
  <2>1. PICK i \in 1 .. Len(t) : x = t[i]
    BY <1>4, RangeIs
  <2>2. Len(s) + i \in 1 .. Len(s \o t) /\ (s \o t)[Len(s) + i] = x
    BY <1>1, <2>1
  <2>. QED BY <1>1, <2>2, RangeIs
<1>. QED BY <1>2, <1>3, <1>4

LEMMA Joined ==
  ASSUME NEW S, NEW s \in Seq(S), NEW t \in Seq(S)
  PROVE  /\ s \o t \in Seq(S) /\ Len(s) \in Nat /\ Len(t) \in Nat /\ Len(s \o t) = Len(s) + Len(t)
         /\ \A i \in 1 .. Len(s) : (s \o t)[i] = s[i]
         /\ \A i \in 1 .. Len(t) : (s \o t)[Len(s) + i] = t[i]
         /\ Range(s \o t) = Range(s) \cup Range(t)
<1>1. /\ s \o t \in Seq(S) /\ Len(s \o t) = Len(s) + Len(t) /\ Len(s) \in Nat /\ Len(t) \in Nat
      /\ \A i \in 1 .. Len(s) + Len(t) : (s \o t)[i] = IF i <= Len(s) THEN s[i] ELSE t[i - Len(s)]
  BY ConcatProperties, LenProperties
<1>2. \A i \in 1 .. Len(s) : (s \o t)[i] = s[i]
  BY <1>1
<1>3. \A i \in 1 .. Len(t) : (s \o t)[Len(s) + i] = t[i]
  BY <1>1
<1>. QED BY <1>1, <1>2, <1>3, JoinIs

LEMMA SingleIs ==
  ASSUME NEW S, NEW e \in S, NEW v, v = <<e>>
  PROVE  v \in Seq(S) /\ Len(v) = 1 /\ v[1] = e /\ Range(v) = {e}
<1>1. v \in Seq(S) /\ Len(v) = 1 /\ v[1] = e
  OBVIOUS
<1>2. DOMAIN v = 1 .. 1 /\ \A i \in 1 .. 1 : i = 1
  BY <1>1, LenProperties
<1>3. Range(v) = {v[x] : x \in 1 .. 1}
  BY <1>2 DEF Range
<1>. QED BY <1>1, <1>2, <1>3



LEMMA Appended ==
  ASSUME NEW S, NEW s \in Seq(S), NEW e \in S
  PROVE  /\ Append(s, e) \in Seq(S) /\ Append(s, e) # <<>> /\ Len(s) \in Nat
         /\ Len(Append(s, e)) = Len(s) + 1
         /\ (\A i \in 1 .. Len(s) : Append(s, e)[i] = s[i]) /\ Append(s, e)[Len(s) + 1] = e
         /\ Range(Append(s, e)) = Range(s) \cup {e}
<1>1. PICK w : w = Append(s, e)
  OBVIOUS
<1>2. /\ w \in Seq(S) /\ w # <<>> /\ Len(s) \in Nat /\ Len(w) = Len(s) + 1
      /\ (\A i \in 1 .. Len(s) : w[i] = s[i]) /\ w[Len(s) + 1] = e
  BY <1>1, AppendProperties, LenProperties
<1>3. ASSUME NEW x \in Range(w) PROVE x \in Range(s) \cup {e}
  <2>1. PICK i \in 1 .. Len(w) : x = w[i]
    BY <1>2, <1>3, RangeIs
  <2>2. CASE i = Len(s) + 1
    BY <1>2, <2>1, <2>2
  <2>3. CASE i # Len(s) + 1
    <3>1. i \in 1 .. Len(s)
      BY <1>2, <2>1, <2>3
    <3>. QED BY <1>2, <2>1, <3>1, RangeIs
  <2>. QED BY <2>2, <2>3
<1>4. ASSUME NEW x \in Range(s) PROVE x \in Range(w)
  <2>1. PICK i \in 1 .. Len(s) : x = s[i]
    BY <1>4, RangeIs
  <2>2. i \in 1 .. Len(w) /\ x = w[i]
    BY <1>2, <2>1
  <2>. QED BY <1>2, <2>2, RangeIs
<1>5. e \in Range(w)
  <2>1. Len(s) + 1 \in 1 .. Len(w)
    BY <1>2
  <2>. QED BY <1>2, <2>1, RangeIs
<1>. QED BY <1>1, <1>2, <1>3, <1>4, <1>5

LEMMA Queued ==
  ASSUME NEW s \in Seq(Nat), NEW e \in Nat
  PROVE  /\ Append(s, e) \in Seq(Nat) /\ Append(s, e) # <<>> /\ Len(s) \in Nat
         /\ Len(Append(s, e)) = Len(s) + 1
         /\ (\A i \in 1 .. Len(s) : Append(s, e)[i] = s[i]) /\ Append(s, e)[Len(s) + 1] = e
         /\ Range(Append(s, e)) = Range(s) \cup {e}
<1>1. PICK S : S = Nat
  OBVIOUS
<1>2. s \in Seq(S) /\ e \in S
  BY <1>1
<1>3. /\ Append(s, e) \in Seq(S) /\ Append(s, e) # <<>> /\ Len(s) \in Nat
      /\ Len(Append(s, e)) = Len(s) + 1
      /\ (\A i \in 1 .. Len(s) : Append(s, e)[i] = s[i]) /\ Append(s, e)[Len(s) + 1] = e
      /\ Range(Append(s, e)) = Range(s) \cup {e}
  BY <1>2, Appended
<1>. QED BY <1>1, <1>3

\* <<e>> as a tail: what the definitions write for Append.
LEMMA AppendIs ==
  ASSUME NEW S, NEW s \in Seq(S), NEW e \in S
  PROVE  s \o <<e>> = Append(s, e)
  BY AppendIsConcat

LEMMA NoneIs == Range(<<>>) = {} /\ \A S : <<>> \in Seq(S) /\ Len(<<>>) = 0
  BY EmptySeq DEF Range

LEMMA LastNIs ==
  ASSUME NEW S, NEW s \in Seq(S), NEW n \in Nat
  PROVE  /\ LastN(s, n) \in Seq(S) /\ Len(LastN(s, n)) <= n /\ Len(LastN(s, n)) <= Len(s)
         /\ Range(LastN(s, n)) \subseteq Range(s)
<1>. DEFINE f == IF Len(s) > n THEN Len(s) - n + 1 ELSE 1
<1>1. Len(s) \in Nat /\ f \in 1 .. Len(s) + 1 /\ f \in Int /\ \A i \in f .. Len(s) : s[i] \in S
  BY LenProperties, ElementOfSeq
<1>2. /\ SubSeq(s, f, Len(s)) \in Seq(S)
      /\ Len(SubSeq(s, f, Len(s))) = IF f <= Len(s) THEN Len(s) - f + 1 ELSE 0
      /\ \A i \in 1 .. Len(s) - f + 1 : SubSeq(s, f, Len(s))[i] = s[f + i - 1]
  BY <1>1, SubSeqProperties
<1>3. LastN(s, n) = SubSeq(s, f, Len(s))
  BY DEF LastN
<1>. HIDE DEF f
<1>4. Len(LastN(s, n)) <= n /\ Len(LastN(s, n)) <= Len(s)
  BY <1>1, <1>2, <1>3 DEF f
<1>5. ASSUME NEW x \in Range(LastN(s, n)) PROVE x \in Range(s)
  <2>1. PICK i \in 1 .. Len(LastN(s, n)) : x = LastN(s, n)[i]
    <3>1. LastN(s, n) \in Seq(S)
      BY <1>2, <1>3
    <3>. QED BY <1>5, <3>1, RangeIs
  <2>2. i \in 1 .. Len(s) - f + 1
    BY <1>1, <1>2, <1>3, <2>1
  <2>3. x = s[f + i - 1]
    BY <1>2, <1>3, <2>1, <2>2
  <2>4. f + i - 1 \in 1 .. Len(s)
    BY <1>1, <2>2
  <2>. QED BY <2>3, <2>4, RangeIs
<1>. QED BY <1>2, <1>3, <1>4, <1>5

-----------------------------------------------------------------------------
(* How the parts of Fits are kept. *)

LEMMA SameSound ==
  ASSUME AudioAssumption, NEW h, NEW g, NEW b \in Seq(Nat), b # <<>>,
         \A q \in Range(b) : g[q].voice = h[q].voice
  PROVE  (Ended(h, b) => Ended(g, b)) /\ (Begun(h, b) => Begun(g, b))
<1>1. Len(b) \in Nat \ {0} /\ PreRoll \in Nat /\ Padding \in Nat /\ SilenceMax \in Nat \ {0}
  BY EmptySeq, LenProperties DEF AudioAssumption
<1>2. \A i \in 1 .. Len(b) : g[b[i]].voice = h[b[i]].voice
  BY RangeIs
<1>3. ASSUME NEW I, I \subseteq 1 .. Len(b), Spoken(h, b, I) PROVE Spoken(g, b, I)
  BY <1>2, <1>3 DEF Spoken
<1>4. ASSUME NEW i \in 1 .. Len(b), i + SilenceMax - 1 <= Len(b)
      PROVE  i .. i + SilenceMax - 1 \subseteq 1 .. Len(b)
  <2>1. Len(b) \in Nat /\ SilenceMax \in Nat
    BY <1>1
  <2>. QED BY <1>4, <2>1, SMTT(30)
<1>5. ASSUME Ended(h, b) PROVE Ended(g, b)
  <2>1. Spoken(g, b, 1 .. Len(b))
    BY <1>3, <1>5 DEF Ended
  <2>2. ASSUME PreRoll < Len(b) PROVE Spoken(g, b, 1 .. PreRoll + 1)
    <3>1. 1 .. PreRoll + 1 \subseteq 1 .. Len(b)
      BY <1>1, <2>2
    <3>. QED BY <1>3, <1>5, <2>2, <3>1 DEF Ended
  <2>3. ASSUME Padding < Len(b) PROVE Spoken(g, b, Len(b) - Padding .. Len(b))
    <3>1. Len(b) - Padding .. Len(b) \subseteq 1 .. Len(b)
      BY <1>1, <2>3
    <3>. QED BY <1>3, <1>5, <2>3, <3>1 DEF Ended
  <2>4. ASSUME NEW i \in 2 .. Len(b), i > PreRoll, i + SilenceMax - 1 < Len(b)
        PROVE  Spoken(g, b, i .. i + SilenceMax - 1)
    <3>1. i \in 1 .. Len(b) /\ i + SilenceMax - 1 <= Len(b)
      BY <1>1, <2>4
    <3>2. Spoken(h, b, i .. i + SilenceMax - 1)
      BY <1>5, <2>4 DEF Ended
    <3>. QED BY <1>3, <1>4, <3>1, <3>2
  <2>. QED BY <2>1, <2>2, <2>3, <2>4 DEF Ended
<1>6. ASSUME Begun(h, b) PROVE Begun(g, b)
  <2>1. Len(b) \in 1 .. Len(b)
    BY <1>1
  <2>2. \A i \in 1 .. Len(b) :
          i > PreRoll /\ i + SilenceMax - 1 <= Len(b) => Spoken(g, b, i .. i + SilenceMax - 1)
    BY <1>3, <1>4, <1>6 DEF Begun
  <2>. QED BY <1>2, <1>6, <2>1, <2>2 DEF Begun
<1>. QED BY <1>5, <1>6

\* From m and h to m2 and h2: what is held was held, or lies behind all that was heard.
Onward(m, h, m2, h2) ==
  /\ Len(h) \in Nat /\ Len(h2) \in Nat /\ Len(h) <= Len(h2)
  /\ \A q \in 1 .. Len(h) : h2[q] = h[q]
  /\ \A p \in Line(m2) : p \in Int /\ (p \in Line(m) \/ p > Len(h))

\* A trunk that was flushed stays as it is, whatever the orchestrator takes on.
LEMMA CutStays ==
  ASSUME AudioAssumption, NEW t, NEW m, NEW h, NEW o, NEW n, NEW k, CutFits(t, m, h, o, n, k),
         NEW m2, NEW h2, NEW o2, NEW n2 \in Nat, NEW k2 \in Nat,
         n \in Nat, k \in Nat, Onward(m, h, m2, h2), o \subseteq o2, n <= n2, k <= k2,
         t.session = m2.session => t.ordinal <= m2.ordinal
  PROVE  CutFits(t, m2, h2, o2, n2, k2)
<1>1. t \in TrunkRec /\ t.body \in Seq(Nat) /\ t.body # <<>> /\ t.ts \in Nat
  BY DEF CutFits, TrunkRec
<1>2. \A q \in Range(t.body) : q \in 1 .. Len(h) /\ h2[q] = h[q]
  BY DEF CutFits, Onward
<1>3. Ended(h2, t.body)
  BY <1>1, <1>2, SameSound DEF CutFits
<1>4. t.ts <= k2 /\ t.session \in 1 .. n2
  <2>1. t.ts <= k /\ t.session \in 1 .. n
    BY DEF CutFits
  <2>2. t.ts \in Nat
    BY <1>1
  <2>3. t.ts <= k2
    BY <2>1, <2>2
  <2>. QED BY <2>1, <2>3
<1>5. \A q \in Range(t.body) : q \in 1 .. Len(h2) /\ \A p \in Line(m2) : q < p
  <2>1. ASSUME NEW q \in Range(t.body), NEW p \in Line(m2) PROVE q < p
    <3>1. p \in Int /\ (p \in Line(m) \/ p > Len(h)) /\ Len(h) \in Nat
      BY DEF Onward
    <3>2. q \in 1 .. Len(h) /\ (p \in Line(m) => q < p)
      BY DEF CutFits
    <3>. QED BY <3>1, <3>2
  <2>2. Len(h) \in Nat /\ Len(h2) \in Nat /\ Len(h) <= Len(h2)
    BY DEF Onward
  <2>3. \A q \in Range(t.body) : q \in 1 .. Len(h2)
    BY <1>2, <2>2
  <2>. QED BY <2>1, <2>3
<1>6. \A q \in Range(t.body) : h2[q].voice => h2[q].session = t.session \/ h2[q].session \in o2
  BY <1>2 DEF CutFits
<1>. QED BY <1>1, <1>3, <1>4, <1>5, <1>6 DEF CutFits

\* Time passes, a session opens, closes or rolls over: the sound stays.
LEMMA MicMoves ==
  ASSUME AudioAssumption, NEW m, NEW h, NEW o, NEW n, NEW k, NEW d, NEW c, NEW l,
         Fits(m, h, o, n, k, d, c, l),
         NEW m2 \in MicRec, m2.trunk = m.trunk, m2.pending = m.pending, m2.preroll = m.preroll,
         NEW o2, o \subseteq o2, NEW n2 \in Nat, n <= n2, NEW k2 \in Nat, k <= k2,
         m2.session \in {NoSid, n2},
         \/ m2.session = m.session /\ m2.ordinal = m.ordinal
         \/ m2.session = NoSid
         \/ m2.session > n,
         m2.session # m.session => m.session = NoSid \/ m.session \in o2 \/ m.trunk = <<>>
  PROVE  Fits(m2, h, o2, n2, k2, d, c, l)
<1>1. /\ h \in Seq(HeardRec) /\ n \in Nat /\ k \in Nat /\ d \in Seq(TrunkRec)
      /\ MicFits(m, h, o, n) /\ InOrder(d, c) /\ Everywhere(m, h, d, c, l)
      /\ \A t \in c \cup Range(d) : CutFits(t, m, h, o, n, k)
  BY DEF Fits
<1>c. d \in Seq(TrunkRec) /\ \A t \in c \cup Range(d) : CutFits(t, m, h, o, n, k)
  BY <1>1
<1>2. Line(m2) = Line(m) /\ Len(h) \in Nat
  BY <1>1, LenProperties DEF Line
<1>3. ASSUME m.trunk # <<>>, NEW q \in Range(m.trunk), h[q].voice
      PROVE  h[q].session # NoSid /\ (h[q].session = m2.session \/ h[q].session \in o2)
  BY <1>1, <1>3 DEF MicFits
<1>4. m.trunk = <<>> => Range(m.trunk) = {}
  BY NoneIs
<1>5. MicFits(m2, h, o2, n2)
  BY <1>1, <1>2, <1>3, <1>4 DEF MicFits
<1>6. ASSUME NEW t \in c \cup Range(d) PROVE CutFits(t, m2, h, o2, n2, k2)
  <2>1. CutFits(t, m, h, o, n, k) /\ t.session \in 1 .. n
    BY <1>1 DEF CutFits
  <2>2. t.session = m2.session => t.ordinal <= m2.ordinal
    BY <1>1, <2>1 DEF CutFits, NoSid
  <2>3. Onward(m, h, m2, h)
    BY <1>1, <1>2 DEF MicFits, Onward
  <2>. QED BY <1>1, <1>2, <2>1, <2>2, <2>3, CutStays
<1>7. Everywhere(m2, h, d, c, l)
  BY <1>1, <1>2 DEF Everywhere
<1>. QED BY <1>1, <1>5, <1>6, <1>7 DEF Fits

\* Where SilenceMax quanta in a row lie when y of silence follow x of the trunk.
LEMMA Window ==
  ASSUME NEW i \in Nat \ {0}, NEW x \in Nat, NEW y \in Nat, NEW s \in Nat \ {0}, y < s,
         i + s - 1 <= x + y + 1
  PROVE  \/ i \in 1 .. x /\ i .. i + s - 1 \subseteq 1 .. x /\ i + s - 1 <= x
         \/ x \in i .. i + s - 1 /\ x > 0
         \/ x + y + 1 \in i .. i + s - 1
<1>1. CASE i + s - 1 <= x
  BY <1>1
<1>2. CASE i <= x /\ i + s - 1 > x
  BY <1>2
<1>3. CASE i > x
  BY <1>3
<1>. QED BY <1>1, <1>2, <1>3

\* A quantum of voice ends the silence of the trunk, or begins one after the pre-roll.
LEMMA VoiceBegins ==
  ASSUME AudioAssumption, NEW g, NEW e \in Seq(Nat), NEW p \in Seq(Nat), NEW b \in Seq(Nat),
         Len(p) < SilenceMax,
         (Len(p) = 0 /\ Len(e) <= PreRoll) \/ (Len(e) > 0 /\ Begun(g, e)),
         Len(b) = Len(e) + Len(p) + 1, \A i \in 1 .. Len(e) : b[i] = e[i],
         g[b[Len(b)]].voice
  PROVE  Begun(g, b)
<1>1. /\ PreRoll \in Nat /\ SilenceMax \in Nat \ {0}
      /\ Len(e) \in Nat /\ Len(p) \in Nat /\ Len(b) \in Nat
  BY LenProperties DEF AudioAssumption
<1>2. CASE Len(p) = 0 /\ Len(e) <= PreRoll
  <2>1. Len(b) \in 1 .. Len(b) /\ Len(b) <= PreRoll + 1
    BY <1>1, <1>2
  <2>2. ASSUME NEW i \in 1 .. Len(b), i > PreRoll, i + SilenceMax - 1 <= Len(b)
        PROVE  Spoken(g, b, i .. i + SilenceMax - 1)
    <3>1. i = Len(b) /\ i \in i .. i + SilenceMax - 1
      BY <1>1, <1>2, <2>2
    <3>. QED BY <3>1 DEF Spoken
  <2>. QED BY <2>1, <2>2 DEF Begun
<1>3. CASE Len(e) > 0 /\ Begun(g, e)
  <2>1. Len(e) \in 1 .. Len(e) /\ g[b[Len(e)]].voice
    <3>1. Len(e) \in 1 .. Len(e)
      BY <1>1, <1>3
    <3>2. g[e[Len(e)]].voice
      BY <1>3 DEF Begun
    <3>. QED BY <3>1, <3>2
  <2>2. \E i \in 1 .. Len(b) : i <= PreRoll + 1 /\ g[b[i]].voice
    <3>1. PICK i \in 1 .. Len(e) : i <= PreRoll + 1 /\ g[e[i]].voice
      BY <1>3 DEF Begun
    <3>2. i \in 1 .. Len(b)
      BY <1>1
    <3>. QED BY <3>1, <3>2
  <2>3. ASSUME NEW i \in 1 .. Len(b), i > PreRoll, i + SilenceMax - 1 <= Len(b)
        PROVE  Spoken(g, b, i .. i + SilenceMax - 1)
    <3>0. i \in Nat \ {0} /\ i + SilenceMax - 1 <= Len(e) + Len(p) + 1 /\ Len(p) < SilenceMax
      BY <1>1, <2>3
    <3>1. \/ i \in 1 .. Len(e) /\ i .. i + SilenceMax - 1 \subseteq 1 .. Len(e) /\ i + SilenceMax - 1 <= Len(e)
          \/ Len(e) \in i .. i + SilenceMax - 1
          \/ Len(e) + Len(p) + 1 \in i .. i + SilenceMax - 1
      BY <1>1, <3>0, Window, Zenon
    <3>2. CASE Len(e) \in i .. i + SilenceMax - 1
      BY <2>1, <3>2 DEF Spoken
    <3>3. CASE Len(e) + Len(p) + 1 \in i .. i + SilenceMax - 1
      BY <3>3 DEF Spoken
    <3>4. CASE i \in 1 .. Len(e) /\ i .. i + SilenceMax - 1 \subseteq 1 .. Len(e) /\ i + SilenceMax - 1 <= Len(e)
      <4>1. Spoken(g, e, i .. i + SilenceMax - 1)
        BY <1>3, <2>3, <3>4 DEF Begun
      <4>2. PICK j \in i .. i + SilenceMax - 1 : g[e[j]].voice
        BY <4>1 DEF Spoken
      <4>. QED BY <3>4, <4>2 DEF Spoken
    <3>. QED BY <3>1, <3>2, <3>3, <3>4
  <2>. QED BY <2>2, <2>3 DEF Begun
<1>. QED BY <1>2, <1>3

\* One more quantum is heard.
Hears(g, h, q, e) ==
  /\ g \in Seq(HeardRec) /\ q = Len(h) + 1 /\ Len(g) = q /\ Len(h) \in Nat /\ q \in Nat
  /\ (\A x \in 1 .. Len(h) : g[x] = h[x]) /\ g[q] = e

LEMMA VoiceFits ==
  ASSUME AudioAssumption, NEW m, NEW h, NEW o, NEW n, NEW k, NEW d, NEW c, NEW l,
         Fits(m, h, o, n, k, d, c, l), Len(m.pending) < SilenceMax, m.session # NoSid,
         NEW g, NEW q, Hears(g, h, q, [voice |-> TRUE, session |-> m.session]),
         NEW w, w = WithVoice(m, q)
  PROVE  /\ Fits(w, g, o, n, k, d, c, l)
         /\ w.trunk # <<>> /\ w.pending = <<>> /\ w.session = m.session
<1>1. /\ h \in Seq(HeardRec) /\ n \in Nat /\ k \in Nat /\ d \in Seq(TrunkRec)
      /\ MicFits(m, h, o, n) /\ InOrder(d, c) /\ Everywhere(m, h, d, c, l)
      /\ \A t \in c \cup Range(d) : CutFits(t, m, h, o, n, k)
  BY DEF Fits
<1>c. d \in Seq(TrunkRec) /\ \A t \in c \cup Range(d) : CutFits(t, m, h, o, n, k)
  BY <1>1
<1>2. m \in MicRec
  BY <1>1 DEF MicFits
<1>3. /\ g \in Seq(HeardRec) /\ Len(g) = q /\ Len(h) \in Nat /\ q \in Nat
      /\ (\A x \in 1 .. Len(h) : g[x] = h[x]) /\ g[q].voice /\ g[q].session = m.session
      /\ q = Len(h) + 1
  BY DEF Hears
<1>L. Len(g) \in Nat /\ Len(h) \in Nat /\ Len(g) = Len(h) + 1 /\ Len(g) = q /\ q \in Nat
  BY DEF Hears
<1>6. m.trunk \in Seq(Nat) /\ m.pending \in Seq(Nat) /\ m.preroll \in Seq(Nat) /\ <<>> \in Seq(Nat)
  BY <1>2, NoneIs DEF MicRec
<1>e. PICK e \in Seq(Nat) : e = IF m.trunk = <<>> THEN m.preroll ELSE m.trunk
  BY <1>6
<1>u. PICK u : u = e \o m.pending
  OBVIOUS
<1>b. PICK b : b = Append(u, q)
  OBVIOUS
<1>f. (m.trunk = <<>> => e = m.preroll) /\ (m.trunk # <<>> => e = m.trunk)
  BY <1>e
<1>4. /\ u \in Seq(Nat) /\ Len(u) = Len(e) + Len(m.pending) /\ \A i \in 1 .. Len(e) : u[i] = e[i]
      /\ Len(e) \in Nat /\ Len(m.pending) \in Nat /\ Range(u) = Range(e) \cup Range(m.pending)
  BY <1>6, <1>u, Joined
<1>5. /\ b \in Seq(Nat) /\ b # <<>> /\ Len(b) = Len(u) + 1 /\ Range(b) = Range(u) \cup {q}
      /\ (\A i \in 1 .. Len(u) : b[i] = u[i]) /\ b[Len(u) + 1] = q
  <2>1. u \in Seq(Nat) /\ q \in Nat
    BY <1>4, <1>L
  <2>2. /\ Append(u, q) \in Seq(Nat) /\ Append(u, q) # <<>> /\ Len(Append(u, q)) = Len(u) + 1
        /\ Range(Append(u, q)) = Range(u) \cup {q}
        /\ (\A i \in 1 .. Len(u) : Append(u, q)[i] = u[i]) /\ Append(u, q)[Len(u) + 1] = q
    BY <2>1, Queued
  <2>. QED BY <1>b, <2>2, Zenon
<1>B. Begun(g, b)
  <2>1. \A i \in 1 .. Len(e) : b[i] = e[i]
    <3>0. Len(u) = Len(e) + Len(m.pending) /\ Len(e) \in Nat /\ Len(m.pending) \in Nat
      BY <1>4
    <3>1. \A i \in 1 .. Len(e) : i \in 1 .. Len(u)
      BY <3>0
    <3>. QED BY <1>4, <1>5, <3>1
  <2>2. Len(b) = Len(e) + Len(m.pending) + 1 /\ g[b[Len(b)]].voice
    BY <1>3, <1>4, <1>5
  <2>3. CASE m.trunk = <<>>
    <3>1. e = m.preroll /\ m.pending = <<>> /\ Len(m.preroll) <= PreRoll
      BY <1>1, <1>f, <2>3 DEF MicFits
    <3>2. Len(m.pending) = 0
      BY <3>1, NoneIs
    <3>. QED BY <1>5, <1>6, <2>1, <2>2, <3>1, <3>2, VoiceBegins, ZenonT(40)
  <2>4. CASE m.trunk # <<>>
    <3>1. \A x \in Range(m.trunk) : g[x].voice = h[x].voice
      BY <1>1, <1>3 DEF MicFits, Line
    <3>2. e = m.trunk /\ Begun(h, m.trunk)
      BY <1>1, <1>f, <2>4 DEF MicFits
    <3>3. Begun(g, m.trunk)
      BY <1>6, <2>4, <3>1, <3>2, SameSound
    <3>4. Len(m.trunk) > 0
      BY <1>6, <2>4, EmptySeq, LenProperties
    <3>. QED BY <1>5, <1>6, <2>1, <2>2, <3>2, <3>3, <3>4, VoiceBegins, ZenonT(40)
  <2>. QED BY <2>3, <2>4
<1>7. /\ w \in MicRec /\ w.trunk = b /\ w.pending = <<>> /\ w.session = m.session
      /\ w.ordinal = m.ordinal
      /\ w.preroll = IF m.trunk = <<>> THEN <<>> ELSE m.preroll
  <2>1. (IF m.trunk = <<>> THEN m.preroll ELSE m.trunk) \o m.pending \o <<q>> = b
    <3>1. u \o <<q>> = b
      BY <1>3, <1>4, <1>b, AppendIs
    <3>. QED BY <1>e, <1>u, <3>1
  <2>2. w = [m EXCEPT !.trunk = b, !.preroll = IF m.trunk = <<>> THEN <<>> ELSE @, !.pending = <<>>]
    BY <2>1 DEF WithVoice
  <2>. QED BY <1>2, <1>5, <1>6, <2>2 DEF MicRec
<1>8. w.preroll = <<>>
  BY <1>1, <1>7 DEF MicFits
<1>9. Range(u) = (IF m.trunk = <<>> THEN Range(m.preroll) ELSE Range(m.trunk)) \cup Range(m.pending)
  BY <1>4, <1>e
<1>10. Range(w.trunk) = Range(u) \cup {q}
  BY <1>5, <1>7
<1>11. Line(w) = Range(w.trunk) /\ Range(u) \subseteq Line(m) /\ Range(m.trunk) \subseteq Range(w.trunk)
  BY <1>7, <1>8, <1>9, <1>10, NoneIs DEF Line
<1>12. \A x \in Line(m) : x \in 1 .. Len(h) /\ g[x] = h[x]
  BY <1>1, <1>3 DEF MicFits
<1>13. \A x \in Range(w.trunk) : g[x].voice =>
         g[x].session # NoSid /\ (g[x].session = w.session \/ g[x].session \in o)
  <2>1. ASSUME NEW x \in Range(u), h[x].voice PROVE x \in Range(m.trunk)
    BY <1>1, <1>9, <2>1 DEF MicFits
  <2>2. ASSUME NEW x \in Range(u), g[x].voice
        PROVE  g[x].session # NoSid /\ (g[x].session = w.session \/ g[x].session \in o)
    BY <1>1, <1>7, <1>11, <1>12, <2>1, <2>2 DEF MicFits
  <2>. QED BY <1>3, <1>7, <1>10, <2>2
<1>14. MicFits(w, g, o, n)
  <2>1. \A x \in Line(w) : x \in 1 .. Len(g)
    BY <1>L, <1>10, <1>11, <1>12
  <2>2. Len(w.preroll) <= PreRoll /\ Len(w.pending) <= SilenceMax
    BY <1>7, <1>8, NoneIs DEF AudioAssumption
  <2>3. Range(w.preroll) \cup Range(w.pending) = {}
    BY <1>7, <1>8, NoneIs
  <2>4. w.session \in {NoSid, n}
    BY <1>1, <1>7 DEF MicFits
  <2>5. w.trunk # <<>> /\ Begun(g, w.trunk)
    BY <1>5, <1>7, <1>B
  <2>. QED BY <1>7, <1>8, <1>13, <2>1, <2>2, <2>3, <2>4, <2>5 DEF MicFits
<1>15. ASSUME NEW t \in c \cup Range(d) PROVE CutFits(t, w, g, o, n, k)
  <2>1. CutFits(t, m, h, o, n, k)
    BY <1>1
  <2>2. \A p \in Line(w) : p \in Int /\ (p \in Line(m) \/ p > Len(h))
    BY <1>L, <1>10, <1>11, <1>12
  <2>3. t.session = w.session => t.ordinal <= w.ordinal
    BY <1>7, <2>1 DEF CutFits
  <2>4. Len(h) <= Len(g) /\ n <= n /\ k <= k
    BY <1>1, <1>L
  <2>5. Onward(m, h, w, g)
    BY <1>3, <1>L, <2>2, <2>4 DEF Onward
  <2>. QED BY <1>1, <2>1, <2>3, <2>4, <2>5, CutStays
<1>16. Everywhere(w, g, d, c, l)
  <2>1. l \subseteq 1 .. Len(g) /\ l \cap Line(w) = {}
    <3>1. l \subseteq 1 .. Len(h) /\ l \cap Line(m) = {}
      BY <1>1 DEF Everywhere
    <3>2. l \subseteq 1 .. Len(g) /\ q \notin l
      BY <1>L, <3>1
    <3>. QED BY <1>10, <1>11, <3>1, <3>2
  <2>2. \A x \in 1 .. Len(g) : x \in 1 .. Len(h) \/ x = q
    BY <1>L
  <2>. QED BY <1>1, <1>3, <1>10, <1>11, <2>1, <2>2 DEF Everywhere
<1>. QED BY <1>1, <1>3, <1>5, <1>7, <1>14, <1>15, <1>16 DEF Fits

\* A quiet quantum is let go, or goes to the pre-roll or behind the trunk.
LEMMA QuietFits ==
  ASSUME AudioAssumption, NEW m, NEW h, NEW o, NEW n, NEW k, NEW d, NEW c, NEW l,
         Fits(m, h, o, n, k, d, c, l),
         NEW g, NEW q, Hears(g, h, q, [voice |-> FALSE, session |-> m.session]),
         NEW w, \/ w = m
                \/ w = WithPreRoll(m, q) /\ m.trunk = <<>>
                \/ w = WithSilence(m, q) /\ m.trunk # <<>> /\ Len(m.pending) < SilenceMax
  PROVE  Fits(w, g, o, n, k, d, c, l) /\ w.trunk = m.trunk /\ w.session = m.session
<1>1. /\ h \in Seq(HeardRec) /\ n \in Nat /\ k \in Nat /\ d \in Seq(TrunkRec)
      /\ MicFits(m, h, o, n) /\ InOrder(d, c) /\ Everywhere(m, h, d, c, l)
      /\ \A t \in c \cup Range(d) : CutFits(t, m, h, o, n, k)
  BY DEF Fits
<1>c. d \in Seq(TrunkRec) /\ \A t \in c \cup Range(d) : CutFits(t, m, h, o, n, k)
  BY <1>1
<1>2. m \in MicRec
  BY <1>1 DEF MicFits
<1>3. /\ g \in Seq(HeardRec) /\ Len(g) = q /\ Len(h) \in Nat /\ q \in Nat
      /\ (\A x \in 1 .. Len(h) : g[x] = h[x]) /\ ~g[q].voice /\ q = Len(h) + 1
  BY DEF Hears
<1>L. Len(g) \in Nat /\ Len(h) \in Nat /\ Len(g) = Len(h) + 1 /\ Len(g) = q /\ q \in Nat
  BY DEF Hears
<1>4. m.trunk \in Seq(Nat) /\ m.pending \in Seq(Nat) /\ m.preroll \in Seq(Nat)
  BY <1>2 DEF MicRec
<1>5. \A x \in Line(m) : x \in 1 .. Len(h) /\ g[x] = h[x]
  BY <1>1, <1>3 DEF MicFits
<1>6. /\ w \in MicRec /\ w.trunk = m.trunk /\ w.session = m.session /\ w.ordinal = m.ordinal
      /\ (m.trunk = <<>> => w.pending = <<>>) /\ (m.trunk # <<>> => w.preroll = <<>>)
      /\ Len(w.preroll) <= PreRoll /\ Len(w.pending) <= SilenceMax
      /\ Range(w.preroll) \cup Range(w.pending) \subseteq Range(m.preroll) \cup Range(m.pending) \cup {q}
  <2>1. CASE w = m
    BY <1>1, <1>2, <2>1 DEF MicFits
  <2>2. CASE w = WithPreRoll(m, q) /\ m.trunk = <<>>
    <3>0. PICK u : u = Append(m.preroll, q)
      OBVIOUS
    <3>1. u \in Seq(Nat) /\ Range(u) = Range(m.preroll) \cup {q}
      <4>1. m.preroll \in Seq(Nat) /\ q \in Nat
        BY <1>4, <1>L
      <4>2. /\ Append(m.preroll, q) \in Seq(Nat)
            /\ Range(Append(m.preroll, q)) = Range(m.preroll) \cup {q}
        BY <4>1, Queued
      <4>. QED BY <3>0, <4>2, Zenon
    <3>2. /\ LastN(u, PreRoll) \in Seq(Nat) /\ Len(LastN(u, PreRoll)) <= PreRoll
          /\ Range(LastN(u, PreRoll)) \subseteq Range(m.preroll) \cup {q}
      BY <3>1, LastNIs DEF AudioAssumption
    <3>3. /\ w \in MicRec /\ w.trunk = m.trunk /\ w.session = m.session /\ w.ordinal = m.ordinal
          /\ w.pending = m.pending /\ w.preroll = LastN(u, PreRoll)
      BY <1>2, <2>2, <3>0, <3>2 DEF WithPreRoll, MicRec
    <3>. QED BY <1>1, <2>2, <3>2, <3>3 DEF MicFits
  <2>3. CASE w = WithSilence(m, q) /\ m.trunk # <<>> /\ Len(m.pending) < SilenceMax
    <3>0. PICK u : u = Append(m.pending, q)
      OBVIOUS
    <3>1. /\ u \in Seq(Nat) /\ Range(u) = Range(m.pending) \cup {q}
          /\ Len(u) = Len(m.pending) + 1 /\ Len(m.pending) \in Nat
      <4>1. m.pending \in Seq(Nat) /\ q \in Nat
        BY <1>4, <1>L
      <4>2. /\ Append(m.pending, q) \in Seq(Nat)
            /\ Range(Append(m.pending, q)) = Range(m.pending) \cup {q}
            /\ Len(Append(m.pending, q)) = Len(m.pending) + 1 /\ Len(m.pending) \in Nat
        BY <4>1, Queued
      <4>. QED BY <3>0, <4>2, Zenon
    <3>2. /\ w \in MicRec /\ w.trunk = m.trunk /\ w.session = m.session /\ w.ordinal = m.ordinal
          /\ w.preroll = m.preroll /\ w.pending = u
      BY <1>2, <2>3, <3>0, <3>1 DEF WithSilence, MicRec
    <3>3. Len(w.pending) <= SilenceMax
      BY <2>3, <3>1, <3>2 DEF AudioAssumption
    <3>. QED BY <1>1, <2>3, <3>1, <3>2, <3>3 DEF MicFits
  <2>. QED BY <2>1, <2>2, <2>3
<1>7. Line(w) \subseteq Line(m) \cup {q}
  BY <1>6 DEF Line
<1>8. MicFits(w, g, o, n)
  <2>1. m.trunk # <<>> => Begun(g, m.trunk)
    <3>1. \A x \in Range(m.trunk) : g[x].voice = h[x].voice
      BY <1>5 DEF Line
    <3>. QED BY <1>1, <1>4, <3>1, SameSound DEF MicFits
  <2>2. \A x \in Line(w) : x \in 1 .. Len(g)
    BY <1>3, <1>5, <1>7
  <2>3. \A x \in Range(w.preroll) \cup Range(w.pending) : ~g[x].voice
    <3>1. \A x \in Range(m.preroll) \cup Range(m.pending) : ~g[x].voice
      BY <1>1, <1>5 DEF MicFits, Line
    <3>. QED BY <1>3, <1>6, <3>1
  <2>4. \A x \in Range(w.trunk) : g[x].voice =>
          g[x].session # NoSid /\ (g[x].session = w.session \/ g[x].session \in o)
    BY <1>1, <1>5, <1>6 DEF MicFits, Line
  <2>. QED BY <1>1, <1>6, <2>1, <2>2, <2>3, <2>4 DEF MicFits
<1>9. ASSUME NEW t \in c \cup Range(d) PROVE CutFits(t, w, g, o, n, k)
  <2>1. CutFits(t, m, h, o, n, k)
    BY <1>1
  <2>2. \A p \in Line(w) : p \in Int /\ (p \in Line(m) \/ p > Len(h))
    BY <1>3, <1>5, <1>7
  <2>3. t.session = w.session => t.ordinal <= w.ordinal
    BY <1>6, <2>1 DEF CutFits
  <2>4. Len(h) <= Len(g) /\ n <= n /\ k <= k
    BY <1>1, <1>L
  <2>5. Onward(m, h, w, g)
    BY <1>3, <1>L, <2>2, <2>4 DEF Onward
  <2>. QED BY <1>1, <2>1, <2>3, <2>4, <2>5, CutStays
<1>10. Everywhere(w, g, d, c, l)
  <2>1. l \subseteq 1 .. Len(g) /\ l \cap Line(w) = {}
    BY <1>1, <1>3, <1>7 DEF Everywhere
  <2>2. \A x \in 1 .. Len(g) : x \in 1 .. Len(h) \/ x = q
    BY <1>L
  <2>. QED BY <1>1, <1>3, <1>6, <2>1, <2>2 DEF Everywhere
<1>. QED BY <1>1, <1>3, <1>6, <1>8, <1>9, <1>10 DEF Fits

\* What is flushed ends in voice and the padding.
LEMMA BodyEnds ==
  ASSUME AudioAssumption, NEW m, NEW h, NEW o, NEW n, MicFits(m, h, o, n), m.trunk # <<>>
  PROVE  /\ Body(m) \in Seq(Nat) /\ Body(m) # <<>> /\ Ended(h, Body(m))
         /\ Range(m.trunk) \subseteq Range(Body(m)) /\ Range(Body(m)) \subseteq Line(m)
<1>. DEFINE e == m.trunk
            p == LastN(m.pending, Padding)
            b == Body(m)
<1>0. PreRoll \in Nat /\ Padding \in Nat /\ SilenceMax \in Nat \ {0}
  BY DEF AudioAssumption
<1>1. /\ e \in Seq(Nat) /\ m.pending \in Seq(Nat) /\ Len(e) \in Nat \ {0} /\ Len(m.pending) \in Nat
      /\ Len(m.pending) <= SilenceMax /\ Begun(h, e)
  BY EmptySeq, LenProperties DEF MicFits, MicRec
<1>2. /\ p \in Seq(Nat) /\ Len(p) \in Nat /\ Len(p) <= Padding /\ Len(p) <= SilenceMax
      /\ Range(p) \subseteq Range(m.pending)
  BY <1>0, <1>1, LastNIs, LenProperties
<1>. HIDE DEF p
<1>3. b = e \o p
  BY DEF Body, p
<1>. HIDE DEF b
<1>4. /\ b \in Seq(Nat) /\ Len(b) = Len(e) + Len(p)
      /\ \A i \in 1 .. Len(e) : b[i] = e[i]
      /\ Range(b) = Range(e) \cup Range(p)
  BY <1>1, <1>2, <1>3, Joined
<1>5. Range(b) = Range(e) \cup Range(p)
  BY <1>4
<1>6. b # <<>>
  BY <1>1, <1>2, <1>4, EmptySeq
<1>7. Len(e) \in 1 .. Len(b) /\ h[b[Len(e)]].voice
  <2>0. Len(e) \in Nat \ {0} /\ Len(p) \in Nat /\ Len(b) = Len(e) + Len(p)
    BY <1>1, <1>2, <1>4
  <2>1. Len(e) \in 1 .. Len(b) /\ Len(e) \in 1 .. Len(e)
    BY <2>0
  <2>2. h[e[Len(e)]].voice
    BY <1>1 DEF Begun
  <2>. QED BY <1>4, <2>1, <2>2
<1>8. PreRoll < Len(b) => Spoken(h, b, 1 .. PreRoll + 1)
  <2>1. PICK i \in 1 .. Len(e) : i <= PreRoll + 1 /\ h[e[i]].voice
    BY <1>1 DEF Begun
  <2>2. i \in 1 .. PreRoll + 1
    BY <1>0, <2>1
  <2>3. h[b[i]].voice
    BY <1>4, <2>1
  <2>. QED BY <2>2, <2>3 DEF Spoken
<1>9. Padding < Len(b) => Spoken(h, b, Len(b) - Padding .. Len(b))
  <2>0. /\ Padding \in Nat /\ Len(e) \in Nat /\ Len(p) \in Nat /\ Len(p) <= Padding
        /\ Len(b) = Len(e) + Len(p)
    BY <1>0, <1>1, <1>2, <1>4, Zenon
  <2>1. Padding < Len(b) => Len(e) \in Len(b) - Padding .. Len(b)
    BY <2>0
  <2>. QED BY <1>7, <2>1 DEF Spoken
<1>10. ASSUME NEW i \in 2 .. Len(b), i > PreRoll, i + SilenceMax - 1 < Len(b)
       PROVE  Spoken(h, b, i .. i + SilenceMax - 1)
  <2>1. CASE i + SilenceMax - 1 <= Len(e)
    <3>0. Len(e) \in Nat /\ SilenceMax \in Nat \ {0}
      BY <1>0, <1>1
    <3>1. i \in 1 .. Len(e) /\ i .. i + SilenceMax - 1 \subseteq 1 .. Len(e)
      BY <2>1, <3>0
    <3>2. PICK j \in i .. i + SilenceMax - 1 : h[e[j]].voice
      BY <1>1, <1>10, <2>1, <3>1 DEF Begun, Spoken
    <3>. QED BY <1>4, <3>1, <3>2 DEF Spoken
  <2>2. CASE i <= Len(e) /\ Len(e) < i + SilenceMax - 1
    <3>1. Len(e) \in i .. i + SilenceMax - 1
      BY <1>0, <1>1, <2>2
    <3>. QED BY <1>7, <3>1 DEF Spoken
  <2>3. ~(i > Len(e))
    BY <1>0, <1>1, <1>2, <1>4, <1>10
  <2>. QED BY <1>0, <1>1, <2>1, <2>2, <2>3
<1>11. Spoken(h, b, 1 .. Len(b))
  BY <1>7 DEF Spoken
<1>12. Ended(h, b)
  BY <1>8, <1>9, <1>10, <1>11 DEF Ended
<1>. QED BY <1>2, <1>4, <1>5, <1>6, <1>12 DEF b, Line

\* flush_trunk, of a trunk that is stored or found too large.
LEMMA FlushFits ==
  ASSUME AudioAssumption, NEW m, NEW h, NEW o, NEW n, NEW d, NEW c, NEW l,
         Fits(m, h, o, n, clock, d, c, l), Flushable(m)
  PROVE  /\ Fits(Flushed(m), h, o, n, clock, d \o Emitted(m), c, l \cup TooLarge(m))
         /\ Flushed(m).pending = <<>> /\ Flushed(m).trunk = <<>> /\ Flushed(m).session = m.session
<1>1. /\ h \in Seq(HeardRec) /\ n \in Nat /\ clock \in Nat /\ d \in Seq(TrunkRec)
      /\ MicFits(m, h, o, n) /\ InOrder(d, c) /\ Everywhere(m, h, d, c, l)
      /\ \A t \in c \cup Range(d) : CutFits(t, m, h, o, n, clock)
  BY DEF Fits
<1>c. d \in Seq(TrunkRec) /\ \A t \in c \cup Range(d) : CutFits(t, m, h, o, n, clock)
  BY <1>1
<1>2. m \in MicRec /\ m.trunk # <<>> /\ m.session # NoSid /\ m.preroll = <<>> /\ m.session = n
  BY <1>1 DEF Flushable, MicFits
<1>o. m.ordinal \in Nat
  <2>1. m \in MicRec
    BY <1>2
  <2>. QED BY <2>1 DEF MicRec
<1>3. /\ Body(m) \in Seq(Nat) /\ Body(m) # <<>> /\ Ended(h, Body(m))
      /\ Range(m.trunk) \subseteq Range(Body(m)) /\ Range(Body(m)) \subseteq Line(m)
  BY <1>1, <1>2, BodyEnds
<1>4. PICK w : w = Flushed(m)
  OBVIOUS
<1>5. /\ w \in MicRec /\ w.trunk = <<>> /\ w.pending = <<>> /\ w.preroll = <<>>
      /\ w.session = m.session /\ w.ordinal = m.ordinal + 1
  <2>1. w = [m EXCEPT !.trunk = <<>>, !.pending = <<>>, !.ordinal = @ + 1]
    BY <1>4 DEF Flushed
  <2>2. <<>> \in Seq(Nat) /\ m.ordinal + 1 \in Nat
    BY <1>o, NoneIs
  <2>. QED BY <1>2, <2>1, <2>2 DEF MicRec
<1>6. Line(w) = {} /\ Range(w.trunk) = {}
  BY <1>5, NoneIs DEF Line
<1>7. MicFits(w, h, o, n)
  <2>1. Len(w.preroll) <= PreRoll /\ Len(w.pending) <= SilenceMax
    BY <1>5, NoneIs DEF AudioAssumption
  <2>2. Range(w.preroll) \cup Range(w.pending) = {}
    BY <1>5, NoneIs
  <2>. QED BY <1>2, <1>5, <1>6, <2>1, <2>2 DEF MicFits
<1>8. ASSUME NEW t \in c \cup Range(d) PROVE CutFits(t, w, h, o, n, clock)
  <2>1. CutFits(t, m, h, o, n, clock)
    BY <1>1
  <2>2. t.session = w.session => t.ordinal <= w.ordinal
    BY <1>2, <1>5, <2>1 DEF CutFits, MicRec, TrunkRec
  <2>3. Len(h) \in Nat /\ Len(h) <= Len(h) /\ n <= n /\ clock <= clock
    BY <1>1, LenProperties
  <2>4. Onward(m, h, w, h)
    BY <1>6, <2>3 DEF Onward
  <2>. QED BY <1>1, <2>1, <2>2, <2>3, <2>4, CutStays
<1>9. \A q \in Line(m) : q \in 1 .. Len(h)
  BY <1>1 DEF MicFits
<1>10. CASE Emits(m)
  <2>1. PICK t : t = Trunk(m)
    OBVIOUS
  <2>2. /\ t \in TrunkRec /\ t.body = Body(m) /\ t.session = n /\ t.ordinal = m.ordinal + 1 /\ t.ts = clock
    <3>1. m.ordinal + 1 \in Nat
      BY <1>o
    <3>. QED BY <1>1, <1>2, <1>3, <2>1, <3>1 DEF Trunk, TrunkRec
  <2>3. Emitted(m) = <<t>> /\ TooLarge(m) = {}
    BY <1>10, <2>1 DEF Emitted, TooLarge
  <2>4. CutFits(t, w, h, o, n, clock)
    <3>1. \A q \in Range(t.body) : q \in 1 .. Len(h)
      BY <1>3, <1>9, <2>2
    <3>2. \A q \in Range(t.body) : h[q].voice => h[q].session = t.session \/ h[q].session \in o
      BY <1>1, <1>2, <1>3, <2>2 DEF MicFits, Line
    <3>3. t.session \in 1 .. n /\ t.ts <= clock
      BY <1>1, <1>2, <2>2 DEF NoSid
    <3>4. t.ordinal <= w.ordinal
      BY <1>2, <1>5, <2>2 DEF MicRec
    <3>. QED BY <1>3, <1>6, <2>2, <3>1, <3>2, <3>3, <3>4 DEF CutFits
  <2>6. PICK f : f = Append(d, t)
    OBVIOUS
  <2>7. /\ f \in Seq(TrunkRec) /\ Len(f) = Len(d) + 1 /\ Len(d) \in Nat /\ Range(f) = Range(d) \cup {t}
        /\ (\A i \in 1 .. Len(d) : f[i] = d[i]) /\ f[Len(d) + 1] = t
        /\ DOMAIN f = 1 .. Len(d) + 1 /\ DOMAIN d = 1 .. Len(d)
    <3>1. /\ f \in Seq(TrunkRec) /\ Len(f) = Len(d) + 1 /\ Len(d) \in Nat /\ Range(f) = Range(d) \cup {t}
          /\ (\A i \in 1 .. Len(d) : f[i] = d[i]) /\ f[Len(d) + 1] = t
      <4>1. d \in Seq(TrunkRec) /\ t \in TrunkRec
        BY <1>1, <2>2
      <4>2. /\ Append(d, t) \in Seq(TrunkRec) /\ Len(Append(d, t)) = Len(d) + 1 /\ Len(d) \in Nat
            /\ Range(Append(d, t)) = Range(d) \cup {t}
            /\ (\A i \in 1 .. Len(d) : Append(d, t)[i] = d[i]) /\ Append(d, t)[Len(d) + 1] = t
        BY <4>1, Appended
      <4>. QED BY <2>6, <4>2
    <3>. QED BY <1>1, <3>1, LenProperties
  <2>8. ASSUME NEW s \in c \cup Range(d) PROVE Precedes(s, t)
    <3>1. CutFits(s, m, h, o, n, clock)
      BY <1>c
    <3>2. \A q \in Range(s.body), p \in Range(t.body) : q < p
      BY <1>3, <2>2, <3>1 DEF CutFits
    <3>3. s.ts <= t.ts /\ s.session <= t.session
      BY <1>1, <2>2, <3>1 DEF CutFits
    <3>4. s.session = t.session => s.ordinal < t.ordinal
      <4>1. s.ordinal \in Nat
        BY <3>1 DEF CutFits, TrunkRec
      <4>2. s.session = m.session => s.ordinal <= m.ordinal
        BY <3>1 DEF CutFits
      <4>. QED BY <1>2, <1>o, <2>2, <4>1, <4>2
    <3>. QED BY <3>2, <3>3, <3>4 DEF Precedes
  <2>9. InOrder(f, c)
    <3>1. \A i \in 1 .. Len(d) : d[i] \in Range(d)
      BY <1>1, RangeIs
    <3>2. \A i, j \in DOMAIN f : i < j => Precedes(f[i], f[j])
      <4>1. SUFFICES ASSUME NEW i \in 1 .. Len(d) + 1, NEW j \in 1 .. Len(d) + 1, i < j
                     PROVE  Precedes(f[i], f[j])
        BY <2>7
      <4>2. CASE j = Len(d) + 1
        <5>1. i \in 1 .. Len(d) /\ f[i] = d[i] /\ f[j] = t
          BY <2>7, <4>1, <4>2
        <5>. QED BY <2>8, <3>1, <5>1
      <4>3. CASE j # Len(d) + 1
        <5>1. i \in 1 .. Len(d) /\ j \in 1 .. Len(d)
          BY <2>7, <4>1, <4>3
        <5>. QED BY <1>1, <2>7, <4>1, <5>1 DEF InOrder
      <4>. QED BY <2>7, <4>2, <4>3
    <3>3. \A r \in c, i \in DOMAIN f : Precedes(r, f[i])
      <4>1. SUFFICES ASSUME NEW r \in c, NEW i \in 1 .. Len(d) + 1 PROVE Precedes(r, f[i])
        BY <2>7
      <4>2. CASE i = Len(d) + 1
        BY <2>7, <2>8, <4>2
      <4>3. CASE i # Len(d) + 1
        <5>1. i \in 1 .. Len(d)
          BY <2>7, <4>3
        <5>. QED BY <1>1, <2>7, <5>1 DEF InOrder
      <4>. QED BY <4>2, <4>3
    <3>. QED BY <1>1, <3>2, <3>3 DEF InOrder
  <2>10. Everywhere(w, h, f, c, l)
    <3>1. Range(t.body) \cap l = {}
      BY <1>1, <1>3, <2>2 DEF Everywhere
    <3>2. Range(m.trunk) \subseteq Range(t.body)
      BY <1>3, <2>2
    <3>. QED BY <1>1, <1>6, <2>7, <3>1, <3>2 DEF Everywhere
  <2>11. Fits(w, h, o, n, clock, f, c, l)
    BY <1>1, <1>7, <1>8, <2>4, <2>7, <2>9, <2>10 DEF Fits
  <2>12. l \cup TooLarge(m) = l /\ d \o Emitted(m) = f
    <3>1. d \o <<t>> = f
      BY <1>1, <2>2, <2>6, AppendIs
    <3>. QED BY <2>3, <3>1
  <2>. QED BY <1>4, <1>5, <2>11, <2>12
<1>11. CASE ~Emits(m)
  <2>1. Emitted(m) = <<>> /\ TooLarge(m) = Range(Body(m)) /\ d \o <<>> = d
    BY <1>1, <1>11, ConcatEmptySeq DEF Emitted, TooLarge
  <2>2. PICK x : x = l \cup Range(Body(m))
    OBVIOUS
  <2>3. ASSUME NEW t \in c \cup Range(d) PROVE Range(t.body) \cap x = {}
    <3>1. ASSUME NEW q \in Range(t.body) PROVE q \notin Line(m)
      <4>0. CutFits(t, m, h, o, n, clock)
        BY <1>c
      <4>1. q \in Nat /\ \A p \in Line(m) : q < p
        BY <4>0 DEF CutFits
      <4>. QED BY <4>1
    <3>. QED BY <1>1, <1>3, <2>2, <3>1 DEF Everywhere
  <2>4. Everywhere(w, h, d, c, x)
    <3>1. x \subseteq 1 .. Len(h)
      BY <1>1, <1>3, <1>9, <2>2 DEF Everywhere
    <3>. QED BY <1>1, <1>3, <1>6, <2>2, <2>3, <3>1 DEF Everywhere
  <2>5. Fits(w, h, o, n, clock, d, c, x)
    BY <1>1, <1>7, <1>8, <2>4 DEF Fits
  <2>. QED BY <1>4, <1>5, <2>1, <2>2, <2>5
<1>. QED BY <1>10, <1>11

\* The first drained trunk is stored, or lost.
LEMMA HeadGoes ==
  ASSUME AudioAssumption, NEW m, NEW h, NEW o, NEW n, NEW k, NEW d, NEW c, NEW l,
         Fits(m, h, o, n, k, d, c, l), d # <<>>, NEW ok \in BOOLEAN
  PROVE  Fits(m, h, o, n, k, Tail(d), IF ok THEN c \cup {Head(d)} ELSE c,
              IF ok THEN l ELSE l \cup Range(Head(d).body))
<1>1. /\ h \in Seq(HeardRec) /\ n \in Nat /\ k \in Nat /\ d \in Seq(TrunkRec)
      /\ MicFits(m, h, o, n) /\ InOrder(d, c) /\ Everywhere(m, h, d, c, l)
      /\ \A t \in c \cup Range(d) : CutFits(t, m, h, o, n, k)
  BY DEF Fits
<1>c. d \in Seq(TrunkRec) /\ \A t \in c \cup Range(d) : CutFits(t, m, h, o, n, k)
  BY <1>1
<1>2. PICK t : t = Head(d)
  OBVIOUS
<1>3. PICK f : f = Tail(d)
  OBVIOUS
<1>4. /\ f \in Seq(TrunkRec) /\ Len(d) \in Nat \ {0} /\ Len(f) = Len(d) - 1 /\ t = d[1]
      /\ (\A i \in 1 .. Len(f) : f[i] = d[i + 1]) /\ DOMAIN f = 1 .. Len(f) /\ DOMAIN d = 1 .. Len(d)
  BY <1>1, <1>2, <1>3, HeadTailProperties, LenProperties, EmptySeq
<1>5. t \in Range(d) /\ Range(d) = Range(f) \cup {t}
  <2>1. t \in Range(d)
    <3>1. 1 \in 1 .. Len(d)
      BY <1>4
    <3>. QED BY <1>c, <1>4, <3>1, RangeIs
  <2>2. ASSUME NEW x \in Range(f) PROVE x \in Range(d)
    <3>0. f \in Seq(TrunkRec)
      BY <1>4
    <3>1. PICK i \in 1 .. Len(f) : x = f[i]
      BY <2>2, <3>0, RangeIs
    <3>2. i + 1 \in 1 .. Len(d) /\ x = d[i + 1]
      BY <1>4, <3>1
    <3>. QED BY <1>1, <3>2, RangeIs
  <2>3. ASSUME NEW x \in Range(d) PROVE x \in Range(f) \cup {t}
    <3>1. PICK i \in 1 .. Len(d) : x = d[i]
      BY <1>1, <2>3, RangeIs
    <3>2. CASE i = 1
      BY <1>4, <3>1, <3>2
    <3>3. CASE i # 1
      <4>1. i - 1 \in 1 .. Len(f) /\ f[i - 1] = x
        BY <1>4, <3>1, <3>3
      <4>. QED BY <1>4, <4>1, RangeIs
    <3>. QED BY <3>2, <3>3
  <2>. QED BY <2>1, <2>2, <2>3
<1>6. \A i \in 1 .. Len(f) : Precedes(t, f[i])
  <2>1. \A i \in 1 .. Len(f) : i + 1 \in DOMAIN d /\ 1 < i + 1 /\ 1 \in DOMAIN d
    BY <1>4
  <2>. QED BY <1>1, <1>4, <2>1 DEF InOrder
<1>7. \A r \in c : Precedes(r, t)
  <2>1. 1 \in DOMAIN d
    BY <1>4
  <2>. QED BY <1>1, <1>4, <2>1 DEF InOrder
<1>8. \A i, j \in DOMAIN f : i < j => Precedes(f[i], f[j])
  <2>1. \A i \in DOMAIN f : i + 1 \in DOMAIN d /\ i \in Int
    BY <1>4
  <2>2. ASSUME NEW i \in DOMAIN f, NEW j \in DOMAIN f, i < j PROVE Precedes(f[i], f[j])
    <3>1. i + 1 < j + 1
      BY <2>1, <2>2
    <3>. QED BY <1>1, <1>4, <2>1, <3>1 DEF InOrder
  <2>. QED BY <2>2
<1>9. \A r \in c, i \in DOMAIN f : Precedes(r, f[i])
  <2>1. \A i \in DOMAIN f : i + 1 \in DOMAIN d
    BY <1>4
  <2>. QED BY <1>1, <1>4, <2>1 DEF InOrder
<1>10. CASE ok
  <2>0. \A r, s \in c : r # s => Precedes(r, s) \/ Precedes(s, r)
    BY <1>1 DEF InOrder
  <2>a. \A r, s \in c \cup {t} : r # s => Precedes(r, s) \/ Precedes(s, r)
    BY <1>7, <2>0
  <2>b. \A r \in c \cup {t}, i \in DOMAIN f : Precedes(r, f[i])
    BY <1>4, <1>6, <1>9
  <2>1. InOrder(f, c \cup {t})
    BY <1>8, <2>a, <2>b DEF InOrder
  <2>2. (c \cup {t}) \cup Range(f) = c \cup Range(d)
    BY <1>5
  <2>3. Everywhere(m, h, f, c \cup {t}, l)
    BY <1>1, <2>2 DEF Everywhere
  <2>. QED BY <1>1, <1>2, <1>3, <1>4, <1>10, <2>1, <2>2, <2>3 DEF Fits
<1>11. CASE ~ok
  <2>1. InOrder(f, c)
    BY <1>1, <1>8, <1>9 DEF InOrder
  <2>2. CutFits(t, m, h, o, n, k)
    BY <1>1, <1>5
  <2>3. \A q \in Range(t.body) : q \in 1 .. Len(h) /\ q \notin Line(m)
    BY <1>1, <2>2 DEF CutFits
  <2>4. ASSUME NEW s \in c \cup Range(f) PROVE Range(s.body) \cap Range(t.body) = {}
    <3>1. CutFits(s, m, h, o, n, k)
      BY <1>1, <1>5
    <3>2. Precedes(s, t) \/ Precedes(t, s)
      <4>1. CASE s \in c
        BY <1>7, <4>1
      <4>2. CASE s \in Range(f)
        <5>0. f \in Seq(TrunkRec)
          BY <1>4
        <5>1. PICK i \in 1 .. Len(f) : s = f[i]
          BY <4>2, <5>0, RangeIs
        <5>. QED BY <1>6, <5>1
      <4>. QED BY <2>4, <4>1, <4>2
    <3>. QED BY <2>3, <3>1, <3>2 DEF CutFits, Precedes
  <2>5. PICK x : x = l \cup Range(t.body)
    OBVIOUS
  <2>6. Everywhere(m, h, f, c, x)
    BY <1>1, <1>5, <2>3, <2>4, <2>5 DEF Everywhere
  <2>7. Fits(m, h, o, n, k, f, c, x)
    BY <1>1, <1>4, <1>5, <2>1, <2>6 DEF Fits
  <2>. QED BY <1>2, <1>3, <1>11, <2>5, <2>7
<1>. QED BY <1>10, <1>11

\* The trunks drained in this poll are lost together.
LEMMA DrainedGo ==
  ASSUME AudioAssumption, NEW m, NEW h, NEW o, NEW n, NEW k, NEW d, NEW c, NEW l,
         Fits(m, h, o, n, k, d, c, l),
         NEW x, x = l \cup UNION {Range(d[i].body) : i \in DOMAIN d}
  PROVE  Fits(m, h, o, n, k, <<>>, c, x)
<1>1. /\ h \in Seq(HeardRec) /\ n \in Nat /\ k \in Nat /\ d \in Seq(TrunkRec)
      /\ MicFits(m, h, o, n) /\ InOrder(d, c) /\ Everywhere(m, h, d, c, l)
      /\ \A t \in c \cup Range(d) : CutFits(t, m, h, o, n, k)
  BY DEF Fits
<1>c. d \in Seq(TrunkRec) /\ \A t \in c \cup Range(d) : CutFits(t, m, h, o, n, k)
  BY <1>1
<1>2. DOMAIN d = 1 .. Len(d) /\ \A i \in DOMAIN d : d[i] \in Range(d) /\ CutFits(d[i], m, h, o, n, k)
  <2>1. DOMAIN d = 1 .. Len(d) /\ \A i \in DOMAIN d : d[i] \in Range(d)
    BY <1>c, LenProperties, RangeIs
  <2>. QED BY <1>c, <2>1
<1>3. \A i \in DOMAIN d : \A q \in Range(d[i].body) : q \in 1 .. Len(h) /\ q \notin Line(m)
  BY <1>2 DEF CutFits
<1>4. ASSUME NEW s \in c, NEW i \in DOMAIN d, NEW q \in Range(s.body) PROVE q \notin Range(d[i].body)
  <2>0. CutFits(s, m, h, o, n, k)
    BY <1>1
  <2>1. q \in Nat
    BY <2>0 DEF CutFits
  <2>2. \A p \in Range(d[i].body) : q < p
    BY <1>1 DEF InOrder, Precedes
  <2>. QED BY <2>1, <2>2
<1>5. c \cup Range(<<>>) = c /\ <<>> \in Seq(TrunkRec) /\ DOMAIN <<>> = {}
  BY NoneIs
<1>6. InOrder(<<>>, c)
  BY <1>1, <1>5 DEF InOrder
<1>7. Everywhere(m, h, <<>>, c, x)
  <2>1. x \subseteq 1 .. Len(h) /\ x \cap Line(m) = {}
    BY <1>1, <1>3 DEF Everywhere
  <2>2. ASSUME NEW t \in c PROVE Range(t.body) \cap x = {}
    <3>1. Range(t.body) \cap l = {}
      BY <1>1 DEF Everywhere
    <3>. QED BY <1>4, <3>1
  <2>3. ASSUME NEW q \in 1 .. Len(h), h[q].voice
        PROVE  q \in Range(m.trunk) \/ q \in x \/ \E t \in c : q \in Range(t.body)
    <3>1. CASE \E t \in Range(d) : q \in Range(t.body)
      <4>1. PICK t \in Range(d) : q \in Range(t.body)
        BY <3>1
      <4>2. PICK i \in 1 .. Len(d) : t = d[i]
        BY <1>1, RangeIs
      <4>. QED BY <1>2, <4>1, <4>2
    <3>2. CASE ~\E t \in Range(d) : q \in Range(t.body)
      BY <1>1, <2>3, <3>2 DEF Everywhere
    <3>. QED BY <3>1, <3>2
  <2>. QED BY <1>5, <2>1, <2>2, <2>3 DEF Everywhere
<1>. QED BY <1>1, <1>5, <1>6, <1>7 DEF Fits

\* The loop ends, and the trunk under way with it.
LEMMA TrunkGoes ==
  ASSUME AudioAssumption, NEW m, NEW h, NEW o, NEW n, NEW k, NEW d, NEW c, NEW l,
         Fits(m, h, o, n, k, d, c, l), NEW x, x = l \cup Range(m.trunk)
  PROVE  Fits(Fresh, h, o, n, k, d, c, x)
<1>1. /\ h \in Seq(HeardRec) /\ n \in Nat /\ k \in Nat /\ d \in Seq(TrunkRec)
      /\ MicFits(m, h, o, n) /\ InOrder(d, c) /\ Everywhere(m, h, d, c, l)
      /\ \A t \in c \cup Range(d) : CutFits(t, m, h, o, n, k)
  BY DEF Fits
<1>c. d \in Seq(TrunkRec) /\ \A t \in c \cup Range(d) : CutFits(t, m, h, o, n, k)
  BY <1>1
<1>2. /\ Fresh \in MicRec /\ Fresh.session = NoSid /\ Fresh.trunk = <<>> /\ Fresh.pending = <<>>
      /\ Fresh.preroll = <<>>
  BY NoneIs DEF Fresh, MicRec, NoSid
<1>. HIDE DEF Fresh
<1>3. Line(Fresh) = {} /\ Range(Fresh.trunk) = {}
  BY <1>2, NoneIs DEF Line
<1>4. MicFits(Fresh, h, o, n)
  <2>1. Len(Fresh.preroll) <= PreRoll /\ Len(Fresh.pending) <= SilenceMax
    BY <1>2, NoneIs DEF AudioAssumption
  <2>2. Range(Fresh.preroll) \cup Range(Fresh.pending) = {}
    BY <1>2, NoneIs
  <2>. QED BY <1>2, <1>3, <2>1, <2>2 DEF MicFits
<1>5. ASSUME NEW t \in c \cup Range(d) PROVE CutFits(t, Fresh, h, o, n, k)
  <2>1. CutFits(t, m, h, o, n, k)
    BY <1>1
  <2>2. t.session # Fresh.session
    BY <1>2, <2>1 DEF CutFits, NoSid
  <2>3. Len(h) \in Nat /\ Len(h) <= Len(h) /\ n <= n /\ k <= k
    BY <1>1, LenProperties
  <2>4. Onward(m, h, Fresh, h)
    BY <1>3, <2>3 DEF Onward
  <2>. QED BY <1>1, <2>1, <2>2, <2>3, <2>4, CutStays
<1>6. Everywhere(Fresh, h, d, c, x)
  <2>1. x \subseteq 1 .. Len(h)
    BY <1>1 DEF Everywhere, MicFits, Line
  <2>2. ASSUME NEW t \in c \cup Range(d) PROVE Range(t.body) \cap Range(m.trunk) = {}
    <3>1. ASSUME NEW q \in Range(t.body) PROVE q \notin Line(m)
      <4>0. CutFits(t, m, h, o, n, k)
        BY <1>c
      <4>1. q \in Nat /\ \A p \in Line(m) : q < p
        BY <4>0 DEF CutFits
      <4>. QED BY <4>1
    <3>. QED BY <3>1 DEF Line
  <2>. QED BY <1>1, <1>3, <2>1, <2>2 DEF Everywhere
<1>. QED BY <1>1, <1>4, <1>5, <1>6 DEF Fits

-----------------------------------------------------------------------------
(* The steps of the loop. *)

LEMMA Opens ==
  ASSUME NEW e \in MicRec, NEW i \in Nat
  PROVE  LET m == [e EXCEPT !.session = i, !.long = FALSE, !.ordinal = 0]
         IN  /\ m \in MicRec /\ m.trunk = e.trunk /\ m.pending = e.pending /\ m.preroll = e.preroll
             /\ m.session = i
  BY DEF MicRec

\* Before a quantum is looked at: a session that became too long is closed, and one
\* is opened for voice.
LEMMA AcceptFits ==
  ASSUME AudioAssumption, VoiceInv, NEW voice \in BOOLEAN, OnChunk(voice)
  PROVE  /\ Fits(Accepting(mic, voice), heard, rolled', sids', clock, drained, chunks, lostQuanta)
         /\ Accepting(mic, voice).trunk = mic.trunk
         /\ Accepting(mic, voice).pending = mic.pending
         /\ Accepting(mic, voice).preroll = mic.preroll
         /\ Accepting(mic, voice).session \in Nat
         /\ voice => Accepting(mic, voice).session # NoSid
<1>m. PICK m : m = Accepting(mic, voice)
  OBVIOUS
<1>1. /\ Fits(mic, heard, rolled, sids, clock, drained, chunks, lostQuanta) /\ sids \in Nat /\ clock \in Nat
      /\ mic \in MicRec /\ mic.session \in {NoSid, sids}
  BY DEF VoiceInv, Fits, MicFits
<1>2. PICK e : e = IF Rolls(mic, voice) THEN Closed(mic) ELSE mic
  OBVIOUS
<1>3. /\ e \in MicRec /\ e.trunk = mic.trunk /\ e.pending = mic.pending /\ e.preroll = mic.preroll
      /\ e.ordinal = mic.ordinal
      /\ e.session = IF Rolls(mic, voice) THEN NoSid ELSE mic.session
  BY <1>1, <1>2 DEF Closed, MicRec, NoSid
<1>4. m = IF voice /\ e.session = NoSid
          THEN [e EXCEPT !.session = sids + 1, !.long = FALSE, !.ordinal = 0] ELSE e
  BY <1>2, <1>m DEF Accepting
<1>o. PICK o : o = rolled'
  OBVIOUS
<1>n. sids' = IF voice /\ m.session > sids THEN sids + 1 ELSE sids
  BY <1>m DEF OnChunk
<1>5. rolled \subseteq o /\ (Rolls(mic, voice) => mic.session \in o)
  BY <1>o DEF OnChunk
<1>6. CASE voice /\ e.session = NoSid
  <2>1. /\ m \in MicRec /\ m.trunk = mic.trunk /\ m.pending = mic.pending /\ m.preroll = mic.preroll
        /\ m.session = sids + 1
    <3>1. m = [e EXCEPT !.session = sids + 1, !.long = FALSE, !.ordinal = 0]
      BY <1>4, <1>6
    <3>2. sids + 1 \in Nat
      BY <1>1
    <3>3. e \in MicRec /\ e.trunk = mic.trunk /\ e.pending = mic.pending /\ e.preroll = mic.preroll
      BY <1>3
    <3>4. /\ m \in MicRec /\ m.trunk = e.trunk /\ m.pending = e.pending /\ m.preroll = e.preroll
          /\ m.session = sids + 1
      BY <3>1, <3>2, <3>3, Opens
    <3>. QED BY <3>3, <3>4
  <2>2. sids + 1 > sids /\ sids + 1 # NoSid /\ sids + 1 \in Nat /\ sids <= sids + 1 /\ clock <= clock
    BY <1>1 DEF NoSid
  <2>3. sids' = sids + 1
    BY <1>n, <1>6, <2>1, <2>2
  <2>4. mic.session = NoSid \/ mic.session \in o
    BY <1>3, <1>5, <1>6
  <2>5. Fits(m, heard, o, sids + 1, clock, drained, chunks, lostQuanta)
    <3>1. m.session > sids /\ m.session \in {NoSid, sids + 1}
      BY <2>1, <2>2
    <3>2. m.session # mic.session => mic.session = NoSid \/ mic.session \in o \/ mic.trunk = <<>>
      BY <2>4
    <3>3. rolled \subseteq o
      BY <1>5
    <3>. QED BY <1>1, <2>1, <2>2, <3>1, <3>2, <3>3, MicMoves, ZenonT(40)
  <2>. QED BY <1>m, <1>o, <2>1, <2>2, <2>3, <2>5
<1>7. CASE ~(voice /\ e.session = NoSid)
  <2>1. m = e /\ (voice => m.session # NoSid) /\ m.session \in {NoSid, sids}
    BY <1>1, <1>3, <1>4, <1>7
  <2>2. ~(sids > sids) /\ ~(NoSid > sids) /\ clock <= clock /\ sids <= sids
    BY <1>1 DEF NoSid
  <2>3. sids' = sids
    BY <1>n, <2>1, <2>2
  <2>4. m.session # mic.session => mic.session \in o /\ m.session = NoSid
    BY <1>3, <1>5, <2>1
  <2>5. Fits(m, heard, o, sids, clock, drained, chunks, lostQuanta)
    <3>1. /\ m \in MicRec /\ m.trunk = mic.trunk /\ m.pending = mic.pending /\ m.preroll = mic.preroll
          /\ m.ordinal = mic.ordinal
      BY <1>3, <2>1
    <3>2. (m.session = mic.session /\ m.ordinal = mic.ordinal) \/ m.session = NoSid \/ m.session > sids
      BY <2>4, <3>1
    <3>3. m.session # mic.session => mic.session = NoSid \/ mic.session \in o \/ mic.trunk = <<>>
      BY <2>4
    <3>4. rolled \subseteq o
      BY <1>5
    <3>. QED BY <1>1, <2>1, <2>2, <3>1, <3>2, <3>3, <3>4, MicMoves, ZenonT(40)
  <2>6. m.session \in Nat
    BY <1>1, <2>1 DEF NoSid
  <2>. QED BY <1>m, <1>o, <1>3, <2>1, <2>3, <2>5, <2>6
<1>. QED BY <1>6, <1>7

\* The trunk is flushed or goes on, the session is closed or stays.
LEMMA TurnFits ==
  ASSUME AudioAssumption, NEW w, NEW h, NEW o, NEW n, NEW d, NEW c, NEW l,
         Fits(w, h, o, n, clock, d, c, l), NEW flush \in BOOLEAN, NEW close \in BOOLEAN,
         flush => Flushable(w), close => flush, ~flush => Len(w.pending) < SilenceMax,
         NEW t, t = Turn(w, flush, close)
  PROVE  Fits(t.mic, h, o, n, clock, d \o t.out, c, l \cup t.dropped) /\ Len(t.mic.pending) < SilenceMax
<1>1. n \in Nat /\ clock \in Nat /\ d \in Seq(TrunkRec) /\ w \in MicRec /\ w.session \in {NoSid, n}
  BY DEF Fits, MicFits
<1>2. CASE ~flush
  <2>1. t.mic = w /\ t.out = <<>> /\ t.dropped = {}
    BY <1>2 DEF Turn
  <2>2. d \o t.out = d /\ l \cup t.dropped = l
    BY <1>1, <2>1, ConcatEmptySeq
  <2>. QED BY <1>2, <2>1, <2>2
<1>3. CASE flush
  <2>1. PICK f : f = Flushed(w)
    OBVIOUS
  <2>2. /\ Fits(f, h, o, n, clock, d \o Emitted(w), c, l \cup TooLarge(w))
        /\ f.pending = <<>> /\ f.trunk = <<>>
    BY <1>3, <2>1, FlushFits
  <2>3. /\ t.mic = (IF close THEN Closed(f) ELSE f) /\ t.out = Emitted(w) /\ t.dropped = TooLarge(w)
    BY <1>3, <2>1 DEF Turn
  <2>4. f \in MicRec /\ f.session \in {NoSid, n}
    BY <2>2 DEF Fits, MicFits
  <2>5. /\ Closed(f) \in MicRec /\ Closed(f).trunk = f.trunk /\ Closed(f).pending = f.pending
        /\ Closed(f).preroll = f.preroll /\ Closed(f).session = NoSid
    BY <2>4 DEF Closed, MicRec, NoSid
  <2>6. o \subseteq o /\ n <= n /\ clock <= clock
    BY <1>1
  <2>7. Fits(Closed(f), h, o, n, clock, d \o Emitted(w), c, l \cup TooLarge(w))
    BY <1>1, <2>2, <2>5, <2>6, MicMoves
  <2>8. Len(<<>>) < SilenceMax
    BY NoneIs DEF AudioAssumption
  <2>. QED BY <2>2, <2>3, <2>5, <2>7, <2>8
<1>. QED BY <1>2, <1>3

\* What a quantum does: the orchestrator m, its session settled, takes it in and becomes w,
\* which then is flushed, closed, or neither.
Takes(m, w, q) ==
  \/ w = WithVoice(m, q)
  \/ w = m
  \/ w = WithPreRoll(m, q) /\ m.trunk = <<>>
  \/ w = WithSilence(m, q) /\ m.trunk # <<>>

Turns(m, w, flush, close) ==
  /\ m \in MicRec /\ m.trunk = mic.trunk /\ m.pending = mic.pending /\ m.preroll = mic.preroll
  /\ \E e : Hears(heard', heard, Len(heard) + 1, e)
  /\ Takes(m, w, Len(heard) + 1)
  /\ Fits(w, heard', rolled', sids', clock, drained, chunks, lostQuanta)
  /\ flush => Flushable(w)
  /\ close => flush
  /\ ~flush => Len(w.pending) < SilenceMax
  /\ mic' = Turn(w, flush, close).mic
  /\ drained' = drained \o Turn(w, flush, close).out
  /\ lostQuanta' = lostQuanta \cup Turn(w, flush, close).dropped
  /\ clock' = clock /\ ear' = ear /\ chunks' = chunks /\ ear = "draining"

LEMMA OnChunkTurns ==
  ASSUME AudioAssumption, VoiceInv, NEW voice \in BOOLEAN, OnChunk(voice)
  PROVE  \E m, w : \E flush, close \in BOOLEAN : Turns(m, w, flush, close)
<1>1. PICK q : q = Len(heard) + 1
  OBVIOUS
<1>2. PICK m : m = Accepting(mic, voice)
  OBVIOUS
<1>3. PICK t : t = IF voice THEN Voiced(m, q) ELSE Quiet(m, q)
  OBVIOUS
<1>4. /\ heard' = Append(heard, [voice |-> voice, session |-> m.session])
      /\ sids' = (IF voice /\ m.session > sids THEN sids + 1 ELSE sids)
      /\ rolled' = (IF Rolls(mic, voice) THEN rolled \cup {mic.session} ELSE rolled)
      /\ mic' = t.mic /\ drained' = drained \o t.out /\ lostQuanta' = lostQuanta \cup t.dropped
      /\ clock' = clock /\ ear' = ear /\ chunks' = chunks /\ ear = "draining"
  BY <1>1, <1>2, <1>3 DEF OnChunk
<1>5. PICK o : o = rolled'
  OBVIOUS
<1>6. PICK n : n = sids'
  OBVIOUS
<1>7. PICK g : g = heard'
  OBVIOUS
<1>8. /\ Fits(m, heard, o, n, clock, drained, chunks, lostQuanta)
      /\ m.trunk = mic.trunk /\ m.pending = mic.pending /\ m.preroll = mic.preroll
      /\ m.session \in Nat
      /\ voice => m.session # NoSid
  BY <1>2, <1>5, <1>6, AcceptFits
<1>9. Len(m.pending) < SilenceMax
  BY <1>8 DEF VoiceInv
<1>h. PICK e : e = [voice |-> voice, session |-> m.session]
  OBVIOUS
<1>e. /\ (voice => e = [voice |-> TRUE, session |-> m.session])
      /\ (~voice => e = [voice |-> FALSE, session |-> m.session])
  BY <1>h
<1>g. Hears(g, heard, q, e)
  <2>1. e \in HeardRec /\ heard \in Seq(HeardRec)
    BY <1>h, <1>8 DEF HeardRec, Fits
  <2>2. g = Append(heard, e)
    BY <1>4, <1>7, <1>h
  <2>3. /\ Append(heard, e) \in Seq(HeardRec) /\ Len(heard) \in Nat
        /\ Len(Append(heard, e)) = Len(heard) + 1
        /\ (\A x \in 1 .. Len(heard) : Append(heard, e)[x] = heard[x])
        /\ Append(heard, e)[Len(heard) + 1] = e
    BY <2>1, Appended
  <2>4. q = Len(heard) + 1 /\ q \in Nat
    BY <1>1, <2>3
  <2>. QED BY <2>2, <2>3, <2>4 DEF Hears
<1>10. ASSUME NEW w, Fits(w, g, o, n, clock, drained, chunks, lostQuanta), Takes(m, w, q),
              NEW flush \in BOOLEAN, NEW close \in BOOLEAN, t = Turn(w, flush, close),
              flush => Flushable(w), close => flush, ~flush => Len(w.pending) < SilenceMax
       PROVE  Turns(m, w, flush, close)
  BY <1>1, <1>4, <1>5, <1>6, <1>7, <1>8, <1>g, <1>10 DEF Turns, Fits, MicFits
<1>11. CASE voice
  <2>1. PICK w : w = WithVoice(m, q)
    OBVIOUS
  <2>2. /\ Fits(w, g, o, n, clock, drained, chunks, lostQuanta)
        /\ w.trunk # <<>> /\ w.pending = <<>> /\ w.session = m.session
    BY <1>g, <1>e, <1>8, <1>9, <1>11, <2>1, VoiceFits
  <2>3. t = Turn(w, Len(w.trunk) >= TrunkMax, FALSE)
    BY <1>3, <1>11, <2>1 DEF Voiced
  <2>4. Flushable(w) /\ Len(w.pending) < SilenceMax
    <3>1. Len(<<>>) < SilenceMax
      BY NoneIs DEF AudioAssumption
    <3>. QED BY <1>8, <1>11, <2>2, <3>1 DEF Flushable
  <2>5. t = Turn(w, TRUE, FALSE) \/ t = Turn(w, FALSE, FALSE)
    BY <2>3 DEF Turn
  <2>6. Takes(m, w, q)
    BY <2>1 DEF Takes
  <2>. QED BY <1>10, <2>2, <2>4, <2>5, <2>6
<1>12. CASE ~voice
  <2>1. CASE m.trunk = <<>>
    <3>1. PICK w : w = WithPreRoll(m, q)
      OBVIOUS
    <3>2. Fits(w, g, o, n, clock, drained, chunks, lostQuanta) /\ w.trunk = m.trunk
      BY <1>g, <1>e, <1>8, <1>12, <2>1, <3>1, QuietFits
    <3>3. t = Turn(w, FALSE, FALSE)
      BY <1>3, <1>12, <2>1, <3>1 DEF Quiet
    <3>4. w.pending = <<>>
      BY <2>1, <3>2 DEF Fits, MicFits
    <3>5. Len(w.pending) < SilenceMax
      BY <3>4, NoneIs DEF AudioAssumption
    <3>6. Takes(m, w, q)
      BY <2>1, <3>1 DEF Takes
    <3>. QED BY <1>10, <3>2, <3>3, <3>5, <3>6
  <2>2. CASE m.trunk # <<>> /\ m.session = NoSid
    <3>1. Fits(m, g, o, n, clock, drained, chunks, lostQuanta)
      BY <1>g, <1>e, <1>8, <1>12, QuietFits
    <3>2. t = Turn(m, FALSE, FALSE)
      BY <1>3, <1>12, <2>2 DEF Quiet
    <3>3. Takes(m, m, q)
      BY DEF Takes
    <3>. QED BY <1>9, <1>10, <3>1, <3>2, <3>3
  <2>3. CASE m.trunk # <<>> /\ m.session # NoSid
    <3>1. PICK w : w = WithSilence(m, q)
      OBVIOUS
    <3>2. Fits(w, g, o, n, clock, drained, chunks, lostQuanta) /\ w.trunk = m.trunk /\ w.session = m.session
      BY <1>g, <1>e, <1>8, <1>9, <1>12, <2>3, <3>1, QuietFits
    <3>. DEFINE over == Len(w.pending) >= SilenceMax
    <3>3. t = Turn(w, over \/ Len(w.trunk) >= TrunkMax, over /\ mode = "session")
      BY <1>3, <1>12, <2>3, <3>1 DEF Quiet
    <3>4. Flushable(w)
      BY <2>3, <3>2 DEF Flushable
    <3>5. w.pending \in Seq(Nat) /\ Len(w.pending) \in Nat /\ SilenceMax \in Nat
      BY <3>2, LenProperties DEF Fits, MicFits, MicRec, AudioAssumption
    <3>6. ~over => Len(w.pending) < SilenceMax
      BY <3>5
    <3>7. Takes(m, w, q)
      BY <2>3, <3>1 DEF Takes
    <3>. QED BY <1>10, <3>2, <3>3, <3>4, <3>6, <3>7
  <2>. QED BY <2>1, <2>2, <2>3
<1>. QED BY <1>11, <1>12

LEMMA OnChunkSafe ==
  ASSUME AudioAssumption, VoiceInv, NEW voice \in BOOLEAN, OnChunk(voice)
  PROVE  VoiceInv'
<1>1. PICK m, w : \E flush, close \in BOOLEAN : Turns(m, w, flush, close)
  BY OnChunkTurns
<1>2. PICK flush \in BOOLEAN, close \in BOOLEAN : Turns(m, w, flush, close)
  BY <1>1
<1>3. PICK t : t = Turn(w, flush, close)
  OBVIOUS
<1>4. PICK g, o, n : g = heard' /\ o = rolled' /\ n = sids'
  OBVIOUS
<1>5. /\ Fits(w, g, o, n, clock, drained, chunks, lostQuanta)
      /\ flush => Flushable(w)
      /\ close => flush
      /\ ~flush => Len(w.pending) < SilenceMax
      /\ mic' = t.mic /\ drained' = drained \o t.out /\ lostQuanta' = lostQuanta \cup t.dropped
      /\ clock' = clock /\ ear' = ear /\ chunks' = chunks /\ ear = "draining"
  BY <1>2, <1>3, <1>4 DEF Turns
<1>6. /\ Fits(t.mic, g, o, n, clock, drained \o t.out, chunks, lostQuanta \cup t.dropped)
      /\ Len(t.mic.pending) < SilenceMax
  BY <1>3, <1>5, TurnFits
<1>7. Fits(mic', heard', rolled', sids', clock', drained', chunks', lostQuanta')
  BY <1>4, <1>5, <1>6
<1>8. Fits(mic, heard, rolled, sids, clock, drained, chunks, lostQuanta)'
  BY <1>7 DEF Fits, MicFits, CutFits, InOrder, Everywhere, Precedes, Begun, Ended, Spoken, Line
<1>. QED BY <1>5, <1>6, <1>8 DEF VoiceInv

LEMMA OtherStepsSafe ==
  ASSUME AudioAssumption, VoiceInv,
         \/ Deliver \/ SessionLasts \/ Poll \/ EndDrain \/ Disconnect \/ UNCHANGED audioVars
         \/ \E ok \in BOOLEAN : PersistTrunk(ok) \/ Cancel(ok)
  PROVE  VoiceInv'
<1>1. /\ Fits(mic, heard, rolled, sids, clock, drained, chunks, lostQuanta) /\ sids \in Nat /\ clock \in Nat
      /\ mic \in MicRec /\ mic.session \in {NoSid, sids} /\ Len(mic.pending) < SilenceMax
      /\ drained \in Seq(TrunkRec)
  BY DEF VoiceInv, Fits, MicFits
<1>2. ASSUME Fits(mic', heard', rolled', sids', clock', drained', chunks', lostQuanta'),
             Len(mic'.pending) < SilenceMax,
             ear' \in {"waiting", "stopped"} => drained' = <<>>, ear' = "storing" => drained' # <<>>
      PROVE  VoiceInv'
  <2>1. Fits(mic, heard, rolled, sids, clock, drained, chunks, lostQuanta)'
    BY <1>2 DEF Fits, MicFits, CutFits, InOrder, Everywhere, Precedes, Begun, Ended, Spoken, Line
  <2>. QED BY <1>2, <2>1 DEF VoiceInv
<1>3. rolled \subseteq rolled /\ sids <= sids /\ clock <= clock
  BY <1>1
<1>4. CASE Deliver
  <2>1. clock' \in Nat /\ clock <= clock'
    BY <1>1, <1>4 DEF Deliver
  <2>2. Fits(mic, heard, rolled, sids, clock', drained, chunks, lostQuanta)
    BY <1>1, <1>3, <2>1, MicMoves
  <2>. QED BY <1>1, <1>2, <1>4, <2>2 DEF Deliver, VoiceInv
<1>5. CASE SessionLasts
  <2>1. /\ mic' \in MicRec /\ mic'.trunk = mic.trunk /\ mic'.pending = mic.pending
        /\ mic'.preroll = mic.preroll /\ mic'.session = mic.session /\ mic'.ordinal = mic.ordinal
    BY <1>1, <1>5 DEF SessionLasts, MicRec
  <2>2. Fits(mic', heard, rolled, sids, clock, drained, chunks, lostQuanta)
    BY <1>1, <1>3, <2>1, MicMoves
  <2>. QED BY <1>1, <1>2, <1>5, <2>1, <2>2 DEF SessionLasts, VoiceInv
<1>6. CASE Poll
  BY <1>1, <1>2, <1>6 DEF Poll, VoiceInv
<1>7. CASE EndDrain
  <2>1. /\ mic' \in MicRec /\ mic'.trunk = mic.trunk /\ mic'.pending = mic.pending
        /\ mic'.preroll = mic.preroll /\ mic'.ordinal = mic.ordinal
        /\ mic'.session = (IF mic.long THEN NoSid ELSE mic.session)
        /\ rolled \subseteq rolled' /\ (mic.long => mic.session \in rolled')
    BY <1>1, <1>7 DEF EndDrain, Closed, MicRec, NoSid
  <2>2. Fits(mic', heard, rolled', sids, clock, drained, chunks, lostQuanta)
    BY <1>1, <1>3, <2>1, MicMoves
  <2>. QED BY <1>1, <1>2, <1>7, <2>1, <2>2 DEF EndDrain
<1>8. CASE Disconnect
  <2>1. PICK x : x = lostQuanta \cup Range(mic.trunk)
    OBVIOUS
  <2>2. Fits(Fresh, heard, rolled, sids, clock, drained, chunks, x)
    BY <1>1, <2>1, TrunkGoes
  <2>3. lostQuanta' = x \cup UNION {Range(drained[i].body) : i \in DOMAIN drained}
    BY <1>8, <2>1 DEF Disconnect
  <2>4. Fits(Fresh, heard, rolled, sids, clock, <<>>, chunks, lostQuanta')
    BY <2>2, <2>3, DrainedGo
  <2>5. Len(Fresh.pending) < SilenceMax
    BY NoneIs DEF Fresh, AudioAssumption
  <2>. QED BY <1>2, <1>8, <2>4, <2>5 DEF Disconnect
<1>9. CASE UNCHANGED audioVars
  BY <1>1, <1>2, <1>9 DEF audioVars, VoiceInv
<1>10. ASSUME NEW ok \in BOOLEAN, PersistTrunk(ok) PROVE VoiceInv'
  <2>1. drained # <<>> /\ ear = "storing"
    BY <1>10 DEF PersistTrunk, VoiceInv
  <2>2. Fits(mic, heard, rolled, sids, clock, drained', chunks', lostQuanta')
    BY <1>1, <1>10, <2>1, HeadGoes DEF PersistTrunk
  <2>3. Len(drained) = 1 <=> Tail(drained) = <<>>
    <3>1. PICK f : f = Tail(drained)
      OBVIOUS
    <3>2. f \in Seq(TrunkRec) /\ Len(f) = Len(drained) - 1 /\ Len(drained) \in Nat
      BY <1>1, <2>1, <3>1, HeadTailProperties, LenProperties
    <3>3. (f = <<>>) <=> (Len(f) = 0)
      BY <3>2, EmptySeq
    <3>4. (Len(f) = 0) <=> (Len(drained) = 1)
      BY <3>2
    <3>. QED BY <3>1, <3>3, <3>4
  <2>. QED BY <1>1, <1>2, <1>10, <2>2, <2>3 DEF PersistTrunk
<1>11. ASSUME NEW ok \in BOOLEAN, Cancel(ok) PROVE VoiceInv'
  <2>1. drained = <<>> /\ drained' = <<>> /\ ear' = "stopped" /\ mic' = Fresh
    BY <1>11 DEF Cancel, VoiceInv
  <2>2. Fits(Fresh, heard, rolled, sids, clock, <<>>, chunks', lostQuanta')
    <3>1. CASE ok /\ Emits(mic)
      <4>1. PICK w : w = Flushed(mic)
        OBVIOUS
      <4>2. PICK r : r = Trunk(mic)
        OBVIOUS
      <4>3. Emitted(mic) = <<r>> /\ TooLarge(mic) = {} /\ Flushable(mic)
        BY <3>1, <4>2 DEF Emitted, TooLarge, Emits
      <4>4. <<>> \o <<r>> = <<r>> /\ <<r>> # <<>> /\ Head(<<r>>) = r /\ Tail(<<r>>) = <<>> /\ Range(<<r>>) = {r}
        BY DEF Range
      <4>5. Fits(w, heard, rolled, sids, clock, <<r>>, chunks, lostQuanta) /\ w.trunk = <<>>
        <5>1. /\ Fits(Flushed(mic), heard, rolled, sids, clock, drained \o Emitted(mic), chunks,
                       lostQuanta \cup TooLarge(mic))
              /\ Flushed(mic).trunk = <<>>
          BY <1>1, <4>3, FlushFits
        <5>2. drained \o Emitted(mic) = <<r>> /\ lostQuanta \cup TooLarge(mic) = lostQuanta
          BY <2>1, <4>3, <4>4
        <5>. QED BY <4>1, <5>1, <5>2
      <4>6. Fits(w, heard, rolled, sids, clock, <<>>, chunks \cup {r}, lostQuanta)
        <5>1. PICK y : y = <<r>>
          OBVIOUS
        <5>2. /\ Fits(w, heard, rolled, sids, clock, y, chunks, lostQuanta) /\ y # <<>>
              /\ Head(y) = r /\ Tail(y) = <<>>
          BY <4>4, <4>5, <5>1
        <5>3. Fits(w, heard, rolled, sids, clock, Tail(y), IF ok THEN chunks \cup {Head(y)} ELSE chunks,
                   IF ok THEN lostQuanta ELSE lostQuanta \cup Range(Head(y).body))
          BY <5>2, HeadGoes
        <5>. QED BY <3>1, <5>2, <5>3
      <4>7. lostQuanta = lostQuanta \cup Range(w.trunk)
        BY <4>5, NoneIs
      <4>8. Fits(Fresh, heard, rolled, sids, clock, <<>>, chunks \cup {r}, lostQuanta)
        BY <4>6, <4>7, TrunkGoes
      <4>9. chunks' = chunks \cup {r} /\ lostQuanta' = lostQuanta
        BY <1>11, <3>1, <4>3, <4>4 DEF Cancel
      <4>. QED BY <4>8, <4>9
    <3>2. CASE ~(ok /\ Emits(mic))
      <4>1. lostQuanta' = lostQuanta \cup Range(mic.trunk) /\ chunks' = chunks
        BY <1>11, <3>2, NoneIs DEF Cancel, Emitted
      <4>. QED BY <1>1, <2>1, <4>1, TrunkGoes
    <3>. QED BY <3>1, <3>2
  <2>3. Len(Fresh.pending) < SilenceMax
    BY NoneIs DEF Fresh, AudioAssumption
  <2>. QED BY <1>2, <1>11, <2>1, <2>2, <2>3 DEF Cancel
<1>. QED BY <1>4, <1>5, <1>6, <1>7, <1>8, <1>9, <1>10, <1>11

LEMMA VoiceInductive == AudioSpec => []VoiceInv
<1>1. AudioInit => VoiceInv
  <2>. SUFFICES ASSUME AudioInit PROVE VoiceInv
    OBVIOUS
  <2>1. /\ heard = <<>> /\ mic = Fresh /\ sids = 0 /\ clock = 0 /\ drained = <<>> /\ chunks = {}
        /\ lostQuanta = {} /\ ear = "waiting"
    BY DEF AudioInit
  <2>2. /\ Fresh \in MicRec /\ Fresh.session = NoSid /\ Fresh.trunk = <<>> /\ Fresh.pending = <<>>
        /\ Fresh.preroll = <<>>
    BY NoneIs DEF Fresh, MicRec, NoSid
  <2>. HIDE DEF Fresh
  <2>3. Line(Fresh) = {} /\ Range(<<>>) = {} /\ DOMAIN <<>> = {} /\ Len(<<>>) = 0 /\ 1 .. 0 = {}
    BY <2>2, NoneIs DEF Line
  <2>4. PreRoll \in Nat /\ SilenceMax \in Nat \ {0}
    BY AudioAssumption DEF AudioAssumption
  <2>5. MicFits(Fresh, <<>>, rolled, 0)
    BY <2>2, <2>3, <2>4 DEF MicFits
  <2>6. Everywhere(Fresh, <<>>, <<>>, {}, {}) /\ InOrder(<<>>, {}) /\ {} \cup Range(<<>>) = {}
    BY <2>3 DEF Everywhere, InOrder
  <2>7. Fits(Fresh, <<>>, rolled, 0, 0, <<>>, {}, {})
    BY <2>5, <2>6, NoneIs DEF Fits
  <2>. QED BY <2>1, <2>2, <2>3, <2>4, <2>7 DEF VoiceInv
<1>2. VoiceInv /\ [AudioNext]_audioVars => VoiceInv'
  BY AudioAssumption, OnChunkSafe, OtherStepsSafe DEF AudioNext, AudioRest
<1>. QED BY <1>1, <1>2, PTL DEF AudioSpec

\* All that was said is kept, once, in a trunk of its session and in the order it was said.
THEOREM VoiceIsKept == AudioSpec => []VoiceKept
<1>1. VoiceInv => VoiceKept
  <2>. SUFFICES ASSUME VoiceInv PROVE VoiceKept
    OBVIOUS
  <2>1. /\ heard \in Seq(HeardRec) /\ drained \in Seq(TrunkRec)
        /\ InOrder(drained, chunks) /\ Everywhere(mic, heard, drained, chunks, lostQuanta)
        /\ \A t \in chunks \cup Range(drained) : CutFits(t, mic, heard, rolled, sids, clock)
    BY DEF VoiceInv, Fits
  <2>2. DOMAIN heard = 1 .. Len(heard) /\ DOMAIN drained = 1 .. Len(drained)
    BY <2>1, LenProperties
  <2>3. /\ \A i \in DOMAIN drained : drained[i] \in Range(drained)
        /\ \A t \in Range(drained) : \E i \in DOMAIN drained : t = drained[i]
    BY <2>1, <2>2, RangeIs
  <2>4. \A t \in chunks \cup Range(drained) : \A q \in Range(t.body) :
          q \in Nat /\ q \notin Line(mic)
    BY <2>1 DEF CutFits
  <2>5. VoiceAccounted
    <3>1. \A q \in DOMAIN heard : heard[q].voice => q \in Held \cup Stored \cup lostQuanta
      BY <2>1, <2>2, <2>3 DEF Everywhere, Held, Stored
    <3>2. Held \cap Stored = {}
      <4>1. \A r \in chunks, i \in DOMAIN drained : Range(r.body) \cap Range(drained[i].body) = {}
        BY <2>1, <2>4 DEF InOrder, Precedes
      <4>2. \A r \in chunks : Range(r.body) \cap Range(mic.trunk) = {}
        BY <2>4 DEF Line
      <4>. QED BY <4>1, <4>2 DEF Held, Stored
    <3>3. (Held \cup Stored) \cap lostQuanta = {}
      BY <2>1, <2>3 DEF Everywhere, Held, Stored, Line
    <3>4. \A r, s \in chunks : r # s => Range(r.body) \cap Range(s.body) = {}
      BY <2>1, <2>4 DEF InOrder, Precedes
    <3>. QED BY <3>1, <3>2, <3>3, <3>4 DEF VoiceAccounted
  <2>6. SpeechOfOtherSessions
    BY <2>1 DEF SpeechOfOtherSessions, CutFits
  <2>7. \A r \in chunks : /\ r.body \in Seq(Nat) /\ Len(r.body) \in Nat \ {0} /\ r.body[1] \in Range(r.body)
                          /\ Ended(heard, r.body) /\ r.ordinal \in Nat /\ r.ts \in Nat
    <3>1. SUFFICES ASSUME NEW r \in chunks
                   PROVE  /\ r.body \in Seq(Nat) /\ Len(r.body) \in Nat \ {0}
                          /\ r.body[1] \in Range(r.body) /\ Ended(heard, r.body)
                          /\ r.ordinal \in Nat /\ r.ts \in Nat
      OBVIOUS
    <3>2. r \in TrunkRec /\ r.body # <<>> /\ Ended(heard, r.body)
      BY <2>1 DEF CutFits
    <3>3. r.body \in Seq(Nat) /\ Len(r.body) \in Nat \ {0} /\ r.ordinal \in Nat /\ r.ts \in Nat
      BY <3>2, EmptySeq, LenProperties DEF TrunkRec
    <3>. QED BY <3>2, <3>3, RangeIs
  <2>8. OrdinalsFollowSound
    <3>1. SUFFICES ASSUME NEW r \in chunks, NEW s \in chunks, r.session = s.session, r # s
                   PROVE  /\ r.ordinal # s.ordinal
                          /\ r.ordinal < s.ordinal => r.ts <= s.ts /\ r.body[1] < s.body[1]
      BY DEF OrdinalsFollowSound
    <3>2. CASE Precedes(r, s)
      BY <2>7, <3>1, <3>2 DEF Precedes
    <3>3. CASE Precedes(s, r)
      BY <2>7, <3>1, <3>3 DEF Precedes
    <3>. QED BY <2>1, <3>1, <3>2, <3>3 DEF InOrder
  <2>9. QuietBounded
    <3>1. SUFFICES ASSUME NEW r \in chunks
                   PROVE  /\ ~QuietAt(r, 1 .. Len(r.body))
                          /\ ~(PreRoll < Len(r.body) /\ QuietAt(r, 1 .. PreRoll + 1))
                          /\ ~(Padding < Len(r.body) /\ QuietAt(r, Len(r.body) - Padding .. Len(r.body)))
                          /\ \A i \in 2 .. Len(r.body) : i + SilenceMax - 1 < Len(r.body) =>
                               ~QuietAt(r, i .. i + SilenceMax - 1) \/ i <= PreRoll
      BY DEF QuietBounded
    <3>2. PreRoll \in Nat
      BY AudioAssumption DEF AudioAssumption
    <3>3. \A I : Spoken(heard, r.body, I) => ~QuietAt(r, I)
      BY DEF Spoken, QuietAt
    <3>4. \A i \in 2 .. Len(r.body) : i > PreRoll \/ i <= PreRoll
      BY <3>2
    <3>. QED BY <2>7, <3>3, <3>4 DEF Ended
  <2>. QED BY <2>5, <2>6, <2>8, <2>9 DEF VoiceKept, TrunksOrdered
<1>. QED BY <1>1, VoiceInductive, PTL

-----------------------------------------------------------------------------
(* The export.  The trunks of a session do not drift because whatever was  *)
(* heard after a trunk was cut was heard later than the loop's backlog     *)
(* before its timestamp, so that clamped segments do not outrun the sound. *)

\* Induction, and the numbers it rests on.
LEMMA Induction ==
  ASSUME NEW S, 0 \in S, \A n \in Nat : n \in S => n + 1 \in S
  PROVE  \A n \in Nat : n \in S
<1>. DEFINE T == {n \in Nat : n \notin S}
            less == {ss \in Nat \X Nat : ss[1] < ss[2]}
<1>1. IsWellFoundedOn(less, Nat)
  BY NatLessThanWellFounded DEF OpToRel
<1>2. ASSUME T # {} PROVE FALSE
  <2>1. T \subseteq Nat
    OBVIOUS
  <2>. HIDE DEF T, less
  <2>2. PICK x \in T : \A y \in T : ~(<<y, x>> \in less)
    BY <1>1, <1>2, <2>1, WFMin
  <2>3. x \in Nat /\ x \notin S /\ x # 0
    BY <2>2 DEF T
  <2>4. x - 1 \in Nat /\ (x - 1) + 1 = x
    BY <2>3
  <2>5. x - 1 \in T
    BY <2>3, <2>4 DEF T
  <2>6. <<x - 1, x>> \in less
    BY <2>3, <2>4 DEF less
  <2>. QED BY <2>2, <2>5, <2>6
<1>. QED BY <1>2 DEF T

Rises(b) == \A i, j \in 1 .. Len(b) : i < j => b[i] < b[j]

LEMMA RisesSpan ==
  ASSUME NEW b \in Seq(Nat), b # <<>>, Rises(b)
  PROVE  b[1] + Len(b) <= b[Len(b)] + 1 /\ b[1] \in Range(b) /\ b[Len(b)] \in Range(b)
<1>. DEFINE S == {k \in Nat : k + 1 \in 1 .. Len(b) => b[1] + k <= b[k + 1]}
<1>1. Len(b) \in Nat \ {0} /\ \A i \in 1 .. Len(b) : b[i] \in Nat /\ b[i] \in Range(b)
  BY EmptySeq, LenProperties, ElementOfSeq, RangeIs
<1>2. 0 \in S
  BY <1>1
<1>3. ASSUME NEW n \in Nat, n \in S PROVE n + 1 \in S
  <2>1. ASSUME (n + 1) + 1 \in 1 .. Len(b) PROVE b[1] + (n + 1) <= b[(n + 1) + 1]
    <3>1. n + 1 \in 1 .. Len(b) /\ n + 1 < (n + 1) + 1
      BY <1>1, <2>1
    <3>2. b[n + 1] < b[(n + 1) + 1]
      BY <2>1, <3>1 DEF Rises
    <3>3. b[1] + n <= b[n + 1]
      BY <1>3, <3>1
    <3>. QED BY <1>1, <2>1, <3>1, <3>2, <3>3
  <2>. QED BY <2>1
<1>. HIDE DEF S
<1>4. \A n \in Nat : n \in S
  BY <1>2, <1>3, Induction
<1>5. Len(b) - 1 \in Nat /\ (Len(b) - 1) + 1 = Len(b) /\ Len(b) \in 1 .. Len(b) /\ 1 \in 1 .. Len(b)
  BY <1>1
<1>6. b[1] + (Len(b) - 1) <= b[Len(b)]
  BY <1>4, <1>5 DEF S
<1>. QED BY <1>1, <1>5, <1>6

\* A trunk on its own, and two trunks.
Timely(t) ==
  /\ t \in TrunkRec /\ t.body # <<>> /\ Rises(t.body) /\ Len(t.body) <= WavMax
  /\ \A q \in Range(t.body) : q \in 1 .. t.ts

Spaced(T) ==
  /\ \A t \in T : Timely(t)
  /\ \A r, s \in T : r # s => Precedes(r, s) \/ Precedes(s, r)
  /\ \A r, s \in T : r # s /\ Precedes(r, s) => \A p \in Range(s.body) : r.ts < p + Backlog

LEMMA TimelyIs ==
  ASSUME NEW t, Timely(t)
  PROVE  /\ t.ts \in Nat /\ t.ordinal \in Nat /\ t.body \in Seq(Nat) /\ Len(t.body) \in Nat \ {0}
         /\ t.body[1] \in Nat \ {0} /\ t.body[1] \in Range(t.body)
         /\ t.body[Len(t.body)] \in Range(t.body) /\ t.body[Len(t.body)] \in Nat
         /\ t.body[Len(t.body)] <= t.ts
         /\ t.body[1] + Len(t.body) <= t.body[Len(t.body)] + 1
<1>1. t.ts \in Nat /\ t.ordinal \in Nat /\ t.body \in Seq(Nat) /\ t.body # <<>> /\ Rises(t.body)
  BY DEF Timely, TrunkRec
<1>2. Len(t.body) \in Nat \ {0}
  BY <1>1, EmptySeq, LenProperties
<1>3. /\ t.body[1] + Len(t.body) <= t.body[Len(t.body)] + 1
      /\ t.body[1] \in Range(t.body) /\ t.body[Len(t.body)] \in Range(t.body)
  BY <1>1, RisesSpan
<1>4. t.body[1] \in 1 .. t.ts /\ t.body[Len(t.body)] \in 1 .. t.ts
  BY <1>3 DEF Timely
<1>. QED BY <1>1, <1>2, <1>3, <1>4

Sorted(cs, n) == \A i, j \in 1 .. n : i < j => SortsBefore(cs[i], cs[j])

\* Trunks of one session that begin up to a quantum are finitely many and can be sorted.
LEMMA Sortable ==
  ASSUME NEW T, Spaced(T), \A r, s \in T : r.session = s.session, AudioAssumption
  PROVE  \A n \in Nat : \A U \in SUBSET {t \in T : t.body[1] <= n} :
           /\ IsFiniteSet(U) /\ Cardinality(U) \in Nat
           /\ \E cs \in [1 .. Cardinality(U) -> U] : Sorted(cs, Cardinality(U))
<1>. DEFINE S == {n \in Nat : \A U \in SUBSET {t \in T : t.body[1] <= n} :
           /\ IsFiniteSet(U) /\ Cardinality(U) \in Nat
           /\ \E cs \in [1 .. Cardinality(U) -> U] : Sorted(cs, Cardinality(U))}
<1>1. \A t \in T : t.body[1] \in Nat \ {0} /\ t.body[1] \in Range(t.body)
  BY TimelyIs DEF Spaced
<1>2. 0 \in S
  <2>1. {t \in T : t.body[1] <= 0} = {}
    BY <1>1
  <2>2. IsFiniteSet({}) /\ Cardinality({}) = 0
    BY FS_EmptySet
  <2>3. \E cs \in [1 .. 0 -> {}] : Sorted(cs, 0)
    <3>1. [i \in 1 .. 0 |-> i] \in [1 .. 0 -> {}] /\ Sorted([i \in 1 .. 0 |-> i], 0)
      BY DEF Sorted
    <3>. QED BY <3>1
  <2>4. \A U \in SUBSET {t \in T : t.body[1] <= 0} : U = {}
    BY <2>1
  <2>5. /\ IsFiniteSet({}) /\ Cardinality({}) \in Nat
        /\ \E cs \in [1 .. Cardinality({}) -> {}] : Sorted(cs, Cardinality({}))
    <3>1. PICK z : z = Cardinality({})
      OBVIOUS
    <3>2. z = 0
      BY <2>2, <3>1
    <3>3. z \in Nat /\ \E cs \in [1 .. z -> {}] : Sorted(cs, z)
      BY <2>3, <3>2
    <3>. QED BY <2>2, <3>1, <3>3
  <2>. QED BY <2>4, <2>5
<1>3. ASSUME NEW n \in Nat, n \in S PROVE n + 1 \in S
  <2>. SUFFICES ASSUME NEW U \in SUBSET {t \in T : t.body[1] <= n + 1}
                PROVE  /\ IsFiniteSet(U) /\ Cardinality(U) \in Nat
                       /\ \E cs \in [1 .. Cardinality(U) -> U] : Sorted(cs, Cardinality(U))
    OBVIOUS
  <2>. DEFINE V == {t \in U : t.body[1] <= n}
  <2>1. PICK c : c = Cardinality(V)
    OBVIOUS
  <2>2. /\ IsFiniteSet(V) /\ c \in Nat /\ V \subseteq U /\ U \subseteq T
        /\ \E cs \in [1 .. c -> V] : Sorted(cs, c)
    BY <1>3, <2>1
  <2>3. CASE U = V
    BY <2>1, <2>2, <2>3
  <2>4. CASE U # V
    <3>1. PICK t \in U : t \notin V
      BY <2>2, <2>4
    <3>2. t.body[1] = n + 1 /\ t \in T
      BY <1>1, <3>1
    <3>3. \A u \in U : u # t => Precedes(u, t) /\ u \in V
      <4>1. ASSUME NEW u \in U, u # t PROVE Precedes(u, t) /\ u \in V
        <5>1. Precedes(u, t) \/ Precedes(t, u)
          BY <2>2, <3>2, <4>1 DEF Spaced
        <5>2. u.body[1] \in Nat /\ u.body[1] <= n + 1 /\ u.body[1] \in Range(u.body) /\ t.body[1] \in Range(t.body)
          BY <1>1, <2>2, <3>2, <4>1
        <5>3. ~Precedes(t, u)
          BY <3>2, <5>2 DEF Precedes
        <5>4. u.body[1] < n + 1
          BY <3>2, <5>1, <5>2, <5>3 DEF Precedes
        <5>. QED BY <4>1, <5>1, <5>2, <5>3, <5>4
      <4>. QED BY <4>1
    <3>4. U = V \cup {t} /\ t \notin V
      BY <2>2, <3>1, <3>3
    <3>5. IsFiniteSet(U) /\ Cardinality(U) = c + 1
      <4>. HIDE DEF V
      <4>1. IsFiniteSet(V \cup {t}) /\ Cardinality(V \cup {t}) = Cardinality(V) + 1
        BY <2>2, <3>4, FS_AddElement
      <4>. QED BY <2>1, <3>4, <4>1
    <3>6. PICK cs \in [1 .. c -> V] : Sorted(cs, c)
      BY <2>2
    <3>. DEFINE ds == [i \in 1 .. c + 1 |-> IF i = c + 1 THEN t ELSE cs[i]]
    <3>7. \A i \in 1 .. c + 1 : i = c + 1 \/ (i \in 1 .. c /\ cs[i] \in V)
      BY <2>2, <3>6
    <3>8. ds \in [1 .. c + 1 -> U]
      BY <3>4, <3>7
    <3>9. \A u \in V : SortsBefore(u, t)
      <4>1. ASSUME NEW u \in V PROVE SortsBefore(u, t)
        <5>1. Precedes(u, t) /\ u \in T
          BY <2>2, <3>1, <3>3, <4>1
        <5>2. u.session = t.session /\ Timely(u) /\ Timely(t)
          BY <3>2, <5>1 DEF Spaced
        <5>3. u.ts \in Nat /\ t.ts \in Nat /\ u.ts <= t.ts /\ u.ordinal < t.ordinal
          BY <5>1, <5>2, TimelyIs DEF Precedes
        <5>. QED BY <5>3 DEF SortsBefore
      <4>. QED BY <4>1
    <3>10. Sorted(ds, c + 1)
      <4>1. ASSUME NEW i \in 1 .. c + 1, NEW j \in 1 .. c + 1, i < j PROVE SortsBefore(ds[i], ds[j])
        <5>1. i \in 1 .. c /\ ds[i] = cs[i] /\ cs[i] \in V
          BY <2>2, <3>7, <4>1
        <5>2. CASE j = c + 1
          BY <3>9, <5>1, <5>2
        <5>3. CASE j # c + 1
          <6>1. j \in 1 .. c /\ ds[j] = cs[j]
            BY <2>2, <4>1, <5>3
          <6>. QED BY <3>6, <4>1, <5>1, <6>1 DEF Sorted
        <5>. QED BY <5>2, <5>3
      <4>. QED BY <4>1 DEF Sorted
    <3>. HIDE DEF ds
    <3>. QED BY <2>2, <3>5, <3>8, <3>10
  <2>. QED BY <2>3, <2>4
<1>. HIDE DEF S
<1>4. \A n \in Nat : n \in S
  BY <1>2, <1>3, Induction
<1>. QED BY <1>4 DEF S

\* The ends of the segments.
Reached(cs, n, e) ==
  /\ e[0] = 0
  /\ \A i \in 1 .. n :
       e[i] = (IF cs[i].ts - cs[1].ts > e[i - 1] THEN cs[i].ts - cs[1].ts ELSE e[i - 1]) + Len(cs[i].body)

Ordered(cs, n) ==
  \A i \in 1 .. n : /\ cs[i].ts \in Nat /\ cs[1].ts \in Nat /\ cs[1].ts <= cs[i].ts
                    /\ Len(cs[i].body) \in Nat

LEMMA EndsExist ==
  ASSUME NEW cs, NEW n \in Nat, Ordered(cs, n)
  PROVE  \E e \in [0 .. n -> Nat] : Reached(cs, n, e)
<1>. DEFINE S == {k \in Nat : k <= n => \E e \in [0 .. k -> Nat] : Reached(cs, k, e)}
<1>1. 0 \in S
  <2>1. /\ [i \in 0 .. 0 |-> 0] \in [0 .. 0 -> Nat] /\ Reached(cs, 0, [i \in 0 .. 0 |-> 0])
    BY DEF Reached
  <2>. QED BY <2>1
<1>2. ASSUME NEW k \in Nat, k \in S PROVE k + 1 \in S
  <2>. SUFFICES ASSUME k + 1 <= n PROVE \E e \in [0 .. k + 1 -> Nat] : Reached(cs, k + 1, e)
    OBVIOUS
  <2>1. PICK e \in [0 .. k -> Nat] : Reached(cs, k, e)
    BY <1>2
  <2>2. PICK raw : raw = cs[k + 1].ts - cs[1].ts
    OBVIOUS
  <2>3. PICK x : x = (IF raw > e[k] THEN raw ELSE e[k]) + Len(cs[k + 1].body)
    OBVIOUS
  <2>4. raw \in Nat /\ Len(cs[k + 1].body) \in Nat /\ e[k] \in Nat
    <3>1. k + 1 \in 1 .. n /\ k \in 0 .. k
      OBVIOUS
    <3>2. cs[k + 1].ts \in Nat /\ cs[1].ts \in Nat /\ cs[1].ts <= cs[k + 1].ts /\ Len(cs[k + 1].body) \in Nat
      BY <3>1 DEF Ordered
    <3>. QED BY <2>1, <2>2, <3>1, <3>2
  <2>5. x \in Nat
    BY <2>3, <2>4
  <2>. DEFINE f == [i \in 0 .. k + 1 |-> IF i = k + 1 THEN x ELSE e[i]]
  <2>6. \A i \in 0 .. k + 1 : i = k + 1 \/ i \in 0 .. k
    OBVIOUS
  <2>7. f \in [0 .. k + 1 -> Nat]
    BY <2>1, <2>5, <2>6
  <2>8. /\ \A i \in 0 .. k : f[i] = e[i]
        /\ f[k + 1] = x
    OBVIOUS
  <2>. HIDE DEF f
  <2>9. ASSUME NEW i \in 1 .. k + 1
        PROVE  f[i] = (IF cs[i].ts - cs[1].ts > f[i - 1] THEN cs[i].ts - cs[1].ts ELSE f[i - 1]) + Len(cs[i].body)
    <3>1. CASE i = k + 1
      <4>1. i - 1 = k /\ k \in 0 .. k
        BY <3>1
      <4>2. f[i - 1] = e[k] /\ f[i] = x
        BY <2>8, <3>1, <4>1
      <4>. QED BY <2>2, <2>3, <3>1, <4>2, Zenon
    <3>2. CASE i # k + 1
      <4>1. i \in 1 .. k /\ i \in 0 .. k /\ i - 1 \in 0 .. k
        BY <3>2
      <4>2. f[i] = e[i] /\ f[i - 1] = e[i - 1]
        BY <2>8, <4>1
      <4>3. e[i] = (IF cs[i].ts - cs[1].ts > e[i - 1] THEN cs[i].ts - cs[1].ts ELSE e[i - 1]) + Len(cs[i].body)
        BY <2>1, <4>1 DEF Reached
      <4>. QED BY <4>2, <4>3, Zenon
    <3>. QED BY <3>1, <3>2
  <2>10. f[0] = 0
    <3>1. 0 \in 0 .. k
      OBVIOUS
    <3>. QED BY <2>1, <2>8, <3>1 DEF Reached
  <2>. QED BY <2>7, <2>9, <2>10 DEF Reached
<1>. HIDE DEF S
<1>3. \A k \in Nat : k \in S
  BY <1>1, <1>2, Induction
<1>4. n \in S /\ n <= n
  BY <1>3
<1>. QED BY <1>4 DEF S

LEMMA EndsAre ==
  ASSUME NEW cs, NEW n \in Nat, Len(cs) = n, Ordered(cs, n)
  PROVE  Reached(cs, n, Ends(cs)) /\ \A i \in 0 .. n : Ends(cs)[i] \in Nat
<1>1. PICK e \in [0 .. n -> Nat] : Reached(cs, n, e)
  BY EndsExist
<1>2. \A i \in 0 .. n : i = 0 \/ i \in 1 .. n
  OBVIOUS
<1>3. e = [i \in 0 .. n |->
             IF i = 0 THEN 0
             ELSE (IF cs[i].ts - cs[1].ts > e[i - 1] THEN cs[i].ts - cs[1].ts ELSE e[i - 1]) + Len(cs[i].body)]
  <2>1. \A i \in 0 .. n :
          e[i] = IF i = 0 THEN 0
                 ELSE (IF cs[i].ts - cs[1].ts > e[i - 1] THEN cs[i].ts - cs[1].ts ELSE e[i - 1]) + Len(cs[i].body)
    BY <1>1, <1>2, Zenon DEF Reached
  <2>. QED BY <1>1, <2>1, Zenon
<1>4. PICK f : f = Ends(cs)
  OBVIOUS
<1>5. f = [i \in 0 .. n |->
             IF i = 0 THEN 0
             ELSE (IF cs[i].ts - cs[1].ts > f[i - 1] THEN cs[i].ts - cs[1].ts ELSE f[i - 1]) + Len(cs[i].body)]
  BY <1>3, <1>4, Zenon DEF Ends
<1>6. Reached(cs, n, f)
  <2>1. \A i \in 1 .. n : i \in 0 .. n /\ i # 0
    OBVIOUS
  <2>2. 0 \in 0 .. n
    OBVIOUS
  <2>. QED BY <1>5, <2>1, <2>2, Zenon DEF Reached
<1>. DEFINE S == {k \in Nat : k <= n => f[k] \in Nat}
<1>7. 0 \in S
  BY <1>6 DEF Reached
<1>8. ASSUME NEW k \in Nat, k \in S PROVE k + 1 \in S
  <2>1. ASSUME k + 1 <= n PROVE f[k + 1] \in Nat
    <3>1. k + 1 \in 1 .. n /\ (k + 1) - 1 = k /\ f[k] \in Nat
      BY <1>8, <2>1
    <3>2. f[k + 1] = (IF cs[k + 1].ts - cs[1].ts > f[k] THEN cs[k + 1].ts - cs[1].ts ELSE f[k]) + Len(cs[k + 1].body)
      BY <1>6, <3>1 DEF Reached
    <3>3. cs[k + 1].ts \in Nat /\ cs[1].ts \in Nat /\ cs[1].ts <= cs[k + 1].ts /\ Len(cs[k + 1].body) \in Nat
      BY <3>1 DEF Ordered
    <3>4. PICK raw : raw = cs[k + 1].ts - cs[1].ts
      OBVIOUS
    <3>5. raw \in Nat
      BY <3>3, <3>4
    <3>6. f[k + 1] = (IF raw > f[k] THEN raw ELSE f[k]) + Len(cs[k + 1].body)
      BY <3>2, <3>4, Zenon
    <3>. QED BY <3>1, <3>3, <3>5, <3>6
  <2>. QED BY <2>1
<1>. HIDE DEF S
<1>9. \A k \in Nat : k \in S
  BY <1>7, <1>8, Induction
<1>. QED BY <1>4, <1>6, <1>9 DEF S

\* The segments of the trunks T, whatever T was left by the transcriber.
LEMMA ExportFits ==
  ASSUME NEW T, Spaced(T), \A r, s \in T : r.session = s.session, T # {}, AudioAssumption,
         NEW m \in Nat, \A t \in T : t.body[1] <= m
  PROVE  LET segs == Segments(T) IN
           /\ segs[1].start = 0
           /\ \A i \in DOMAIN segs :
                LET offset == segs[i].chunk.ts - segs[1].chunk.ts IN
                  /\ segs[i].start >= offset
                  /\ i > 1 => segs[i].start >= segs[i - 1].end
                  /\ segs[i].end <= offset + WavMax + Backlog
<1>1. PICK n : n = Cardinality(T)
  OBVIOUS
<1>2. /\ IsFiniteSet(T) /\ n \in Nat /\ \E cs \in [1 .. n -> T] : Sorted(cs, n)
  <2>1. T \in SUBSET {t \in T : t.body[1] <= m}
    OBVIOUS
  <2>. QED BY <1>1, <2>1, Sortable
<1>3. n # 0
  BY <1>1, <1>2, FS_EmptySet
<1>4. PICK cs : cs = Chunks(T)
  OBVIOUS
<1>5. cs \in [1 .. n -> T] /\ Sorted(cs, n)
  <2>1. \E fs \in [1 .. n -> T] : \A i, j \in DOMAIN fs : i < j => SortsBefore(fs[i], fs[j])
    BY <1>2 DEF Sorted
  <2>2. cs = CHOOSE fs \in [1 .. n -> T] : \A i, j \in DOMAIN fs : i < j => SortsBefore(fs[i], fs[j])
    BY <1>1, <1>4 DEF Chunks
  <2>3. cs \in [1 .. n -> T] /\ \A i, j \in DOMAIN cs : i < j => SortsBefore(cs[i], cs[j])
    BY <2>1, <2>2
  <2>. QED BY <2>3 DEF Sorted
<1>6. Len(cs) = n
  BY <1>2, <1>5
<1>7. \A i \in 1 .. n : cs[i] \in T /\ Timely(cs[i]) /\ 1 \in 1 .. n
  BY <1>2, <1>3, <1>5 DEF Spaced
<1>t. \A i \in 1 .. n : /\ cs[i].ts \in Nat /\ Len(cs[i].body) \in Nat /\ Len(cs[i].body) <= WavMax
        /\ cs[i].body[1] \in Nat /\ cs[i].body[Len(cs[i].body)] \in Nat
        /\ cs[i].body[1] \in Range(cs[i].body) /\ cs[i].body[Len(cs[i].body)] \in Range(cs[i].body)
        /\ cs[i].body[Len(cs[i].body)] <= cs[i].ts
        /\ cs[i].body[1] + Len(cs[i].body) <= cs[i].body[Len(cs[i].body)] + 1
  BY <1>7, TimelyIs DEF Timely
\* The trunks were heard in the order they are sorted in.
<1>8. ASSUME NEW i \in 1 .. n, NEW j \in 1 .. n, i < j
      PROVE  cs[i] # cs[j] /\ Precedes(cs[i], cs[j])
  <2>1. SortsBefore(cs[i], cs[j])
    BY <1>5, <1>8 DEF Sorted
  <2>2. /\ cs[i] \in T /\ cs[j] \in T /\ Timely(cs[i]) /\ Timely(cs[j])
    BY <1>7
  <2>3. /\ cs[i].ts \in Nat /\ cs[j].ts \in Nat /\ cs[i].ordinal \in Nat /\ cs[j].ordinal \in Nat
    BY <2>2, TimelyIs
  <2>4. cs[i] # cs[j]
    BY <2>1, <2>3 DEF SortsBefore
  <2>5. Precedes(cs[i], cs[j]) \/ Precedes(cs[j], cs[i])
    BY <2>2, <2>4 DEF Spaced
  <2>6. ~Precedes(cs[j], cs[i])
    <3>1. cs[i].session = cs[j].session
      BY <2>2
    <3>. QED BY <2>1, <2>3, <3>1 DEF SortsBefore, Precedes
  <2>. QED BY <2>4, <2>5, <2>6
<1>9. ASSUME NEW i \in 1 .. n, NEW j \in 1 .. n, i < j
      PROVE  /\ cs[i].ts <= cs[j].ts /\ cs[i].ts < cs[j].body[1] + Backlog
             /\ cs[i].body[Len(cs[i].body)] < cs[j].body[1]
  <2>1. cs[i] # cs[j] /\ Precedes(cs[i], cs[j]) /\ cs[i] \in T /\ cs[j] \in T
    BY <1>7, <1>8, <1>9
  <2>2. cs[j].body[1] \in Range(cs[j].body) /\ cs[i].body[Len(cs[i].body)] \in Range(cs[i].body)
    BY <1>t
  <2>. QED BY <2>1, <2>2 DEF Spaced, Precedes
<1>10. Ordered(cs, n)
  <2>1. ASSUME NEW i \in 1 .. n PROVE cs[1].ts <= cs[i].ts
    <3>1. 1 \in 1 .. n /\ (i = 1 \/ 1 < i)
      BY <1>2, <2>1
    <3>. QED BY <1>9, <1>t, <3>1
  <2>. QED BY <1>7, <1>t, <2>1 DEF Ordered
<1>11. PICK e : e = Ends(cs)
  OBVIOUS
<1>12. Reached(cs, n, e) /\ \A i \in 0 .. n : e[i] \in Nat
  BY <1>2, <1>6, <1>10, <1>11, EndsAre
<1>13. WavMax \in Nat /\ Backlog \in Nat
  BY DEF AudioAssumption
<1>. DEFINE offset(i) == cs[i].ts - cs[1].ts
            start(i) == IF offset(i) > e[i - 1] THEN offset(i) ELSE e[i - 1]
<1>14. ASSUME NEW i \in 1 .. n
       PROVE  /\ offset(i) \in Nat /\ e[i] \in Nat /\ e[i - 1] \in Nat
              /\ e[i] = start(i) + Len(cs[i].body)
  <2>1. i \in 0 .. n /\ i - 1 \in 0 .. n /\ 1 \in 1 .. n
    BY <1>2
  <2>2. cs[1].ts \in Nat /\ cs[i].ts \in Nat /\ cs[1].ts <= cs[i].ts
    BY <1>10, <2>1 DEF Ordered
  <2>3. e[i] \in Nat /\ e[i - 1] \in Nat
    BY <1>12, <2>1
  <2>4. e[i] = (IF cs[i].ts - cs[1].ts > e[i - 1] THEN cs[i].ts - cs[1].ts ELSE e[i - 1]) + Len(cs[i].body)
    BY <1>12 DEF Reached
  <2>. QED BY <2>2, <2>3, <2>4
\* A segment ends within a trunk and the backlog of its trunk's offset, and before
\* the next trunk began by as much.
<1>. DEFINE Bounded(i) ==
              /\ e[i] <= offset(i) + WavMax + Backlog
              /\ \A j \in 1 .. n : i < j => cs[1].ts + e[i] < cs[j].body[1] + WavMax + Backlog
            S == {k \in Nat : k + 1 \in 1 .. n => Bounded(k + 1)}
<1>15. \A i \in 1 .. n : (i = 1 \/ (i - 1 \in 1 .. n /\ Bounded(i - 1))) => Bounded(i)
  <2>. SUFFICES ASSUME NEW i \in 1 .. n, i = 1 \/ (i - 1 \in 1 .. n /\ Bounded(i - 1)) PROVE Bounded(i)
    OBVIOUS
  <2>0. /\ cs[1].ts \in Nat /\ cs[i].ts \in Nat /\ Len(cs[i].body) \in Nat /\ Len(cs[i].body) <= WavMax
        /\ cs[i].body[1] \in Nat /\ cs[i].body[Len(cs[i].body)] \in Nat
        /\ cs[i].body[Len(cs[i].body)] <= cs[i].ts
        /\ cs[i].body[1] + Len(cs[i].body) <= cs[i].body[Len(cs[i].body)] + 1
    BY <1>7, <1>t
  <2>1. /\ offset(i) \in Nat /\ e[i] \in Nat /\ e[i - 1] \in Nat /\ e[i] = start(i) + Len(cs[i].body)
        /\ cs[1].ts + offset(i) = cs[i].ts
    <3>1. \A a, b \in Nat : a + (b - a) = b
      OBVIOUS
    <3>2. cs[1].ts + (cs[i].ts - cs[1].ts) = cs[i].ts
      BY <2>0, <3>1, Zenon
    <3>. QED BY <1>14, <3>2, Zenon
  <2>2. ASSUME NEW j \in 1 .. n, i < j
        PROVE  /\ cs[i].ts < cs[j].body[1] + Backlog /\ cs[i].body[Len(cs[i].body)] < cs[j].body[1]
               /\ cs[j].body[1] \in Nat
    BY <1>9, <1>t, <2>2
  <2>. DEFINE o == offset(i)
              x == e[i - 1]
              l == Len(cs[i].body)
              a == cs[i].body[1]
              z == cs[i].body[Len(cs[i].body)]
              t == cs[i].ts
              t1 == cs[1].ts
              y == e[i]
  <2>3. /\ {o, x, l, a, z, t, t1, y} \subseteq Nat /\ l <= WavMax /\ z <= t /\ a + l <= z + 1
        /\ t1 + o = t
    BY <2>0, <2>1
  <2>4. y = (IF o > x THEN o ELSE x) + l
    BY <2>1
  <2>. HIDE DEF start
  <2>5. CASE o > x \/ o = x
    <3>. HIDE DEF o, x, l, a, z, t, t1, y
    <3>1. y = o + l
      BY <2>3, <2>4, <2>5
    <3>2. y <= o + WavMax + Backlog
      BY <1>13, <2>3, <3>1
    <3>3. ASSUME NEW j \in 1 .. n, i < j PROVE t1 + y < cs[j].body[1] + WavMax + Backlog
      <4>1. t < cs[j].body[1] + Backlog /\ cs[j].body[1] \in Nat
        BY <2>2, <3>3 DEF t
      <4>. QED BY <1>13, <2>3, <3>1, <4>1
    <3>. QED BY <3>2, <3>3 DEF o, y, t1
  <2>6. CASE o < x
    <3>1. i # 1
      <4>1. i = 1 => o = 0 /\ x = 0
        BY <1>12, <2>3 DEF Reached
      <4>. QED BY <2>6, <4>1
    <3>2. t1 + x < a + WavMax + Backlog
      <4>1. Bounded(i - 1) /\ i - 1 < i
        BY <3>1
      <4>. QED BY <4>1
    <3>. HIDE DEF o, x, l, a, z, t, t1, y
    <3>3. y = x + l
      BY <2>3, <2>4, <2>6
    <3>4. t1 + y < a + l + WavMax + Backlog
      BY <1>13, <2>3, <3>2, <3>3
    <3>5. t1 + y <= z + WavMax + Backlog
      BY <1>13, <2>3, <3>4
    <3>6. y <= o + WavMax + Backlog
      BY <1>13, <2>3, <3>5
    <3>7. ASSUME NEW j \in 1 .. n, i < j PROVE t1 + y < cs[j].body[1] + WavMax + Backlog
      <4>1. z < cs[j].body[1] /\ cs[j].body[1] \in Nat
        BY <2>2, <3>7 DEF z
      <4>. QED BY <1>13, <2>3, <3>5, <4>1
    <3>. QED BY <3>6, <3>7 DEF o, y, t1
  <2>7. o > x \/ o = x \/ o < x
    <3>1. o \in Nat /\ x \in Nat
      BY <2>3
    <3>. HIDE DEF o, x
    <3>. QED BY <3>1
  <2>. QED BY <2>5, <2>6, <2>7
<1>16. \A i \in 1 .. n : Bounded(i)
  <2>. HIDE DEF Bounded
  <2>1. 0 \in S
    BY <1>15
  <2>2. ASSUME NEW k \in Nat, k \in S PROVE k + 1 \in S
    <3>1. ASSUME (k + 1) + 1 \in 1 .. n PROVE Bounded((k + 1) + 1)
      <4>1. k + 1 \in 1 .. n /\ ((k + 1) + 1) - 1 = k + 1
        BY <1>2, <3>1
      <4>2. Bounded(k + 1)
        BY <2>2, <4>1
      <4>. QED BY <1>15, <3>1, <4>1, <4>2
    <3>. QED BY <3>1
  <2>. HIDE DEF S
  <2>3. \A k \in Nat : k \in S
    BY <2>1, <2>2, Induction
  <2>4. ASSUME NEW i \in 1 .. n PROVE Bounded(i)
    <3>1. i - 1 \in Nat /\ (i - 1) + 1 = i
      BY <2>4
    <3>2. i - 1 \in S
      BY <2>3, <3>1
    <3>. QED BY <2>4, <3>1, <3>2 DEF S
  <2>. QED BY <2>4
<1>17. PICK segs : segs = Segments(T)
  OBVIOUS
<1>18. segs = [i \in 1 .. n |-> [chunk |-> cs[i], start |-> e[i] - Len(cs[i].body), end |-> e[i]]]
  BY <1>4, <1>6, <1>11, <1>17, Zenon DEF Segments
<1>19. DOMAIN segs = 1 .. n
  BY <1>18
<1>20. ASSUME NEW i \in 1 .. n
       PROVE  segs[i].chunk = cs[i] /\ segs[i].end = e[i] /\ segs[i].start = start(i)
  <2>1. segs[i].chunk = cs[i] /\ segs[i].end = e[i] /\ segs[i].start = e[i] - Len(cs[i].body)
    BY <1>18
  <2>2. e[i] - Len(cs[i].body) = start(i)
    <3>1. start(i) \in Nat /\ Len(cs[i].body) \in Nat /\ e[i] = start(i) + Len(cs[i].body)
      BY <1>14, <1>t
    <3>. HIDE DEF start
    <3>. QED BY <3>1
  <2>. QED BY <2>1, <2>2
<1>21. segs[1].start = 0
  <2>1. 1 \in 1 .. n /\ offset(1) = 0 /\ e[0] = 0
    BY <1>7, <1>t, <1>12, <1>2, <1>3 DEF Reached
  <2>. QED BY <1>20, <2>1
<1>22. ASSUME NEW i \in 1 .. n
       PROVE  /\ segs[i].start >= segs[i].chunk.ts - segs[1].chunk.ts
              /\ i > 1 => segs[i].start >= segs[i - 1].end
              /\ segs[i].end <= (segs[i].chunk.ts - segs[1].chunk.ts) + WavMax + Backlog
  <2>1. 1 \in 1 .. n /\ (i > 1 => i - 1 \in 1 .. n)
    BY <1>2
  <2>2. segs[i].chunk.ts - segs[1].chunk.ts = offset(i) /\ (i > 1 => segs[i - 1].end = e[i - 1])
    BY <1>20, <2>1
  <2>3. offset(i) \in Nat /\ e[i - 1] \in Nat
    BY <1>14
  <2>4. start(i) >= offset(i) /\ start(i) >= e[i - 1]
    <3>. HIDE DEF offset
    <3>. QED BY <2>3
  <2>. QED BY <1>16, <1>20, <2>2, <2>4
<1>. QED BY <1>17, <1>19, <1>21, <1>22

\* What the orchestrator holds was heard in that order.
LineUp(m) ==
  /\ Rises(m.trunk) /\ Rises(m.pending) /\ Rises(m.preroll)
  /\ \A a \in Range(m.trunk), b \in Range(m.pending) : a < b

\* Trunks T were flushed when the microphone was at k, the loop at l: what is heard after a
\* trunk was flushed is heard less than the backlog before the trunk's timestamp.
Drifts(m, T, k, l) ==
  /\ k \in Nat /\ l \in Nat /\ l <= k /\ k <= l + Backlog
  /\ LineUp(m)
  /\ \A t \in T : /\ Timely(t) /\ t.ts <= l + Backlog
                  /\ \A p \in Line(m) : t.ts < p + Backlog
  /\ \A r, s \in T : r # s /\ Precedes(r, s) => \A p \in Range(s.body) : r.ts < p + Backlog

DriftInv == Drifts(mic, chunks \cup Range(drained), clock, Len(heard))

LEMMA JoinRises ==
  ASSUME NEW s \in Seq(Nat), NEW t \in Seq(Nat), Rises(s), Rises(t),
         \A a \in Range(s), b \in Range(t) : a < b
  PROVE  Rises(s \o t)
<1>1. /\ s \o t \in Seq(Nat) /\ Len(s \o t) = Len(s) + Len(t) /\ Len(s) \in Nat /\ Len(t) \in Nat
      /\ (\A i \in 1 .. Len(s) : (s \o t)[i] = s[i])
      /\ (\A i \in 1 .. Len(t) : (s \o t)[Len(s) + i] = t[i])
  BY Joined
<1>2. ASSUME NEW i \in 1 .. Len(s \o t)
      PROVE  \/ i \in 1 .. Len(s) /\ (s \o t)[i] = s[i]
             \/ i - Len(s) \in 1 .. Len(t) /\ (s \o t)[i] = t[i - Len(s)]
  <2>1. CASE i <= Len(s)
    BY <1>1, <2>1
  <2>2. CASE ~(i <= Len(s))
    <3>1. i - Len(s) \in 1 .. Len(t) /\ Len(s) + (i - Len(s)) = i
      BY <1>1, <2>2
    <3>. QED BY <1>1, <3>1
  <2>. QED BY <2>1, <2>2
<1>3. /\ \A i \in 1 .. Len(s) : s[i] \in Range(s)
      /\ \A i \in 1 .. Len(t) : t[i] \in Range(t)
  BY RangeIs
<1>4. ASSUME NEW i \in 1 .. Len(s \o t), NEW j \in 1 .. Len(s \o t), i < j
      PROVE  (s \o t)[i] < (s \o t)[j]
  <2>1. CASE i \in 1 .. Len(s) /\ j \in 1 .. Len(s)
    BY <1>1, <1>4, <2>1 DEF Rises
  <2>2. CASE i \in 1 .. Len(s) /\ j - Len(s) \in 1 .. Len(t)
    <3>1. (s \o t)[i] = s[i]
      BY <1>1, <2>2
    <3>2. (s \o t)[j] = t[j - Len(s)]
      <4>1. j \notin 1 .. Len(s)
        BY <1>1, <2>2
      <4>. QED BY <1>2, <4>1
    <3>. QED BY <1>3, <2>2, <3>1, <3>2
  <2>3. CASE i - Len(s) \in 1 .. Len(t) /\ j - Len(s) \in 1 .. Len(t)
    <3>1. (s \o t)[i] = t[i - Len(s)] /\ (s \o t)[j] = t[j - Len(s)]
      <4>1. i \notin 1 .. Len(s) /\ j \notin 1 .. Len(s)
        BY <1>1, <2>3
      <4>. QED BY <1>2, <4>1
    <3>2. i - Len(s) < j - Len(s)
      BY <1>1, <1>4
    <3>. QED BY <2>3, <3>1, <3>2 DEF Rises
  <2>4. ~(i - Len(s) \in 1 .. Len(t) /\ j \in 1 .. Len(s))
    BY <1>1, <1>4
  <2>. QED BY <1>2, <2>1, <2>2, <2>3, <2>4
<1>. QED BY <1>4 DEF Rises

LEMMA LastNRises ==
  ASSUME NEW s \in Seq(Nat), Rises(s), NEW n \in Nat
  PROVE  Rises(LastN(s, n))
<1>. DEFINE f == IF Len(s) > n THEN Len(s) - n + 1 ELSE 1
<1>1. Len(s) \in Nat /\ f \in 1 .. Len(s) + 1 /\ f \in Int /\ \A i \in f .. Len(s) : s[i] \in Nat
  BY LenProperties, ElementOfSeq
<1>2. /\ SubSeq(s, f, Len(s)) \in Seq(Nat)
      /\ Len(SubSeq(s, f, Len(s))) = IF f <= Len(s) THEN Len(s) - f + 1 ELSE 0
      /\ \A i \in 1 .. Len(s) - f + 1 : SubSeq(s, f, Len(s))[i] = s[f + i - 1]
  BY <1>1, SubSeqProperties
<1>3. LastN(s, n) = SubSeq(s, f, Len(s))
  BY DEF LastN
<1>. HIDE DEF f
<1>4. \A i \in 1 .. Len(LastN(s, n)) :
        i \in 1 .. Len(s) - f + 1 /\ f + i - 1 \in 1 .. Len(s) /\ LastN(s, n)[i] = s[f + i - 1]
  BY <1>1, <1>2, <1>3
<1>5. ASSUME NEW i \in 1 .. Len(LastN(s, n)), NEW j \in 1 .. Len(LastN(s, n)), i < j
      PROVE  LastN(s, n)[i] < LastN(s, n)[j]
  <2>1. f + i - 1 < f + j - 1
    <3>1. i \in Int /\ j \in Int
      BY <1>1, <1>4
    <3>. QED BY <1>1, <1>5, <3>1
  <2>. QED BY <1>4, <2>1 DEF Rises
<1>. QED BY <1>5 DEF Rises

LEMMA AppendRises ==
  ASSUME NEW s \in Seq(Nat), Rises(s), NEW q \in Nat, \A a \in Range(s) : a < q
  PROVE  Rises(Append(s, q)) /\ s \o <<q>> = Append(s, q)
<1>1. PICK S : S = Nat
  OBVIOUS
<1>2. PICK v : v = <<q>>
  OBVIOUS
<1>3. v \in Seq(S) /\ Len(v) = 1 /\ v[1] = q /\ Range(v) = {q}
  BY <1>1, <1>2, SingleIs
<1>4. v \in Seq(Nat) /\ Rises(v)
  BY <1>1, <1>3 DEF Rises
<1>5. Rises(s \o v)
  BY <1>3, <1>4, JoinRises
<1>6. s \o <<q>> = Append(s, q)
  BY AppendIs
<1>. QED BY <1>2, <1>5, <1>6

\* One more quantum in the line.
LEMMA TakesInLine ==
  ASSUME AudioAssumption, NEW m \in MicRec, LineUp(m), NEW q \in Nat, \A p \in Line(m) : p < q,
         m.trunk = <<>> => m.pending = <<>>, m.trunk # <<>> => m.preroll = <<>>,
         NEW w, Takes(m, w, q)
  PROVE  LineUp(w) /\ Line(w) \subseteq Line(m) \cup {q}
<1>1. m.trunk \in Seq(Nat) /\ m.pending \in Seq(Nat) /\ m.preroll \in Seq(Nat) /\ <<>> \in Seq(Nat)
  BY NoneIs DEF MicRec
<1>2. Rises(<<>>) /\ Range(<<>>) = {}
  BY NoneIs DEF Rises
<1>3. CASE w = m
  BY <1>3
<1>4. CASE w = WithVoice(m, q)
  <2>1. PICK e : e = IF m.trunk = <<>> THEN m.preroll ELSE m.trunk
    OBVIOUS
  <2>2. e \in Seq(Nat) /\ Rises(e) /\ Range(e) \subseteq Line(m)
    BY <1>1, <2>1 DEF LineUp, Line
  <2>3. \A a \in Range(e), b \in Range(m.pending) : a < b
    BY <1>2, <2>1 DEF LineUp
  <2>4. PICK u : u = e \o m.pending
    OBVIOUS
  <2>5. u \in Seq(Nat) /\ Range(u) = Range(e) \cup Range(m.pending)
    BY <1>1, <2>2, <2>4, Joined
  <2>6. Rises(u)
    BY <1>1, <2>2, <2>3, <2>4, JoinRises DEF LineUp
  <2>7. \A a \in Range(u) : a < q /\ a \in Line(m)
    BY <2>2, <2>5 DEF Line
  <2>8. Rises(Append(u, q)) /\ u \o <<q>> = Append(u, q)
    BY <2>5, <2>6, <2>7, AppendRises
  <2>9. Range(Append(u, q)) = Range(u) \cup {q}
    BY <2>5, Queued
  <2>10. /\ w.trunk = u \o <<q>> /\ w.pending = <<>>
         /\ w.preroll = IF m.trunk = <<>> THEN <<>> ELSE m.preroll
    BY <1>4, <2>1, <2>4 DEF WithVoice, MicRec
  <2>11. w.trunk = Append(u, q) /\ w.pending = <<>> /\ w.preroll = <<>>
    BY <2>8, <2>10
  <2>. QED BY <1>2, <2>7, <2>8, <2>9, <2>11 DEF LineUp, Line
<1>5. CASE w = WithPreRoll(m, q) /\ m.trunk = <<>>
  <2>1. PICK u : u = Append(m.preroll, q)
    OBVIOUS
  <2>2. \A a \in Range(m.preroll) : a < q
    BY DEF Line
  <2>3. Rises(u) /\ u \in Seq(Nat) /\ Range(u) = Range(m.preroll) \cup {q}
    BY <1>1, <2>1, <2>2, AppendRises, Queued DEF LineUp
  <2>4. PreRoll \in Nat
    BY DEF AudioAssumption
  <2>5. Rises(LastN(u, PreRoll)) /\ Range(LastN(u, PreRoll)) \subseteq Range(u)
    BY <2>3, <2>4, LastNRises, LastNIs
  <2>6. w.trunk = m.trunk /\ w.pending = m.pending /\ w.preroll = LastN(u, PreRoll)
    BY <1>5, <2>1 DEF WithPreRoll, MicRec
  <2>. QED BY <2>3, <2>5, <2>6 DEF LineUp, Line
<1>6. CASE w = WithSilence(m, q) /\ m.trunk # <<>>
  <2>1. PICK u : u = Append(m.pending, q)
    OBVIOUS
  <2>2. \A a \in Range(m.pending) \cup Range(m.trunk) : a < q
    BY DEF Line
  <2>3. Rises(u) /\ u \in Seq(Nat) /\ Range(u) = Range(m.pending) \cup {q}
    BY <1>1, <2>1, <2>2, AppendRises, Queued DEF LineUp
  <2>4. w.trunk = m.trunk /\ w.pending = u /\ w.preroll = m.preroll
    BY <1>6, <2>1 DEF WithSilence, MicRec
  <2>. QED BY <2>2, <2>3, <2>4 DEF LineUp, Line
<1>. QED BY <1>3, <1>4, <1>5, <1>6 DEF Takes

\* Steps that flush nothing.
LEMMA DriftKept ==
  ASSUME AudioAssumption, NEW m, NEW T, NEW k, NEW l, Drifts(m, T, k, l),
         NEW m2, LineUp(m2), NEW T2, T2 \subseteq T, NEW k2 \in Nat, NEW l2 \in Nat,
         l <= l2, l2 <= k2, k2 <= l2 + Backlog,
         \A p \in Line(m2) : p \in Nat /\ (p \in Line(m) \/ p > l)
  PROVE  Drifts(m2, T2, k2, l2)
<1>1. /\ l \in Nat /\ Backlog \in Nat
      /\ \A t \in T : /\ Timely(t) /\ t.ts <= l + Backlog
                      /\ \A p \in Line(m) : t.ts < p + Backlog
      /\ \A r, s \in T : r # s /\ Precedes(r, s) => \A p \in Range(s.body) : r.ts < p + Backlog
  BY DEF Drifts, AudioAssumption
<1>2. ASSUME NEW t \in T2 PROVE t.ts <= l2 + Backlog
  <2>1. t.ts \in Nat /\ t.ts <= l + Backlog
    BY <1>1, TimelyIs
  <2>. QED BY <1>1, <2>1
<1>3. ASSUME NEW t \in T2, NEW p \in Line(m2) PROVE t.ts < p + Backlog
  <2>1. t.ts \in Nat /\ t.ts <= l + Backlog
    BY <1>1, TimelyIs
  <2>2. p \in Nat /\ (t.ts < p + Backlog \/ p > l)
    BY <1>1
  <2>. QED BY <1>1, <2>1, <2>2
<1>. QED BY <1>1, <1>2, <1>3 DEF Drifts

LEMMA TrunkTyped ==
  ASSUME AudioAssumption, clock \in Nat, NEW w \in MicRec
  PROVE  Trunk(w) \in TrunkRec
<1>1. w.trunk \in Seq(Nat) /\ w.pending \in Seq(Nat) /\ w.ordinal + 1 \in Nat /\ w.session \in Nat /\ Padding \in Nat
  BY DEF MicRec, AudioAssumption
<1>2. PICK y : y = LastN(w.pending, Padding)
  OBVIOUS
<1>3. y \in Seq(Nat)
  BY <1>1, <1>2, LastNIs
<1>4. Body(w) \in Seq(Nat)
  BY <1>1, <1>2, <1>3, Joined DEF Body
<1>. QED BY <1>1, <1>4 DEF Trunk, TrunkRec

\* A trunk is flushed.
LEMMA DriftCut ==
  ASSUME AudioAssumption, NEW w, NEW h, NEW o, NEW n, NEW d, NEW c, NEW x,
         Fits(w, h, o, n, clock, d, c, x), NEW T, T = c \cup Range(d),
         NEW l, l = Len(h), Drifts(w, T, clock, l), Emits(w),
         NEW v, LineUp(v), Line(v) = {}
  PROVE  Drifts(v, T \cup {Trunk(w)}, clock, l)
<1>1. /\ l \in Nat /\ Backlog \in Nat /\ clock \in Nat /\ l <= clock /\ clock <= l + Backlog /\ LineUp(w)
      /\ \A t \in T : /\ Timely(t) /\ t.ts <= l + Backlog
                      /\ \A p \in Line(w) : t.ts < p + Backlog
      /\ \A r, s \in T : r # s /\ Precedes(r, s) => \A p \in Range(s.body) : r.ts < p + Backlog
  BY DEF Drifts, AudioAssumption
<1>2. /\ w \in MicRec /\ w.trunk # <<>> /\ Len(Body(w)) <= WavMax
      /\ \A q \in Line(w) : q \in 1 .. l
  BY DEF Emits, Flushable, Fits, MicFits
<1>3. w.trunk \in Seq(Nat) /\ w.pending \in Seq(Nat) /\ w.ordinal \in Nat /\ w.session \in Nat /\ Padding \in Nat
  BY <1>2 DEF MicRec, AudioAssumption
<1>4. PICK y : y = LastN(w.pending, Padding)
  OBVIOUS
<1>5. y \in Seq(Nat) /\ Rises(y) /\ Range(y) \subseteq Range(w.pending)
  BY <1>1, <1>3, <1>4, LastNIs, LastNRises DEF LineUp
<1>6. PICK b : b = Body(w)
  OBVIOUS
<1>7. /\ b \in Seq(Nat) /\ Range(b) = Range(w.trunk) \cup Range(y)
      /\ Len(b) = Len(w.trunk) + Len(y) /\ Len(y) \in Nat /\ Len(w.trunk) \in Nat
  BY <1>3, <1>4, <1>5, <1>6, Joined DEF Body
<1>8. Rises(b)
  <2>1. \A i \in Range(w.trunk), j \in Range(y) : i < j
    BY <1>1, <1>5 DEF LineUp
  <2>. QED BY <1>1, <1>3, <1>4, <1>5, <1>6, <2>1, JoinRises DEF Body, LineUp
<1>9. b # <<>>
  <2>1. Len(w.trunk) # 0
    BY <1>2, <1>3, EmptySeq
  <2>. QED BY <1>7, <2>1, NoneIs
<1>10. Range(b) \subseteq Line(w)
  BY <1>5, <1>7 DEF Line
<1>11. PICK t : t = Trunk(w)
  OBVIOUS
<1>12. t = [session |-> w.session, ordinal |-> w.ordinal + 1, body |-> b, ts |-> clock]
  BY <1>6, <1>11 DEF Trunk
<1>13. t.body = b /\ t.ts = clock /\ t \in TrunkRec
  <2>1. t.body = b /\ t.ts = clock
    BY <1>12
  <2>2. clock \in Nat /\ w \in MicRec
    BY <1>1, <1>2
  <2>3. t \in TrunkRec
    BY <1>11, <2>2, TrunkTyped
  <2>. QED BY <2>1, <2>3
<1>14. Timely(t)
  <2>1. \A q \in Range(b) : q \in 1 .. clock
    BY <1>1, <1>2, <1>10
  <2>. QED BY <1>2, <1>6, <1>8, <1>9, <1>13, <2>1 DEF Timely
<1>15. \A r \in T : \A q \in Range(r.body), p \in Range(b) : q < p /\ q \in Nat /\ p \in Nat
  <2>1. ASSUME NEW r \in T, NEW q \in Range(r.body), NEW p \in Range(b)
        PROVE  q < p /\ q \in Nat /\ p \in Nat
    <3>1. CutFits(r, w, h, o, n, clock)
      BY DEF Fits
    <3>2. p \in Line(w) /\ p \in Nat
      BY <1>2, <1>10, <2>1
    <3>. QED BY <2>1, <3>1, <3>2 DEF CutFits
  <2>. QED BY <2>1
<1>16. ASSUME NEW r \in T PROVE ~Precedes(t, r)
  <2>1. r.body[1] \in Range(r.body) /\ b[1] \in Range(b)
    BY <1>1, <1>13, <1>14, TimelyIs
  <2>2. r.body[1] < b[1] /\ r.body[1] \in Nat /\ b[1] \in Nat
    BY <1>15, <2>1
  <2>3. ~(b[1] < r.body[1])
    BY <2>2
  <2>. QED BY <1>13, <2>1, <2>3 DEF Precedes
<1>17. \A r \in T : \A p \in Range(b) : r.ts < p + Backlog
  BY <1>1, <1>10
<1>18. ASSUME NEW r \in T \cup {t}, NEW s \in T \cup {t}, r # s, Precedes(r, s), NEW p \in Range(s.body)
       PROVE  r.ts < p + Backlog
  BY <1>1, <1>13, <1>16, <1>17, <1>18
<1>19. \A s \in T \cup {t} : Timely(s) /\ s.ts <= l + Backlog
  BY <1>1, <1>13, <1>14
<1>. QED BY <1>1, <1>11, <1>18, <1>19 DEF Drifts

LEMMA ChunkDrift ==
  ASSUME AudioAssumption, VoiceInv, DriftInv, NEW voice \in BOOLEAN, OnChunk(voice)
  PROVE  DriftInv'
<1>1. PICK m, w : \E flush, close \in BOOLEAN : Turns(m, w, flush, close)
  BY OnChunkTurns
<1>2. PICK flush \in BOOLEAN, close \in BOOLEAN : Turns(m, w, flush, close)
  BY <1>1
<1>3. PICK t : t = Turn(w, flush, close)
  OBVIOUS
<1>4. PICK g, q : g = heard' /\ q = Len(heard) + 1
  OBVIOUS
<1>5. /\ m \in MicRec
      /\ m.trunk = mic.trunk /\ m.pending = mic.pending /\ m.preroll = mic.preroll
      /\ \E e : Hears(g, heard, q, e)
      /\ Takes(m, w, q)
      /\ Fits(w, g, rolled', sids', clock, drained, chunks, lostQuanta)
      /\ flush => Flushable(w)
      /\ mic' = t.mic /\ drained' = drained \o t.out
      /\ clock' = clock /\ chunks' = chunks
  BY <1>2, <1>3, <1>4 DEF Turns
<1>6. Len(g) = q /\ q \in Nat /\ Len(heard) \in Nat /\ q = Len(heard) + 1
  BY <1>5 DEF Hears
<1>7. Len(heard) < clock
  BY DEF OnChunk
<1>8. PICK T : T = chunks \cup Range(drained)
  OBVIOUS
<1>9. Drifts(mic, T, clock, Len(heard)) /\ clock \in Nat /\ clock <= Len(heard) + Backlog /\ LineUp(mic)
  BY <1>8 DEF DriftInv, Drifts
<1>10. /\ mic \in MicRec /\ drained \in Seq(TrunkRec)
       /\ (mic.trunk = <<>> => mic.pending = <<>>) /\ (mic.trunk # <<>> => mic.preroll = <<>>)
       /\ \A p \in Line(mic) : p \in 1 .. Len(heard)
  BY DEF VoiceInv, Fits, MicFits
<1>11. LineUp(w) /\ Line(w) \subseteq Line(mic) \cup {q}
  <2>1. Line(m) = Line(mic) /\ LineUp(m)
    BY <1>5, <1>9 DEF Line, LineUp
  <2>2. m \in MicRec
    BY <1>5
  <2>3. \A p \in Line(m) : p < q
    BY <1>6, <1>10, <2>1
  <2>. QED BY <1>5, <1>6, <1>10, <2>1, <2>2, <2>3, TakesInLine
<1>12. Drifts(w, T, clock, q)
  <2>1. \A p \in Line(w) : p \in Nat /\ (p \in Line(mic) \/ p > Len(heard))
    BY <1>6, <1>10, <1>11
  <2>2. Len(heard) <= q /\ q <= clock /\ clock <= q + Backlog /\ T \subseteq T
    BY <1>6, <1>7, <1>9 DEF AudioAssumption
  <2>. QED BY <1>6, <1>9, <1>11, <2>1, <2>2, DriftKept
<1>13. Drifts(mic', chunks' \cup Range(drained'), clock', q)
  <2>1. CASE ~flush
    <3>1. t.mic = (IF close THEN Closed(w) ELSE w) /\ t.out = <<>>
      BY <1>3, <2>1 DEF Turn
    <3>2. drained' = drained
      BY <1>5, <1>10, <3>1, ConcatEmptySeq
    <3>3. mic'.trunk = w.trunk /\ mic'.pending = w.pending /\ mic'.preroll = w.preroll
      BY <1>5, <3>1 DEF Closed, Fits, MicFits, MicRec
    <3>4. Line(mic') = Line(w) /\ LineUp(mic')
      BY <1>11, <3>3 DEF Line, LineUp
    <3>. QED BY <1>5, <1>8, <1>12, <3>2, <3>4 DEF Drifts
  <2>2. CASE flush
    <3>1. PICK f : f = Flushed(w)
      OBVIOUS
    <3>2. w \in MicRec /\ Flushable(w) /\ w.preroll = <<>>
      BY <1>5, <2>2 DEF Fits, MicFits, Flushable
    <3>3. f.trunk = <<>> /\ f.pending = <<>> /\ f.preroll = <<>>
      BY <3>1, <3>2 DEF Flushed, MicRec
    <3>4. t.mic = (IF close THEN Closed(f) ELSE f) /\ t.out = Emitted(w)
      BY <1>3, <2>2, <3>1 DEF Turn
    <3>5. f \in MicRec
      <4>1. w.ordinal + 1 \in Nat /\ <<>> \in Seq(Nat)
        BY <3>2, NoneIs DEF MicRec
      <4>2. f = [w EXCEPT !.trunk = <<>>, !.pending = <<>>, !.ordinal = w.ordinal + 1]
        BY <3>1, <3>2 DEF Flushed
      <4>. QED BY <3>2, <4>1, <4>2 DEF MicRec
    <3>6. mic'.trunk = <<>> /\ mic'.pending = <<>> /\ mic'.preroll = <<>>
      BY <1>5, <3>3, <3>4, <3>5 DEF Closed, MicRec
    <3>7. Line(mic') = {} /\ LineUp(mic')
      BY <3>6, NoneIs DEF Line, LineUp, Rises
    <3>8. CASE Emits(w)
      <4>1. PICK r : r = Trunk(w)
        OBVIOUS
      <4>2. r \in TrunkRec
        BY <1>9, <3>2, <4>1, TrunkTyped
      <4>3. PICK y : y = <<r>>
        OBVIOUS
      <4>4. y \in Seq(TrunkRec) /\ Range(y) = {r}
        BY <4>2, <4>3, SingleIs
      <4>5. drained' = drained \o y
        BY <1>5, <3>4, <3>8, <4>1, <4>3 DEF Emitted
      <4>6. Range(drained') = Range(drained) \cup {r}
        BY <1>10, <4>4, <4>5, Joined
      <4>7. Drifts(mic', T \cup {r}, clock, q)
        BY <1>5, <1>6, <1>8, <1>12, <3>7, <3>8, <4>1, DriftCut
      <4>8. chunks' \cup Range(drained') = T \cup {r}
        BY <1>5, <1>8, <4>6
      <4>. QED BY <1>5, <4>7, <4>8
    <3>9. CASE ~Emits(w)
      <4>1. drained' = drained
        BY <1>5, <1>10, <3>4, <3>9, ConcatEmptySeq DEF Emitted
      <4>2. chunks' \cup Range(drained') = T
        BY <1>5, <1>8, <4>1
      <4>. QED BY <1>5, <1>12, <3>7, <4>2 DEF Drifts
    <3>. QED BY <3>8, <3>9
  <2>. QED BY <2>1, <2>2
<1>14. Drifts(mic', chunks' \cup Range(drained'), clock', Len(heard'))
  BY <1>4, <1>6, <1>13
<1>. QED BY <1>14 DEF DriftInv, Drifts, LineUp, Line, Timely, Rises, Precedes

LEMMA HeadAndTail ==
  ASSUME NEW S, NEW s \in Seq(S), s # <<>>
  PROVE  Head(s) \in Range(s) /\ Range(Tail(s)) \subseteq Range(s)
<1>1. PICK t : t = Tail(s)
  OBVIOUS
<1>2. /\ t \in Seq(S) /\ Len(s) \in Nat \ {0} /\ Len(t) = Len(s) - 1 /\ Head(s) = s[1]
      /\ \A i \in 1 .. Len(t) : t[i] = s[i + 1]
  BY <1>1, HeadTailProperties, LenProperties, EmptySeq
<1>3. Head(s) \in Range(s)
  BY <1>2, RangeIs
<1>4. ASSUME NEW x \in Range(t) PROVE x \in Range(s)
  <2>1. PICK i \in 1 .. Len(t) : x = t[i]
    BY <1>2, <1>4, RangeIs
  <2>2. i + 1 \in 1 .. Len(s) /\ x = s[i + 1]
    BY <1>2, <2>1
  <2>. QED BY <2>2, RangeIs
<1>. QED BY <1>1, <1>3, <1>4

LEMMA DriftInductive == AudioSpec => []DriftInv
<1>1. AudioInit => DriftInv
  <2>. SUFFICES ASSUME AudioInit PROVE DriftInv
    OBVIOUS
  <2>1. mic = Fresh /\ chunks \cup Range(drained) = {} /\ clock = 0 /\ Len(heard) = 0
    BY NoneIs DEF AudioInit
  <2>2. LineUp(Fresh)
    BY NoneIs DEF LineUp, Rises, Fresh
  <2>3. Drifts(Fresh, {}, 0, 0)
    BY <2>2, AudioAssumption DEF Drifts, AudioAssumption
  <2>. QED BY <2>1, <2>3 DEF DriftInv
<1>2. ASSUME VoiceInv, DriftInv, [AudioNext]_audioVars PROVE DriftInv'
  <2>1. /\ mic \in MicRec /\ drained \in Seq(TrunkRec) /\ clock \in Nat /\ Len(heard) \in Nat /\ Backlog \in Nat
        /\ (ear = "storing" => drained # <<>>)
        /\ \A p \in Line(mic) : p \in Nat
    BY <1>2, AudioAssumption, LenProperties DEF VoiceInv, Fits, MicFits, AudioAssumption
  <2>2. PICK T : T = chunks \cup Range(drained)
    OBVIOUS
  <2>3. Drifts(mic, T, clock, Len(heard)) /\ LineUp(mic) /\ Len(heard) <= clock /\ clock <= Len(heard) + Backlog
    BY <1>2, <2>2 DEF DriftInv, Drifts
  <2>4. ASSUME Drifts(mic', chunks' \cup Range(drained'), clock', Len(heard')) PROVE DriftInv'
    BY <2>4 DEF DriftInv, Drifts, LineUp, Line, Timely, Rises, Precedes
  \* Steps at which the line is as it was or is let go, and nothing is flushed.
  <2>5. ASSUME \/ mic'.trunk = mic.trunk /\ mic'.pending = mic.pending /\ mic'.preroll = mic.preroll
               \/ mic' = Fresh,
               chunks' \cup Range(drained') \subseteq T, heard' = heard, clock' \in Nat,
               Len(heard) <= clock', clock' <= Len(heard) + Backlog
        PROVE  DriftInv'
    <3>1. CASE mic' = Fresh
      <4>1. LineUp(mic') /\ Line(mic') = {}
        BY <3>1, NoneIs DEF LineUp, Line, Rises, Fresh
      <4>2. Drifts(mic', chunks' \cup Range(drained'), clock', Len(heard'))
        BY <2>1, <2>3, <2>5, <4>1, AudioAssumption, DriftKept
      <4>. QED BY <2>4, <4>2
    <3>2. CASE mic' # Fresh
      <4>1. LineUp(mic') /\ Line(mic') = Line(mic)
        BY <2>3, <2>5, <3>2 DEF LineUp, Line
      <4>2. Drifts(mic', chunks' \cup Range(drained'), clock', Len(heard'))
        BY <2>1, <2>3, <2>5, <4>1, AudioAssumption, DriftKept
      <4>. QED BY <2>4, <4>2
    <3>. QED BY <3>1, <3>2
  <2>6. CASE Deliver
    <3>1. clock' = clock + 1 /\ clock - Len(heard) < Backlog /\ UNCHANGED <<heard, mic, drained, chunks>>
      BY <2>6 DEF Deliver
    <3>2. clock' \in Nat /\ Len(heard) <= clock' /\ clock' <= Len(heard) + Backlog
      BY <2>1, <2>3, <3>1
    <3>. QED BY <2>2, <2>5, <3>1, <3>2
  <2>7. CASE SessionLasts \/ Poll \/ EndDrain \/ UNCHANGED audioVars
    <3>1. UNCHANGED <<heard, clock, drained, chunks>>
      BY <2>7 DEF SessionLasts, Poll, EndDrain, audioVars
    <3>2. mic'.trunk = mic.trunk /\ mic'.pending = mic.pending /\ mic'.preroll = mic.preroll
      BY <2>1, <2>7 DEF SessionLasts, Poll, EndDrain, Closed, MicRec, audioVars
    <3>. QED BY <2>1, <2>2, <2>3, <2>5, <3>1, <3>2
  <2>8. CASE Disconnect
    BY <2>1, <2>2, <2>3, <2>5, <2>8, NoneIs DEF Disconnect
  <2>9. ASSUME NEW ok \in BOOLEAN, PersistTrunk(ok) PROVE DriftInv'
    <3>1. UNCHANGED <<clock, heard, mic>> /\ drained # <<>>
      BY <2>1, <2>9 DEF PersistTrunk
    <3>2. Head(drained) \in Range(drained) /\ Range(Tail(drained)) \subseteq Range(drained)
      BY <2>1, <3>1, HeadAndTail
    <3>3. chunks' \cup Range(drained') \subseteq T
      BY <2>2, <2>9, <3>2 DEF PersistTrunk
    <3>. QED BY <2>1, <2>3, <2>5, <3>1, <3>3
  <2>10. ASSUME NEW ok \in BOOLEAN, Cancel(ok) PROVE DriftInv'
    <3>1. mic' = Fresh /\ UNCHANGED <<clock, heard, drained>>
      BY <2>10 DEF Cancel
    <3>2. CASE ok /\ Emits(mic)
      <4>1. LineUp(mic') /\ Line(mic') = {}
        BY <3>1, NoneIs DEF LineUp, Line, Rises, Fresh
      <4>2. PICK l : l = Len(heard)
        OBVIOUS
      <4>3. PICK r : r = Trunk(mic)
        OBVIOUS
      <4>4. Fits(mic, heard, rolled, sids, clock, drained, chunks, lostQuanta)
        BY <1>2 DEF VoiceInv
      <4>5. Drifts(mic', T \cup {r}, clock, l)
        BY <2>2, <2>3, <3>2, <4>1, <4>2, <4>3, <4>4, AudioAssumption, DriftCut
      <4>6. chunks' = chunks \cup {r}
        <5>1. r \in TrunkRec
          BY <2>1, <4>3, AudioAssumption, TrunkTyped
        <5>2. PICK y : y = <<r>>
          OBVIOUS
        <5>3. Range(y) = {r}
          BY <5>1, <5>2, SingleIs
        <5>. QED BY <2>10, <3>2, <4>3, <5>2, <5>3 DEF Cancel, Emitted
      <4>7. chunks' \cup Range(drained') = T \cup {r}
        BY <2>2, <3>1, <4>6
      <4>. QED BY <2>4, <3>1, <4>2, <4>5, <4>7
    <3>3. CASE ~(ok /\ Emits(mic))
      <4>1. chunks' = chunks
        BY <2>10, <3>3, NoneIs DEF Cancel, Emitted
      <4>. QED BY <2>1, <2>2, <2>3, <2>5, <3>1, <4>1
    <3>. QED BY <3>2, <3>3
  <2>. QED BY <1>2, <2>6, <2>7, <2>8, <2>9, <2>10, AudioAssumption, ChunkDrift DEF AudioNext, AudioRest
<1>. QED BY <1>1, <1>2, VoiceInductive, PTL DEF AudioSpec

\* Whatever part of a session was transcribed, its exported segments follow each other and
\* none is later than its trunk by more than a trunk and the backlog.
THEOREM DriftBounded == AudioSpec => []ExportDriftBounded
<1>1. VoiceInv /\ DriftInv => ExportDriftBounded
  <2>. SUFFICES ASSUME VoiceInv, DriftInv,
                       NEW T \in SUBSET chunks, T # {}, \A r, s \in T : r.session = s.session
                PROVE  LET segs == Segments(T) IN
                         /\ segs[1].start = 0
                         /\ \A i \in DOMAIN segs :
                              LET offset == segs[i].chunk.ts - segs[1].chunk.ts IN
                                /\ segs[i].start >= offset
                                /\ i > 1 => segs[i].start >= segs[i - 1].end
                                /\ segs[i].end <= offset + WavMax + Backlog
    BY DEF ExportDriftBounded
  <2>1. Spaced(T)
    BY DEF VoiceInv, Fits, InOrder, DriftInv, Drifts, Spaced
  <2>2. Len(heard) \in Nat /\ \A t \in T : t.body[1] <= Len(heard)
    <3>1. heard \in Seq(HeardRec)
      BY DEF VoiceInv, Fits
    <3>2. Len(heard) \in Nat
      BY <3>1, LenProperties
    <3>3. ASSUME NEW t \in T PROVE t.body[1] <= Len(heard)
      <4>1. t.body[1] \in Range(t.body)
        BY <2>1, TimelyIs DEF Spaced
      <4>2. t.body[1] \in 1 .. Len(heard)
        BY <4>1 DEF VoiceInv, Fits, CutFits
      <4>. QED BY <3>2, <4>2
    <3>. QED BY <3>2, <3>3
  <2>. QED BY <2>1, <2>2, AudioAssumption, ExportFits
<1>. QED BY <1>1, VoiceInductive, DriftInductive, PTL

-----------------------------------------------------------------------------
(* The keyboard and the mouse.  Whatever the tap gave out before the n-th  *)
(* press is in an event, in the text or the drag that is open, or given    *)
(* up; what comes after is on the tap or in the hand of the input task.    *)

PressKinds == {input.kind : input \in Inputs}
Presses == [id : Nat, kind : PressKinds, button : {input.button : input \in Inputs},
            at : {input.at : input \in Inputs}]
Contexts   == [place : Windows, session : Nat]
Keys       == [id : Nat, ctx : Contexts]
MouseKinds == {"click", "menu", "drag"}
HidEvents ==
  [kind : {"text"}, of : Seq(Keys), ctx : Contexts]
  \cup [kind : MouseKinds \cup {"submit", "shortcut", "selection"}, of : Seq(Presses), ctx : Contexts]
Coalescers == [text : Seq(Keys), ctx : Contexts, drag : Seq(Presses), out : Seq(HidEvents)]

HidType ==
  /\ settings \in [observe : BOOLEAN, text : BOOLEAN]
  /\ owners \in Seq({AppOf(place) : place \in Windows}) /\ open \in 0 .. Len(owners)
  /\ tap \in Seq(Presses) /\ pressed \in Seq(PressKinds)
  /\ task \in [at : {"waiting", "locking", "pushing"}, raw : Seq(Presses), ctx : Contexts, typed : BOOLEAN]
  /\ coal \in Coalescers /\ kept \in Seq(HidEvents) /\ dropped \subseteq Nat

\* The queue holds the presses after the n-th, in order.
Follows(w, q, n) == \A i \in DOMAIN q : q[i].id = n + i /\ q[i].id \in DOMAIN w.pressed /\ q[i].kind = w.pressed[q[i].id]

\* The window of the context was let through, and its session is of its app.
Placed(w, ctx) ==
  /\ ctx.session \in DOMAIN w.owners /\ w.owners[ctx.session] = AppOf(ctx.place)
  /\ AppOf(ctx.place) \notin HidBlocked /\ (ctx.place = NoPlace => HidBlocked = {})

Made(e) ==
  IF e.kind = "text" THEN {"key"} ELSE IF Mouse(e) THEN {"down", "up"} ELSE {"submit", "shortcut"}

Rising(s) == \A i, j \in DOMAIN s : i < j => s[i].id < s[j].id

\* An event made of the first n presses.
Good(w, e, n) ==
  /\ Placed(w, e.ctx)
  /\ \A a \in Ids(e.of) : a \in 1 .. n /\ w.pressed[a] \in Made(e)
  /\ e.kind = "text" => Rising(e.of) /\ \A i \in DOMAIN e.of : e.of[i].ctx = e.ctx
  /\ Mouse(e) => Len(e.of) = 2 /\ e.of[1].id < e.of[2].id
  /\ e.kind = "selection" => w.text

AllGood(w, s, n) == \A i \in DOMAIN s : Good(w, s[i], n)

\* Of two texts, or two events of the mouse, the first was over before the second began.
Ahead(e, f) ==
  (e.kind = "text" /\ f.kind = "text") \/ (Mouse(e) /\ Mouse(f)) =>
    \A a \in Ids(e.of), b \in Ids(f.of) : a < b
AllAhead(s) == \A i, j \in DOMAIN s : i < j => Ahead(s[i], s[j])
TheseAhead(s, t) == \A i \in DOMAIN s, j \in DOMAIN t : Ahead(s[i], t[j])

\* The text and the drag that are open began after the events of their sort.
AheadOfOpen(s, c) ==
  \A i \in DOMAIN s :
    /\ s[i].kind = "text" => \A a \in Ids(s[i].of), b \in Ids(c.text) : a < b
    /\ Mouse(s[i]) => \A a \in Ids(s[i].of), b \in Ids(c.drag) : a < b

OpenText(w, c, n) ==
  /\ \A i \in DOMAIN c.text : c.text[i].ctx = c.ctx
  /\ \A a \in Ids(c.text) : a \in 1 .. n /\ w.pressed[a] = "key"
  /\ Rising(c.text)
  /\ c.text # <<>> => Placed(w, c.ctx)

OpenDrag(w, c, n) ==
  /\ c.drag = <<>> \/ Len(c.drag) = 1
  /\ \A a \in Ids(c.drag) : a \in 1 .. n /\ w.pressed[a] = "down"

InTexts(a, s) == \E i \in DOMAIN s : s[i].kind = "text" /\ a \in Ids(s[i].of)

GivenUp(w, c, k, d, n) ==
  \A a \in d : a \in 1 .. n /\ a \notin Ids(c.text) /\ ~InTexts(a, c.out) /\ ~InTexts(a, k)

Somewhere(w, c, k, d, n) ==
  \A a \in 1 .. n : w.pressed[a] = "key" =>
    a \in Ids(c.text) \/ InTexts(a, c.out) \/ InTexts(a, k) \/ a \in d

\* What the coalescer c, the events k and the presses d given up say of the first n.
HidFits(w, c, k, d, n) ==
  /\ OpenText(w, c, n) /\ OpenDrag(w, c, n)
  /\ AllGood(w, c.out, n) /\ AllAhead(c.out) /\ AheadOfOpen(c.out, c)
  /\ AllGood(w, k, n) /\ AllAhead(k) /\ AheadOfOpen(k, c) /\ TheseAhead(k, c.out)
  /\ GivenUp(w, c, k, d, n) /\ Somewhere(w, c, k, d, n)
  /\ ~w.text => \A i \in DOMAIN k : k[i].kind # "text"

Taken == Len(pressed) - Len(tap) - Len(task.raw)

World == [pressed |-> pressed, owners |-> owners, text |-> settings.text]

HidInv ==
  /\ HidType
  /\ Taken \in Nat /\ Follows(World, task.raw, Taken) /\ Follows(World, tap, Taken + Len(task.raw))
  /\ HidFits(World, coal, kept, dropped, Taken)
  /\ task.at = "waiting" => task.raw = <<>>
  /\ task.at # "pushing" => coal.out = <<>>
  /\ task.at = "locking" => task.ctx.place \in Allowed
  /\ task.at = "pushing" /\ task.raw # <<>> => Placed(World, task.ctx)

LEMMA OneAppended ==
  ASSUME NEW S, NEW s \in Seq(S), NEW e \in S
  PROVE  /\ Append(s, e) \in Seq(S) /\ Len(Append(s, e)) = Len(s) + 1 /\ Len(s) \in Nat
         /\ DOMAIN s = 1 .. Len(s) /\ DOMAIN Append(s, e) = 1 .. Len(s) + 1
         /\ \A i \in DOMAIN s : Append(s, e)[i] = s[i]
         /\ Append(s, e)[Len(s) + 1] = e
         /\ Append(s, e) # <<>>
         /\ \A i \in DOMAIN Append(s, e) :
              (i \in DOMAIN s /\ Append(s, e)[i] = s[i]) \/ (i = Len(s) + 1 /\ Append(s, e)[i] = e)
<1>1. /\ Append(s, e) \in Seq(S) /\ Len(Append(s, e)) = Len(s) + 1 /\ Len(s) \in Nat
      /\ DOMAIN s = 1 .. Len(s) /\ DOMAIN Append(s, e) = 1 .. Len(s) + 1
      /\ \A i \in DOMAIN s : Append(s, e)[i] = s[i]
      /\ Append(s, e)[Len(s) + 1] = e
      /\ Append(s, e) # <<>>
  BY AppendProperties, LenProperties
<1>2. ASSUME NEW i \in DOMAIN Append(s, e)
      PROVE  (i \in DOMAIN s /\ Append(s, e)[i] = s[i]) \/ (i = Len(s) + 1 /\ Append(s, e)[i] = e)
  <2>1. i \in DOMAIN s \/ i = Len(s) + 1
    BY <1>1, <1>2
  <2>. QED BY <1>1, <2>1, Zenon
<1>. QED BY <1>1, <1>2, Zenon

LEMMA IdsAppended ==
  ASSUME NEW S, NEW s \in Seq(S), NEW e \in S
  PROVE  Ids(Append(s, e)) = Ids(s) \cup {e.id}
BY OneAppended DEF Ids

LEMMA IdsOfNone == Ids(<<>>) = {} /\ \A r : Ids(<<r>>) = {r.id}
BY DEF Ids

LEMMA IdsOfTwo == \A q, r : Ids(<<q, r>>) = {q.id, r.id}
BY DEF Ids

\* One more event: the coalescer has it after the others of its sort, before what is open.
LEMMA EventFits ==
  ASSUME NEW w, NEW c \in Coalescers, NEW k \in Seq(HidEvents), NEW d \in SUBSET Nat, NEW n \in Nat,
         NEW e \in HidEvents, NEW b \in Coalescers,
         HidFits(w, c, k, d, n), Good(w, e, n),
         b.out = Append(c.out, e), OpenText(w, b, n), OpenDrag(w, b, n),
         Ids(b.text) \subseteq Ids(c.text), Ids(b.drag) \subseteq Ids(c.drag),
         \A i \in DOMAIN c.out : Ahead(c.out[i], e),
         \A i \in DOMAIN k : Ahead(k[i], e),
         e.kind = "text" => Ids(b.text) = {} /\ Ids(e.of) = Ids(c.text),
         e.kind # "text" => Ids(b.text) = Ids(c.text),
         Mouse(e) => Ids(b.drag) = {}
  PROVE  HidFits(w, b, k, d, n)
<1>. DEFINE o == Append(c.out, e)
<1>1. /\ DOMAIN c.out = 1 .. Len(c.out) /\ DOMAIN o = 1 .. Len(c.out) + 1 /\ Len(c.out) \in Nat
      /\ \A i \in DOMAIN c.out : o[i] = c.out[i]
      /\ o[Len(c.out) + 1] = e
      /\ \A i \in DOMAIN o : (i \in DOMAIN c.out /\ o[i] = c.out[i]) \/ (i = Len(c.out) + 1 /\ o[i] = e)
  <2>1. c.out \in Seq(HidEvents)
    BY DEF Coalescers
  <2>. QED BY <2>1, OneAppended
<1>. HIDE DEF o
<1>2. \A i \in DOMAIN o : (i \in DOMAIN c.out /\ o[i] = c.out[i]) \/ (i = Len(c.out) + 1 /\ o[i] = e)
  BY <1>1, Zenon
<1>3. b.out = o
  BY DEF o
<1>4. AllGood(w, o, n)
  BY <1>2 DEF HidFits, AllGood
<1>5. AllAhead(o)
  BY <1>1, <1>2 DEF HidFits, AllAhead
<1>6. AheadOfOpen(o, b)
  <2>1. ASSUME NEW i \in DOMAIN o, i \in DOMAIN c.out, o[i] = c.out[i]
        PROVE  /\ o[i].kind = "text" => \A a \in Ids(o[i].of), x \in Ids(b.text) : a < x
               /\ Mouse(o[i]) => \A a \in Ids(o[i].of), x \in Ids(b.drag) : a < x
    BY <2>1 DEF HidFits, AheadOfOpen
  <2>2. e.kind = "text" => \A a \in Ids(e.of), x \in Ids(b.text) : a < x
    OBVIOUS
  <2>3. Mouse(e) => \A a \in Ids(e.of), x \in Ids(b.drag) : a < x
    OBVIOUS
  <2>4. ASSUME NEW i \in DOMAIN o
        PROVE  /\ o[i].kind = "text" => \A a \in Ids(o[i].of), x \in Ids(b.text) : a < x
               /\ Mouse(o[i]) => \A a \in Ids(o[i].of), x \in Ids(b.drag) : a < x
    <3>1. CASE i \in DOMAIN c.out /\ o[i] = c.out[i]
      BY <2>1, <3>1
    <3>2. CASE o[i] = e
      BY <2>2, <2>3, <3>2, Zenon
    <3>. QED BY <1>2, <3>1, <3>2, Zenon
  <2>. QED BY <2>4, Zenon DEF AheadOfOpen
<1>7. AheadOfOpen(k, b)
  BY DEF HidFits, AheadOfOpen
<1>8. TheseAhead(k, o)
  BY <1>2 DEF HidFits, TheseAhead
<1>9. \A a : InTexts(a, o) <=> InTexts(a, c.out) \/ (e.kind = "text" /\ a \in Ids(e.of))
  <2>1. \A i \in DOMAIN c.out : i \in DOMAIN o /\ o[i] = c.out[i]
    BY <1>1
  <2>2. Len(c.out) + 1 \in DOMAIN o /\ o[Len(c.out) + 1] = e
    BY <1>1
  <2>3. ASSUME NEW a, InTexts(a, o) PROVE InTexts(a, c.out) \/ (e.kind = "text" /\ a \in Ids(e.of))
    BY <1>2, <2>3, Zenon DEF InTexts
  <2>4. ASSUME NEW a, InTexts(a, c.out) PROVE InTexts(a, o)
    BY <2>1, <2>4, Zenon DEF InTexts
  <2>5. ASSUME NEW a, e.kind = "text", a \in Ids(e.of) PROVE InTexts(a, o)
    BY <2>2, <2>5, Zenon DEF InTexts
  <2>. QED BY <2>3, <2>4, <2>5, Zenon
<1>10. GivenUp(w, b, k, d, n)
  BY <1>3, <1>9 DEF HidFits, GivenUp
<1>11. Somewhere(w, b, k, d, n)
  BY <1>3, <1>9 DEF HidFits, Somewhere
<1>. QED BY <1>3, <1>4, <1>5, <1>6, <1>7, <1>8, <1>10, <1>11 DEF HidFits

\* flush_text
LEMMA TextFlushFits ==
  ASSUME NEW w, NEW c \in Coalescers, NEW k \in Seq(HidEvents), NEW d \in SUBSET Nat, NEW n \in Nat,
         HidFits(w, c, k, d, n), HidAssumption
  PROVE  /\ TextFlushed(c) \in Coalescers /\ HidFits(w, TextFlushed(c), k, d, n)
         /\ TextFlushed(c).text = <<>> /\ TextFlushed(c).drag = c.drag
         /\ \A i \in DOMAIN TextFlushed(c).out : (i \in DOMAIN c.out /\ TextFlushed(c).out[i] = c.out[i])
                                              \/ TextFlushed(c).out[i].kind = "text"
<1>1. CASE c.text = <<>>
  BY <1>1 DEF TextFlushed
<1>2. CASE c.text # <<>>
  <2>. DEFINE e == [kind |-> "text", of |-> c.text, ctx |-> c.ctx]
              b == [c EXCEPT !.text = <<>>, !.ctx = NoCtx, !.out = Append(@, e)]
  <2>1. e \in HidEvents /\ e.kind = "text" /\ e.of = c.text /\ e.ctx = c.ctx /\ ~Mouse(e)
    BY DEF HidEvents, Coalescers, Mouse
  <2>2. c.out \in Seq(HidEvents) /\ Append(c.out, e) \in Seq(HidEvents)
    BY <2>1, OneAppended DEF Coalescers
  <2>3. NoCtx \in Contexts
    BY DEF NoCtx, Contexts, Windows
  <2>13. TextFlushed(c) = b
    BY <1>2 DEF TextFlushed
  <2>. HIDE DEF e
  <2>14. <<>> \in Seq(Keys)
    OBVIOUS
  <2>4. /\ b \in Coalescers /\ b.text = <<>> /\ b.drag = c.drag /\ b.out = Append(c.out, e)
    BY <2>2, <2>3, <2>14 DEF Coalescers
  <2>. HIDE DEF b
  <2>5. Good(w, e, n)
    <3>1. OpenText(w, c, n)
      BY DEF HidFits
    <3>. QED BY <1>2, <2>1, <3>1 DEF Good, OpenText, Made
  <2>6. \A i \in DOMAIN c.out : Ahead(c.out[i], e)
    BY <2>1 DEF HidFits, AheadOfOpen, Ahead
  <2>7. \A i \in DOMAIN k : Ahead(k[i], e)
    BY <2>1 DEF HidFits, AheadOfOpen, Ahead
  <2>8. OpenText(w, b, n) /\ Ids(b.text) = {}
    BY <2>4, IdsOfNone DEF OpenText, Rising
  <2>9. OpenDrag(w, b, n)
    BY <2>4 DEF HidFits, OpenDrag
  <2>10. HidFits(w, b, k, d, n)
    BY <2>1, <2>4, <2>5, <2>6, <2>7, <2>8, <2>9, EventFits
  <2>11. \A i \in DOMAIN b.out : (i \in DOMAIN c.out /\ b.out[i] = c.out[i]) \/ b.out[i].kind = "text"
    BY <2>1, <2>2, <2>4, OneAppended
  <2>. QED BY <2>4, <2>10, <2>11, <2>13
<1>. QED BY <1>1, <1>2

\* The (n+1)-th press is handled, and was no character.
LEMMA NextFits ==
  ASSUME NEW w, NEW c \in Coalescers, NEW k \in Seq(HidEvents), NEW d \in SUBSET Nat, NEW n \in Nat,
         HidFits(w, c, k, d, n), w.pressed[n + 1] # "key"
  PROVE  HidFits(w, c, k, d, n + 1)
<1>1. \A a : a \in 1 .. n => a \in 1 .. n + 1
  OBVIOUS
<1>2. \A a \in 1 .. n + 1 : a \in 1 .. n \/ a = n + 1
  OBVIOUS
<1>3. OpenText(w, c, n + 1) /\ OpenDrag(w, c, n + 1)
  BY <1>1 DEF HidFits, OpenText, OpenDrag
<1>4. AllGood(w, c.out, n + 1) /\ AllGood(w, k, n + 1)
  BY <1>1 DEF HidFits, AllGood, Good
<1>5. GivenUp(w, c, k, d, n + 1)
  BY <1>1 DEF HidFits, GivenUp
<1>6. Somewhere(w, c, k, d, n + 1)
  BY <1>2 DEF HidFits, Somewhere
<1>. QED BY <1>3, <1>4, <1>5, <1>6 DEF HidFits

\* push of a character
LEMMA TypedFits ==
  ASSUME NEW w, NEW c \in Coalescers, NEW k \in Seq(HidEvents), NEW d \in SUBSET Nat, NEW n \in Nat,
         HidFits(w, c, k, d, n), HidAssumption,
         NEW r \in Presses, r.id = n + 1, w.pressed[n + 1] = "key",
         NEW ctx \in Contexts, Placed(w, ctx)
  PROVE  Typed(c, r, ctx) \in Coalescers /\ HidFits(w, Typed(c, r, ctx), k, d, n + 1)
<1>. DEFINE f == IF c.ctx # ctx THEN TextFlushed(c) ELSE c
            e == [id |-> r.id, ctx |-> ctx]
            b == [f EXCEPT !.text = Append(@, e), !.ctx = ctx]
<1>1. f \in Coalescers /\ HidFits(w, f, k, d, n) /\ (f.text = <<>> \/ f.ctx = ctx)
  BY TextFlushFits
<1>2. Typed(c, r, ctx) = b
  BY DEF Typed
<1>. HIDE DEF f
<1>3. e \in Keys /\ e.id = n + 1 /\ e.ctx = ctx
  BY DEF Presses, Keys
<1>. HIDE DEF e
<1>4. f.text \in Seq(Keys) /\ Append(f.text, e) \in Seq(Keys)
  BY <1>1, <1>3, OneAppended DEF Coalescers
<1>5. b \in Coalescers /\ b.text = Append(f.text, e) /\ b.ctx = ctx /\ b.drag = f.drag /\ b.out = f.out
  BY <1>1, <1>4 DEF Coalescers
<1>. HIDE DEF b
<1>6. /\ \A i \in DOMAIN b.text : (i \in DOMAIN f.text /\ b.text[i] = f.text[i])
                                 \/ (i = Len(f.text) + 1 /\ b.text[i] = e)
      /\ DOMAIN f.text = 1 .. Len(f.text) /\ Len(f.text) \in Nat
      /\ DOMAIN b.text = 1 .. Len(f.text) + 1
      /\ \A i \in DOMAIN f.text : b.text[i] = f.text[i]
      /\ b.text[Len(f.text) + 1] = e
  BY <1>3, <1>4, <1>5, OneAppended
<1>7. Ids(b.text) = Ids(f.text) \cup {n + 1}
  BY <1>3, <1>4, <1>5, IdsAppended
<1>8. \A a : a \in 1 .. n => a \in 1 .. n + 1
  OBVIOUS
<1>9. \A a \in 1 .. n + 1 : a \in 1 .. n \/ a = n + 1
  OBVIOUS
<1>10. n + 1 \in 1 .. n + 1 /\ n + 1 \notin 1 .. n /\ \A a \in 1 .. n : a < n + 1
  OBVIOUS
<1>11. OpenText(w, b, n + 1)
  <2>1. OpenText(w, f, n) /\ \A a \in Ids(f.text) : a < n + 1
    BY <1>1, <1>10 DEF HidFits, OpenText
  <2>2. \A i \in DOMAIN b.text : b.text[i].ctx = ctx
    <3>1. CASE f.text = <<>>
      BY <1>3, <1>6, <3>1
    <3>2. CASE f.ctx = ctx
      BY <1>3, <1>6, <2>1, <3>2 DEF OpenText
    <3>. QED BY <1>1, <3>1, <3>2
  <2>3. Rising(b.text)
    <3>1. \A i \in DOMAIN f.text : f.text[i].id < n + 1
      BY <2>1 DEF Ids
    <3>2. Rising(f.text)
      BY <2>1 DEF OpenText
    <3>3. ASSUME NEW i \in DOMAIN b.text, NEW j \in DOMAIN b.text, i < j
          PROVE  b.text[i].id < b.text[j].id
      <4>1. i \in DOMAIN f.text /\ b.text[i] = f.text[i]
        BY <1>6, <3>3
      <4>2. CASE j \in DOMAIN f.text /\ b.text[j] = f.text[j]
        BY <3>2, <3>3, <4>1, <4>2 DEF Rising
      <4>3. CASE b.text[j] = e
        BY <1>3, <3>1, <4>1, <4>3
      <4>. QED BY <1>6, <4>2, <4>3
    <3>. QED BY <3>3 DEF Rising
  <2>4. \A a \in Ids(b.text) : a \in 1 .. n + 1 /\ w.pressed[a] = "key"
    BY <1>7, <1>8, <1>10, <2>1 DEF OpenText
  <2>. QED BY <1>5, <2>2, <2>3, <2>4 DEF OpenText
<1>12. OpenDrag(w, b, n + 1)
  BY <1>1, <1>5, <1>8 DEF HidFits, OpenDrag
<1>13. AllGood(w, b.out, n + 1) /\ AllGood(w, k, n + 1)
  BY <1>1, <1>5, <1>8 DEF HidFits, AllGood, Good
<1>14. AheadOfOpen(b.out, b)
  <2>1. AheadOfOpen(f.out, f) /\ AllGood(w, f.out, n)
    BY <1>1 DEF HidFits
  <2>2. \A i \in DOMAIN f.out : \A a \in Ids(f.out[i].of) : a < n + 1
    BY <1>10, <2>1 DEF AllGood, Good
  <2>. QED BY <1>5, <1>7, <2>1, <2>2 DEF AheadOfOpen
<1>15. AheadOfOpen(k, b)
  <2>1. AheadOfOpen(k, f) /\ AllGood(w, k, n)
    BY <1>1 DEF HidFits
  <2>2. \A i \in DOMAIN k : \A a \in Ids(k[i].of) : a < n + 1
    BY <1>10, <2>1 DEF AllGood, Good
  <2>. QED BY <1>5, <1>7, <2>1, <2>2 DEF AheadOfOpen
<1>16. GivenUp(w, b, k, d, n + 1)
  BY <1>1, <1>5, <1>7, <1>8, <1>10 DEF HidFits, GivenUp
<1>17. Somewhere(w, b, k, d, n + 1)
  BY <1>1, <1>5, <1>7, <1>9 DEF HidFits, Somewhere
<1>. QED BY <1>1, <1>2, <1>5, <1>11, <1>12, <1>13, <1>14, <1>15, <1>16, <1>17 DEF HidFits

\* push of a press of the mouse
LEMMA DownFits ==
  ASSUME NEW w, NEW c \in Coalescers, NEW k \in Seq(HidEvents), NEW d \in SUBSET Nat, NEW n \in Nat,
         HidFits(w, c, k, d, n), NEW r \in Presses, r.id = n + 1, w.pressed[n + 1] = "down"
  PROVE  [c EXCEPT !.drag = <<r>>] \in Coalescers /\ HidFits(w, [c EXCEPT !.drag = <<r>>], k, d, n + 1)
<1>. DEFINE b == [c EXCEPT !.drag = <<r>>]
<1>1. HidFits(w, c, k, d, n + 1)
  BY NextFits
<1>9. <<r>> \in Seq(Presses)
  OBVIOUS
<1>2. b \in Coalescers /\ b.text = c.text /\ b.ctx = c.ctx /\ b.out = c.out /\ b.drag = <<r>>
  BY <1>9 DEF Coalescers
<1>. HIDE DEF b
<1>3. Ids(b.drag) = {n + 1} /\ Len(b.drag) = 1
  BY <1>2, IdsOfNone
<1>4. \A a \in 1 .. n : a < n + 1
  OBVIOUS
<1>5. OpenText(w, b, n + 1) /\ OpenDrag(w, b, n + 1)
  BY <1>1, <1>2, <1>3 DEF HidFits, OpenText, OpenDrag
<1>6. AheadOfOpen(b.out, b)
  <2>1. \A i \in DOMAIN c.out : \A a \in Ids(c.out[i].of) : a < n + 1
    BY <1>4 DEF HidFits, AllGood, Good
  <2>. QED BY <1>2, <1>3, <2>1 DEF HidFits, AheadOfOpen
<1>7. AheadOfOpen(k, b)
  <2>1. \A i \in DOMAIN k : \A a \in Ids(k[i].of) : a < n + 1
    BY <1>4 DEF HidFits, AllGood, Good
  <2>. QED BY <1>2, <1>3, <2>1 DEF HidFits, AheadOfOpen
<1>8. GivenUp(w, b, k, d, n + 1) /\ Somewhere(w, b, k, d, n + 1)
  BY <1>1, <1>2 DEF HidFits, GivenUp, Somewhere
<1>10. AllGood(w, b.out, n + 1) /\ AllAhead(b.out) /\ TheseAhead(k, b.out)
  BY <1>1, <1>2 DEF HidFits
<1>11. AllGood(w, k, n + 1) /\ AllAhead(k) /\ (~w.text => \A i \in DOMAIN k : k[i].kind # "text")
  BY <1>1 DEF HidFits
<1>12. HidFits(w, b, k, d, n + 1)
  BY <1>5, <1>6, <1>7, <1>8, <1>10, <1>11 DEF HidFits
<1>. QED BY <1>2, <1>12 DEF b

\* A press that is an event of its own.
LEMMA SingleFits ==
  ASSUME NEW w, NEW c \in Coalescers, NEW k \in Seq(HidEvents), NEW d \in SUBSET Nat, NEW n \in Nat,
         HidFits(w, c, k, d, n), c.text = <<>>, w.pressed[n + 1] \in {"submit", "shortcut"},
         NEW r \in Presses, r.id = n + 1, r.kind = w.pressed[n + 1],
         NEW ctx \in Contexts, Placed(w, ctx)
  PROVE  WithEvent(c, r.kind, <<r>>, ctx) \in Coalescers /\ HidFits(w, WithEvent(c, r.kind, <<r>>, ctx), k, d, n + 1)
<1>. DEFINE e == [kind |-> r.kind, of |-> <<r>>, ctx |-> ctx]
            b == [c EXCEPT !.out = Append(@, e)]
<1>1. e \in HidEvents /\ e.kind = r.kind /\ e.of = <<r>> /\ e.ctx = ctx
  <2>1. <<r>> \in Seq(Presses)
    OBVIOUS
  <2>. QED BY <2>1 DEF HidEvents
<1>2. e.kind # "text" /\ ~Mouse(e) /\ e.kind # "selection" /\ Ids(e.of) = {n + 1}
  BY <1>1, IdsOfNone DEF Mouse
<1>3. WithEvent(c, r.kind, <<r>>, ctx) = b
  BY DEF WithEvent
<1>. HIDE DEF e
<1>4. HidFits(w, c, k, d, n + 1)
  BY NextFits
<1>5. Append(c.out, e) \in Seq(HidEvents)
  BY <1>1, OneAppended DEF Coalescers
<1>6. b \in Coalescers /\ b.text = c.text /\ b.ctx = c.ctx /\ b.drag = c.drag /\ b.out = Append(c.out, e)
  BY <1>5 DEF Coalescers
<1>. HIDE DEF b
<1>7. Good(w, e, n + 1)
  BY <1>1, <1>2 DEF Good, Made
<1>8. OpenText(w, b, n + 1) /\ OpenDrag(w, b, n + 1)
  BY <1>4, <1>6 DEF HidFits, OpenText, OpenDrag
<1>9. \A f : Ahead(f, e)
  BY <1>2 DEF Ahead
<1>10. HidFits(w, b, k, d, n + 1)
  BY <1>1, <1>2, <1>4, <1>6, <1>7, <1>8, <1>9, EventFits
<1>. QED BY <1>3, <1>6, <1>10

\* focused_selection
LEMMA SelectedFits ==
  ASSUME NEW w, NEW c \in Coalescers, NEW k \in Seq(HidEvents), NEW d \in SUBSET Nat, NEW n \in Nat,
         HidFits(w, c, k, d, n), c.text = <<>>, w.text,
         NEW ctx \in Contexts, Placed(w, ctx)
  PROVE  /\ WithEvent(c, "selection", <<>>, ctx) \in Coalescers
         /\ HidFits(w, WithEvent(c, "selection", <<>>, ctx), k, d, n)
         /\ WithEvent(c, "selection", <<>>, ctx).text = <<>>
         /\ WithEvent(c, "selection", <<>>, ctx).drag = c.drag
         /\ \A i \in DOMAIN WithEvent(c, "selection", <<>>, ctx).out :
              \/ i \in DOMAIN c.out /\ WithEvent(c, "selection", <<>>, ctx).out[i] = c.out[i]
              \/ ~Mouse(WithEvent(c, "selection", <<>>, ctx).out[i])
<1>. DEFINE e == [kind |-> "selection", of |-> <<>>, ctx |-> ctx]
            b == [c EXCEPT !.out = Append(@, e)]
<1>1. e \in HidEvents /\ e.kind = "selection" /\ e.of = <<>> /\ e.ctx = ctx
  <2>1. <<>> \in Seq(Presses)
    OBVIOUS
  <2>. QED BY <2>1 DEF HidEvents
<1>2. e.kind # "text" /\ ~Mouse(e) /\ Ids(e.of) = {}
  BY <1>1, IdsOfNone DEF Mouse
<1>3. WithEvent(c, "selection", <<>>, ctx) = b
  BY DEF WithEvent
<1>. HIDE DEF e
<1>5. Append(c.out, e) \in Seq(HidEvents)
  BY <1>1, OneAppended DEF Coalescers
<1>6. b \in Coalescers /\ b.text = c.text /\ b.ctx = c.ctx /\ b.drag = c.drag /\ b.out = Append(c.out, e)
  BY <1>5 DEF Coalescers
<1>. HIDE DEF b
<1>7. Good(w, e, n)
  BY <1>1, <1>2 DEF Good, Made
<1>8. OpenText(w, b, n) /\ OpenDrag(w, b, n)
  BY <1>6 DEF HidFits, OpenText, OpenDrag
<1>9. \A f : Ahead(f, e)
  BY <1>2 DEF Ahead
<1>10. HidFits(w, b, k, d, n)
  BY <1>1, <1>2, <1>6, <1>7, <1>8, <1>9, EventFits
<1>11. c.out \in Seq(HidEvents)
  BY DEF Coalescers
<1>12. \A i \in DOMAIN b.out : (i \in DOMAIN c.out /\ b.out[i] = c.out[i]) \/ ~Mouse(b.out[i])
  BY <1>1, <1>2, <1>6, <1>11, OneAppended
<1>. QED BY <1>3, <1>6, <1>10, <1>12

\* The event of a release, which ends the drag.
LEMMA MouseFits ==
  ASSUME NEW w, NEW c \in Coalescers, NEW k \in Seq(HidEvents), NEW d \in SUBSET Nat, NEW n \in Nat,
         HidFits(w, c, k, d, n), c.text = <<>>, c.drag # <<>>, \A i \in DOMAIN c.out : ~Mouse(c.out[i]),
         NEW r \in Presses, r.id = n + 1, w.pressed[n + 1] = "up",
         NEW ctx \in Contexts, Placed(w, ctx), NEW kind \in MouseKinds
  PROVE  /\ [WithEvent(c, kind, <<c.drag[1], r>>, ctx) EXCEPT !.drag = <<>>] \in Coalescers
         /\ HidFits(w, [WithEvent(c, kind, <<c.drag[1], r>>, ctx) EXCEPT !.drag = <<>>], k, d, n + 1)
<1>. DEFINE down == c.drag[1]
            e == [kind |-> kind, of |-> <<down, r>>, ctx |-> ctx]
            b == [WithEvent(c, kind, <<down, r>>, ctx) EXCEPT !.drag = <<>>]
<1>1. down \in Presses /\ down.id \in 1 .. n /\ w.pressed[down.id] = "down" /\ down.id \in Ids(c.drag)
  <2>1. c.drag \in Seq(Presses) /\ Len(c.drag) = 1
    BY DEF Coalescers, HidFits, OpenDrag
  <2>2. 1 \in DOMAIN c.drag /\ c.drag[1] \in Presses
    BY <2>1
  <2>3. c.drag[1].id \in Ids(c.drag)
    BY <2>2 DEF Ids
  <2>. QED BY <2>2, <2>3 DEF HidFits, OpenDrag
<1>. HIDE DEF down
<1>2. e \in HidEvents /\ e.kind = kind /\ e.of = <<down, r>> /\ e.ctx = ctx
  <2>1. <<down, r>> \in Seq(Presses)
    BY <1>1
  <2>. QED BY <2>1 DEF HidEvents
<1>3. e.kind # "text" /\ Mouse(e) /\ e.kind # "selection" /\ Ids(e.of) = {down.id, n + 1}
      /\ Len(e.of) = 2 /\ e.of[1].id = down.id /\ e.of[2].id = n + 1
  BY <1>2, IdsOfTwo DEF Mouse, MouseKinds
<1>4. b = [c EXCEPT !.out = Append(@, e), !.drag = <<>>]
  BY DEF WithEvent, Coalescers
<1>. HIDE DEF b, e
<1>5. HidFits(w, c, k, d, n + 1)
  BY NextFits
<1>6. Append(c.out, e) \in Seq(HidEvents) /\ <<>> \in Seq(Presses)
  BY <1>2, OneAppended DEF Coalescers
<1>7. b \in Coalescers /\ b.text = c.text /\ b.ctx = c.ctx /\ b.drag = <<>> /\ b.out = Append(c.out, e)
  BY <1>4, <1>6 DEF Coalescers
<1>8. n + 1 \in 1 .. n + 1 /\ down.id \in 1 .. n + 1 /\ down.id < n + 1 /\ \A a \in 1 .. n : a < n + 1
  BY <1>1
<1>9. Good(w, e, n + 1)
  BY <1>1, <1>2, <1>3, <1>8 DEF Good, Made
<1>10. OpenText(w, b, n + 1) /\ OpenDrag(w, b, n + 1) /\ Ids(b.drag) = {}
  BY <1>5, <1>7, IdsOfNone DEF HidFits, OpenText, OpenDrag
<1>11. \A i \in DOMAIN c.out : Ahead(c.out[i], e)
  BY <1>3 DEF Ahead
<1>12. \A i \in DOMAIN k : Ahead(k[i], e)
  <2>1. ASSUME NEW i \in DOMAIN k, Mouse(k[i])
        PROVE  \A a \in Ids(k[i].of) : a < down.id /\ a < n + 1
    BY <1>1, <1>8, <2>1 DEF HidFits, AheadOfOpen, AllGood, Good
  <2>. QED BY <1>3, <2>1 DEF Ahead
<1>13. Ids(b.drag) \subseteq Ids(c.drag) /\ Ids(b.text) = Ids(c.text)
  BY <1>7, <1>10
<1>14. HidFits(w, b, k, d, n + 1)
  BY <1>2, <1>3, <1>5, <1>7, <1>9, <1>10, <1>11, <1>12, <1>13, EventFits
<1>. QED BY <1>7, <1>14 DEF down, b

\* push, whatever was pressed
LEMMA PushedFits ==
  ASSUME NEW w, NEW c \in Coalescers, NEW k \in Seq(HidEvents), NEW d \in SUBSET Nat, NEW n \in Nat,
         HidFits(w, c, k, d, n), HidAssumption, c.out = <<>>,
         NEW r \in Presses, r.id = n + 1, r.kind = w.pressed[n + 1],
         NEW ctx \in Contexts, Placed(w, ctx), NEW selected \in BOOLEAN, selected => w.text
  PROVE  Pushed(c, r, ctx, selected) \in Coalescers /\ HidFits(w, Pushed(c, r, ctx, selected), k, d, n + 1)
<1>. DEFINE f == TextFlushed(c)
<1>1. /\ f \in Coalescers /\ HidFits(w, f, k, d, n) /\ f.text = <<>> /\ f.drag = c.drag
      /\ \A i \in DOMAIN f.out : f.out[i].kind = "text"
  <2>1. /\ f \in Coalescers /\ HidFits(w, f, k, d, n) /\ f.text = <<>> /\ f.drag = c.drag
        /\ \A i \in DOMAIN f.out : (i \in DOMAIN c.out /\ f.out[i] = c.out[i]) \/ f.out[i].kind = "text"
    BY TextFlushFits
  <2>. HIDE DEF f
  <2>2. DOMAIN c.out = {}
    OBVIOUS
  <2>. QED BY <2>1, <2>2
<1>2. CASE r.kind \in {"submit", "shortcut"}
  <2>1. Pushed(c, r, ctx, selected) = WithEvent(f, r.kind, <<r>>, ctx)
    BY <1>2 DEF Pushed
  <2>. HIDE DEF f
  <2>2. w.pressed[n + 1] \in {"submit", "shortcut"}
    BY <1>2
  <2>3. /\ WithEvent(f, r.kind, <<r>>, ctx) \in Coalescers
        /\ HidFits(w, WithEvent(f, r.kind, <<r>>, ctx), k, d, n + 1)
    BY <1>1, <2>2, SingleFits
  <2>. QED BY <2>1, <2>3
<1>3. CASE r.kind = "key"
  <2>1. Pushed(c, r, ctx, selected) = Typed(c, r, ctx)
    BY <1>3 DEF Pushed
  <2>2. w.pressed[n + 1] = "key"
    BY <1>3
  <2>3. Typed(c, r, ctx) \in Coalescers /\ HidFits(w, Typed(c, r, ctx), k, d, n + 1)
    BY <2>2, TypedFits
  <2>. QED BY <2>1, <2>3
<1>4. CASE r.kind = "down"
  <2>1. Pushed(c, r, ctx, selected) = [c EXCEPT !.drag = <<r>>]
    BY <1>4 DEF Pushed
  <2>2. w.pressed[n + 1] = "down"
    BY <1>4
  <2>3. [c EXCEPT !.drag = <<r>>] \in Coalescers /\ HidFits(w, [c EXCEPT !.drag = <<r>>], k, d, n + 1)
    BY <2>2, DownFits
  <2>. QED BY <2>1, <2>3
<1>5. CASE r.kind = "up"
  <2>1. Pushed(c, r, ctx, selected) = Released(c, r, ctx, selected)
    BY <1>5 DEF Pushed
  <2>2. CASE c.drag = <<>>
    <3>1. Released(c, r, ctx, selected) = f
      BY <2>2 DEF Released
    <3>. HIDE DEF f
    <3>2. HidFits(w, f, k, d, n + 1)
      BY <1>1, <1>5, NextFits
    <3>. QED BY <1>1, <2>1, <3>1, <3>2
  <2>3. CASE c.drag # <<>>
    <3>. DEFINE g == IF selected THEN WithEvent(f, "selection", <<>>, ctx) ELSE f
                kind == IF c.drag[1].at # r.at THEN "drag" ELSE IF r.button = "right" THEN "menu" ELSE "click"
    <3>1. Released(c, r, ctx, selected) = [WithEvent(g, kind, <<c.drag[1], r>>, ctx) EXCEPT !.drag = <<>>]
      BY <2>3 DEF Released
    <3>. HIDE DEF f
    <3>2. \A i \in DOMAIN f.out : ~Mouse(f.out[i])
      BY <1>1 DEF Mouse
    <3>3. g \in Coalescers /\ HidFits(w, g, k, d, n) /\ g.text = <<>> /\ g.drag = c.drag
          /\ \A i \in DOMAIN g.out : ~Mouse(g.out[i])
      <4>1. CASE selected
        <5>1. g = WithEvent(f, "selection", <<>>, ctx)
          BY <4>1
        <5>. HIDE DEF g
        <5>2. /\ WithEvent(f, "selection", <<>>, ctx) \in Coalescers
              /\ HidFits(w, WithEvent(f, "selection", <<>>, ctx), k, d, n)
              /\ WithEvent(f, "selection", <<>>, ctx).text = <<>>
              /\ WithEvent(f, "selection", <<>>, ctx).drag = f.drag
              /\ \A i \in DOMAIN WithEvent(f, "selection", <<>>, ctx).out :
                   \/ i \in DOMAIN f.out /\ WithEvent(f, "selection", <<>>, ctx).out[i] = f.out[i]
                   \/ ~Mouse(WithEvent(f, "selection", <<>>, ctx).out[i])
          BY <1>1, <4>1, SelectedFits
        <5>. QED BY <1>1, <3>2, <5>1, <5>2
      <4>2. CASE ~selected
        BY <1>1, <3>2, <4>2
      <4>. QED BY <4>1, <4>2
    <3>4. kind \in MouseKinds
      BY DEF MouseKinds
    <3>. HIDE DEF g, kind
    <3>5. g.drag # <<>> /\ g.drag[1] = c.drag[1]
      BY <2>3, <3>3
    <3>6. /\ [WithEvent(g, kind, <<g.drag[1], r>>, ctx) EXCEPT !.drag = <<>>] \in Coalescers
          /\ HidFits(w, [WithEvent(g, kind, <<g.drag[1], r>>, ctx) EXCEPT !.drag = <<>>], k, d, n + 1)
      BY <1>5, <3>3, <3>4, <3>5, MouseFits
    <3>. QED BY <2>1, <3>1, <3>5, <3>6
  <2>. QED BY <2>2, <2>3
<1>6. CASE r.kind \notin {"submit", "shortcut", "key", "down", "up"}
  <2>1. Pushed(c, r, ctx, selected) = c
    BY <1>6 DEF Pushed
  <2>. QED BY <1>6, <2>1, NextFits
<1>. QED BY <1>2, <1>3, <1>4, <1>5, <1>6

\* discard_text
LEMMA DiscardFits ==
  ASSUME NEW w, NEW c \in Coalescers, NEW k \in Seq(HidEvents), NEW d \in SUBSET Nat, NEW n \in Nat,
         HidFits(w, c, k, d, n), HidAssumption
  PROVE  /\ [c EXCEPT !.text = <<>>, !.ctx = NoCtx] \in Coalescers
         /\ HidFits(w, [c EXCEPT !.text = <<>>, !.ctx = NoCtx], k, d \cup Ids(c.text), n)
<1>. DEFINE b == [c EXCEPT !.text = <<>>, !.ctx = NoCtx]
<1>1. NoCtx \in Contexts /\ <<>> \in Seq(Keys)
  BY DEF NoCtx, Contexts, Windows
<1>2. b \in Coalescers /\ b.text = <<>> /\ b.out = c.out /\ b.drag = c.drag
  BY <1>1 DEF Coalescers
<1>. HIDE DEF b
<1>3. Ids(b.text) = {}
  BY <1>2, IdsOfNone
<1>4. OpenText(w, b, n) /\ OpenDrag(w, b, n)
  BY <1>2, <1>3 DEF HidFits, OpenText, OpenDrag, Rising
<1>5. AheadOfOpen(b.out, b) /\ AheadOfOpen(k, b)
  BY <1>2, <1>3 DEF HidFits, AheadOfOpen
<1>6. \A a \in Ids(c.text) : a \in 1 .. n /\ ~InTexts(a, c.out) /\ ~InTexts(a, k)
  <2>1. \A a \in Ids(c.text) : a \in Int /\ ~(a < a)
    BY DEF HidFits, OpenText
  <2>. QED BY <2>1 DEF HidFits, OpenText, AheadOfOpen, InTexts
<1>7. GivenUp(w, b, k, d \cup Ids(c.text), n)
  BY <1>2, <1>3, <1>6 DEF HidFits, GivenUp
<1>8. Somewhere(w, b, k, d \cup Ids(c.text), n)
  BY <1>2, <1>3 DEF HidFits, Somewhere
<1>9. AllGood(w, b.out, n) /\ AllAhead(b.out) /\ TheseAhead(k, b.out)
  BY <1>2 DEF HidFits
<1>10. AllGood(w, k, n) /\ AllAhead(k) /\ (~w.text => \A i \in DOMAIN k : k[i].kind # "text")
  BY DEF HidFits
<1>11. HidFits(w, b, k, d \cup Ids(c.text), n)
  BY <1>4, <1>5, <1>7, <1>8, <1>9, <1>10 DEF HidFits
<1>. QED BY <1>2, <1>11 DEF b

\* Presses that are given up unseen.
LEMMA UnseenFits ==
  ASSUME NEW w, NEW c \in Coalescers, NEW k \in Seq(HidEvents), NEW d \in SUBSET Nat, NEW n \in Nat,
         HidFits(w, c, k, d, n), NEW m \in Nat
  PROVE  HidFits(w, c, k, d \cup (n + 1) .. (n + m), n + m)
<1>1. \A a : a \in 1 .. n => a \in 1 .. n + m /\ a \notin (n + 1) .. (n + m)
  OBVIOUS
<1>2. \A a \in 1 .. n + m : a \in 1 .. n \/ a \in (n + 1) .. (n + m)
  OBVIOUS
<1>3. \A a \in (n + 1) .. (n + m) : a \in 1 .. n + m
  OBVIOUS
<1>4. OpenText(w, c, n + m) /\ OpenDrag(w, c, n + m)
  BY <1>1 DEF HidFits, OpenText, OpenDrag
<1>5. AllGood(w, c.out, n + m) /\ AllGood(w, k, n + m)
  BY <1>1 DEF HidFits, AllGood, Good
<1>6. \A a \in (n + 1) .. (n + m) : a \notin Ids(c.text) /\ ~InTexts(a, c.out) /\ ~InTexts(a, k)
  BY <1>1 DEF HidFits, OpenText, AllGood, Good, InTexts
<1>7. GivenUp(w, c, k, d \cup (n + 1) .. (n + m), n + m)
  BY <1>1, <1>3, <1>6 DEF HidFits, GivenUp
<1>8. Somewhere(w, c, k, d \cup (n + 1) .. (n + m), n + m)
  BY <1>2 DEF HidFits, Somewhere
<1>. QED BY <1>4, <1>5, <1>7, <1>8 DEF HidFits

LEMMA IdsOfQueue ==
  ASSUME NEW w, NEW q \in Seq(Presses), NEW n \in Nat, Follows(w, q, n)
  PROVE  Ids(q) = (n + 1) .. (n + Len(q)) /\ Len(q) \in Nat
<1>1. DOMAIN q = 1 .. Len(q) /\ Len(q) \in Nat
  OBVIOUS
<1>2. \A i \in 1 .. Len(q) : q[i].id = n + i
  BY <1>1 DEF Follows
<1>3. \A a \in (n + 1) .. (n + Len(q)) : a - n \in 1 .. Len(q) /\ n + (a - n) = a
  BY <1>1
<1>4. \A i \in 1 .. Len(q) : n + i \in (n + 1) .. (n + Len(q))
  BY <1>1
<1>5. Ids(q) = {q[i].id : i \in 1 .. Len(q)}
  BY <1>1 DEF Ids
<1>6. \A a \in (n + 1) .. (n + Len(q)) : \E i \in 1 .. Len(q) : q[i].id = a
  BY <1>2, <1>3
<1>7. \A i \in 1 .. Len(q) : q[i].id \in (n + 1) .. (n + Len(q))
  BY <1>2, <1>4
<1>. QED BY <1>1, <1>5, <1>6, <1>7

\* The first event returned is stored, or given up.
LEMMA FirstFits ==
  ASSUME NEW w, NEW c \in Coalescers, NEW k \in Seq(HidEvents), NEW d \in SUBSET Nat, NEW n \in Nat,
         HidFits(w, c, k, d, n), c.out # <<>>
  PROVE  /\ [c EXCEPT !.out = Tail(@)] \in Coalescers /\ Head(c.out) \in HidEvents
         /\ Ids(Head(c.out).of) \subseteq Nat
         /\ w.text \/ Head(c.out).kind # "text" =>
              HidFits(w, [c EXCEPT !.out = Tail(@)], Append(k, Head(c.out)), d, n)
         /\ HidFits(w, [c EXCEPT !.out = Tail(@)], k, d \cup Ids(Head(c.out).of), n)
<1>. DEFINE b == [c EXCEPT !.out = Tail(@)]
            e == Head(c.out)
            o == c.out
<1>1. o \in Seq(HidEvents)
  BY DEF Coalescers
<1>2. /\ Tail(o) \in Seq(HidEvents) /\ e \in HidEvents /\ Len(o) \in Nat /\ 1 \in DOMAIN o /\ e = o[1]
      /\ DOMAIN o = 1 .. Len(o) /\ DOMAIN Tail(o) = 1 .. Len(o) - 1
      /\ \A i \in DOMAIN Tail(o) : i + 1 \in DOMAIN o /\ Tail(o)[i] = o[i + 1]
  BY <1>1
<1>3. b \in Coalescers /\ b.text = c.text /\ b.ctx = c.ctx /\ b.drag = c.drag /\ b.out = Tail(o)
  BY <1>2 DEF Coalescers
<1>. HIDE DEF b, e
<1>4. \A i \in DOMAIN b.out : i + 1 \in DOMAIN c.out /\ b.out[i] = c.out[i + 1] /\ 1 < i + 1
  BY <1>2, <1>3
<1>5. \A i \in DOMAIN c.out : i = 1 \/ (i - 1 \in DOMAIN b.out /\ b.out[i - 1] = c.out[i])
  BY <1>2, <1>3
<1>6. e = c.out[1] /\ 1 \in DOMAIN c.out
  BY <1>2
<1>. HIDE DEF o
<1>7. Good(w, e, n)
  BY <1>6 DEF HidFits, AllGood
<1>8. OpenText(w, b, n) /\ OpenDrag(w, b, n)
  BY <1>3 DEF HidFits, OpenText, OpenDrag
<1>9. AllGood(w, b.out, n) /\ TheseAhead(k, b.out)
  BY <1>4 DEF HidFits, AllGood, TheseAhead
<1>10. AllAhead(b.out)
  <2>1. ASSUME NEW i \in DOMAIN b.out, NEW j \in DOMAIN b.out, i < j
        PROVE  Ahead(b.out[i], b.out[j])
    <3>1. i \in Int /\ j \in Int
      BY <1>2, <1>3
    <3>2. i + 1 < j + 1
      BY <2>1, <3>1
    <3>. QED BY <1>4, <3>2 DEF HidFits, AllAhead
  <2>. QED BY <2>1 DEF AllAhead
<1>11. \A i \in DOMAIN b.out : Ahead(e, b.out[i])
  BY <1>4, <1>6 DEF HidFits, AllAhead
<1>12. AheadOfOpen(b.out, b)
  BY <1>3, <1>4 DEF HidFits, AheadOfOpen
<1>13. AheadOfOpen(k, b)
  BY <1>3 DEF HidFits, AheadOfOpen
<1>14. \A a : InTexts(a, c.out) <=> InTexts(a, b.out) \/ (e.kind = "text" /\ a \in Ids(e.of))
  <2>1. \A a : InTexts(a, b.out) \/ (e.kind = "text" /\ a \in Ids(e.of)) => InTexts(a, c.out)
    BY <1>4, <1>6 DEF InTexts
  <2>2. \A a : InTexts(a, c.out) => InTexts(a, b.out) \/ (e.kind = "text" /\ a \in Ids(e.of))
    BY <1>5, <1>6 DEF InTexts
  <2>. QED BY <2>1, <2>2
<1>15. ASSUME w.text \/ e.kind # "text"
       PROVE  HidFits(w, b, Append(k, e), d, n)
  <2>. DEFINE m == Append(k, e)
  <2>1. /\ m \in Seq(HidEvents) /\ Len(k) \in Nat /\ DOMAIN k = 1 .. Len(k) /\ DOMAIN m = 1 .. Len(k) + 1
        /\ \A i \in DOMAIN k : m[i] = k[i]
        /\ m[Len(k) + 1] = e
        /\ \A i \in DOMAIN m : (i \in DOMAIN k /\ m[i] = k[i]) \/ (i = Len(k) + 1 /\ m[i] = e)
    BY <1>2, OneAppended DEF e
  <2>. HIDE DEF m
  <2>2. AllGood(w, m, n)
    BY <1>7, <2>1 DEF HidFits, AllGood
  <2>3. AllAhead(m)
    <3>1. \A i \in DOMAIN k : Ahead(k[i], e)
      BY <1>6 DEF HidFits, TheseAhead
    <3>2. AllAhead(k)
      BY DEF HidFits
    <3>3. ASSUME NEW i \in DOMAIN m, NEW j \in DOMAIN m, i < j
          PROVE  Ahead(m[i], m[j])
      <4>1. i \in DOMAIN k /\ m[i] = k[i]
        BY <2>1, <3>3
      <4>2. CASE j \in DOMAIN k /\ m[j] = k[j]
        BY <3>2, <3>3, <4>1, <4>2 DEF AllAhead
      <4>3. CASE m[j] = e
        BY <3>1, <4>1, <4>3
      <4>. QED BY <2>1, <4>2, <4>3
    <3>. QED BY <3>3 DEF AllAhead
  <2>4. AheadOfOpen(m, b)
    <3>1. /\ e.kind = "text" => \A a \in Ids(e.of), x \in Ids(b.text) : a < x
          /\ Mouse(e) => \A a \in Ids(e.of), x \in Ids(b.drag) : a < x
      BY <1>3, <1>6 DEF HidFits, AheadOfOpen
    <3>. QED BY <1>13, <2>1, <3>1 DEF AheadOfOpen
  <2>5. TheseAhead(m, b.out)
    BY <1>9, <1>11, <2>1 DEF TheseAhead
  <2>6. \A a : InTexts(a, m) <=> InTexts(a, k) \/ (e.kind = "text" /\ a \in Ids(e.of))
    BY <2>1 DEF InTexts
  <2>7. GivenUp(w, b, m, d, n)
    BY <1>3, <1>14, <2>6 DEF HidFits, GivenUp
  <2>8. Somewhere(w, b, m, d, n)
    BY <1>3, <1>14, <2>6 DEF HidFits, Somewhere
  <2>9. ~w.text => \A i \in DOMAIN m : m[i].kind # "text"
    BY <1>15, <2>1 DEF HidFits
  <2>. QED BY <1>8, <1>9, <1>10, <1>12, <2>2, <2>3, <2>4, <2>5, <2>7, <2>8, <2>9 DEF HidFits, m
<1>16. HidFits(w, b, k, d \cup Ids(e.of), n)
  <2>1. ASSUME NEW a \in Ids(e.of)
        PROVE  a \in 1 .. n /\ a \notin Ids(b.text) /\ ~InTexts(a, b.out) /\ ~InTexts(a, k)
    <3>1. a \in 1 .. n /\ w.pressed[a] \in Made(e) /\ a \in Int /\ ~(a < a)
      BY <1>7 DEF Good
    <3>2. CASE e.kind = "text"
      <4>1. a \notin Ids(b.text)
        BY <1>3, <1>6, <3>1, <3>2 DEF HidFits, AheadOfOpen
      <4>2. ~InTexts(a, b.out)
        BY <1>11, <3>1, <3>2 DEF Ahead, InTexts
      <4>3. ~InTexts(a, k)
        BY <1>6, <3>1, <3>2 DEF HidFits, TheseAhead, Ahead, InTexts
      <4>. QED BY <3>1, <4>1, <4>2, <4>3
    <3>3. CASE e.kind # "text"
      <4>1. w.pressed[a] # "key"
        BY <3>1, <3>3 DEF Made
      <4>2. a \notin Ids(b.text)
        BY <1>8, <4>1 DEF OpenText
      <4>3. ~InTexts(a, b.out)
        BY <1>9, <4>1 DEF AllGood, Good, Made, InTexts
      <4>4. ~InTexts(a, k)
        BY <4>1 DEF HidFits, AllGood, Good, Made, InTexts
      <4>. QED BY <3>1, <4>2, <4>3, <4>4
    <3>. QED BY <3>2, <3>3
  <2>2. GivenUp(w, b, k, d \cup Ids(e.of), n)
    BY <1>3, <1>14, <2>1 DEF HidFits, GivenUp
  <2>3. Somewhere(w, b, k, d \cup Ids(e.of), n)
    BY <1>3, <1>14 DEF HidFits, Somewhere
  <2>4. AllGood(w, k, n) /\ AllAhead(k) /\ (~w.text => \A i \in DOMAIN k : k[i].kind # "text")
    BY DEF HidFits
  <2>. QED BY <1>8, <1>9, <1>10, <1>12, <1>13, <2>2, <2>3, <2>4 DEF HidFits
<1>17. Ids(e.of) \subseteq Nat
  BY <1>7 DEF Good
<1>. QED BY <1>2, <1>3, <1>15, <1>16, <1>17 DEF b, e

\* More presses and more sessions change nothing of what is there.
LEMMA GrownFits ==
  ASSUME NEW w, NEW v, NEW c \in Coalescers, NEW k \in Seq(HidEvents), NEW d \in SUBSET Nat, NEW n \in Nat,
         HidFits(w, c, k, d, n), v.text = w.text,
         \A a \in 1 .. n : v.pressed[a] = w.pressed[a],
         \A i \in DOMAIN w.owners : i \in DOMAIN v.owners /\ v.owners[i] = w.owners[i]
  PROVE  HidFits(v, c, k, d, n)
<1>1. \A ctx : Placed(w, ctx) => Placed(v, ctx)
  BY DEF Placed
<1>2. OpenText(v, c, n)
  BY <1>1 DEF HidFits, OpenText
<1>3. OpenDrag(v, c, n)
  BY DEF HidFits, OpenDrag
<1>4. \A e : Good(w, e, n) => Good(v, e, n)
  BY <1>1 DEF Good
<1>5. AllGood(v, c.out, n) /\ AllGood(v, k, n)
  BY <1>4 DEF HidFits, AllGood
<1>6. GivenUp(v, c, k, d, n) /\ Somewhere(v, c, k, d, n)
  BY DEF HidFits, GivenUp, Somewhere
<1>. QED BY <1>2, <1>3, <1>5, <1>6 DEF HidFits

\* What every step starts from.
LEMMA HidFacts ==
  ASSUME HidInv
  PROVE  /\ Taken \in Nat /\ Len(tap) \in Nat /\ Len(task.raw) \in Nat /\ Len(pressed) \in Nat
         /\ DOMAIN pressed = 1 .. Len(pressed) /\ Taken + Len(task.raw) + Len(tap) = Len(pressed)
         /\ World.pressed = pressed /\ World.owners = owners /\ World.text = settings.text
         /\ DOMAIN owners = 1 .. Len(owners) /\ Len(owners) \in Nat
<1>1. tap \in Seq(Presses) /\ task.raw \in Seq(Presses) /\ pressed \in Seq(PressKinds)
      /\ owners \in Seq({AppOf(place) : place \in Windows})
  BY DEF HidInv, HidType
<1>2. Len(tap) \in Nat /\ Len(task.raw) \in Nat /\ Len(pressed) \in Nat /\ Len(owners) \in Nat
  BY <1>1
<1>3. DOMAIN pressed = 1 .. Len(pressed) /\ DOMAIN owners = 1 .. Len(owners)
  BY <1>1
<1>. QED BY <1>2, <1>3 DEF HidInv, Taken, World

LEMMA OneFurther ==
  /\ \A n, i \in Nat : n + (i + 1) = (n + 1) + i
  /\ \A n \in Nat, m \in Nat \ {0} : (n + 1) + (m - 1) = n + m
OBVIOUS

LEMMA PressFits == ASSUME HidInv, Press, HidAssumption PROVE HidInv'
<1>1. PICK input \in Inputs :
        /\ tap' = Append(tap, [id |-> Len(pressed) + 1, kind |-> input.kind,
                              button |-> input.button, at |-> input.at])
        /\ pressed' = Append(pressed, input.kind)
  BY DEF Press
<1>2. UNCHANGED <<settings, owners, open, task, coal, kept, dropped>>
  BY DEF Press
<1>. DEFINE r == [id |-> Len(pressed) + 1, kind |-> input.kind, button |-> input.button, at |-> input.at]
<1>3. r \in Presses /\ r.id = Len(pressed) + 1 /\ r.kind = input.kind /\ input.kind \in PressKinds
  BY HidFacts DEF Presses, PressKinds
<1>4. tap' = Append(tap, r)
  BY <1>1
<1>. HIDE DEF r
<1>5. tap \in Seq(Presses) /\ pressed \in Seq(PressKinds)
  BY DEF HidInv, HidType
<1>6. /\ pressed' \in Seq(PressKinds) /\ Len(pressed') = Len(pressed) + 1
      /\ DOMAIN pressed' = 1 .. Len(pressed) + 1
      /\ \A a \in DOMAIN pressed : pressed'[a] = pressed[a]
      /\ pressed'[Len(pressed) + 1] = input.kind
  <2>1. /\ Append(pressed, input.kind) \in Seq(PressKinds) /\ Len(Append(pressed, input.kind)) = Len(pressed) + 1
        /\ DOMAIN Append(pressed, input.kind) = 1 .. Len(pressed) + 1
        /\ \A a \in DOMAIN pressed : Append(pressed, input.kind)[a] = pressed[a]
        /\ Append(pressed, input.kind)[Len(pressed) + 1] = input.kind
    BY <1>3, <1>5, OneAppended
  <2>. QED BY <1>1, <2>1
<1>7. /\ tap' \in Seq(Presses) /\ Len(tap') = Len(tap) + 1
      /\ \A i \in DOMAIN tap' : (i \in DOMAIN tap /\ tap'[i] = tap[i]) \/ (i = Len(tap) + 1 /\ tap'[i] = r)
  BY <1>3, <1>4, <1>5, OneAppended
<1>8. HidType'
  BY <1>2, <1>6, <1>7 DEF HidInv, HidType
<1>9. Taken' = Taken
  BY <1>2, <1>6, <1>7, HidFacts DEF Taken
<1>10. /\ World'.text = World.text /\ World'.owners = World.owners /\ World'.pressed = pressed'
       /\ World.pressed = pressed
  BY <1>2 DEF World
<1>. HIDE DEF World
<1>11. \A a \in DOMAIN pressed : a \in DOMAIN pressed' /\ pressed'[a] = pressed[a]
  BY <1>6, HidFacts
<1>12. Follows(World', task.raw, Taken)
  BY <1>10, <1>11 DEF HidInv, Follows
<1>13. Follows(World', tap', Taken + Len(task.raw))
  <2>1. ASSUME NEW i \in DOMAIN tap'
        PROVE  /\ tap'[i].id = Taken + Len(task.raw) + i /\ tap'[i].id \in DOMAIN pressed'
               /\ tap'[i].kind = pressed'[tap'[i].id]
    <3>1. CASE i \in DOMAIN tap /\ tap'[i] = tap[i]
      BY <1>10, <1>11, <3>1 DEF HidInv, Follows
    <3>2. CASE i = Len(tap) + 1 /\ tap'[i] = r
      <4>1. i = Len(tap) + 1 /\ r.id = Len(pressed) + 1
        BY <1>3, <3>2
      <4>4. /\ Taken \in Nat /\ Len(tap) \in Nat /\ Len(task.raw) \in Nat
            /\ Taken + Len(task.raw) + Len(tap) = Len(pressed)
        BY HidFacts
      <4>5. Taken + Len(task.raw) + Len(tap) + 1 = Taken + Len(task.raw) + (Len(tap) + 1)
        <5>. DEFINE n == Taken
                    m == Len(task.raw)
                    t == Len(tap)
        <5>1. n \in Nat /\ m \in Nat /\ t \in Nat
          BY <4>4
        <5>. HIDE DEF n, m, t
        <5>2. n + m + t + 1 = n + m + (t + 1)
          BY <5>1
        <5>. QED BY <5>2 DEF n, m, t
      <4>2. r.id = Taken + Len(task.raw) + i
        BY <4>1, <4>4, <4>5, Zenon
      <4>3. r.id \in DOMAIN pressed' /\ pressed'[r.id] = r.kind
        BY <1>3, <1>6, HidFacts
      <4>. QED BY <3>2, <4>2, <4>3
    <3>. QED BY <1>7, <2>1, <3>1, <3>2
  <2>. QED BY <1>10, <2>1 DEF Follows
<1>14. HidFits(World', coal, kept, dropped, Taken)
  <2>1. \A a \in 1 .. Taken : a \in DOMAIN pressed
    BY HidFacts
  <2>2. \A a \in 1 .. Taken : World'.pressed[a] = World.pressed[a]
    BY <1>10, <1>11, <2>1
  <2>3. coal \in Coalescers /\ kept \in Seq(HidEvents) /\ dropped \in SUBSET Nat /\ Taken \in Nat
        /\ HidFits(World, coal, kept, dropped, Taken)
    BY DEF HidInv, HidType
  <2>. QED BY <1>10, <2>2, <2>3, GrownFits
<1>15. task.at = "pushing" /\ task.raw # <<>> => Placed(World', task.ctx)
  BY <1>10 DEF HidInv, Placed
<1>16. /\ Follows(World', task.raw', Taken') /\ Follows(World', tap', Taken' + Len(task.raw'))
       /\ HidFits(World', coal', kept', dropped', Taken')
       /\ task'.at = "pushing" /\ task'.raw # <<>> => Placed(World', task'.ctx)
  BY <1>2, <1>9, <1>12, <1>13, <1>14, <1>15
<1>17. /\ Taken' \in Nat /\ (task.at = "waiting" => task.raw = <<>>)' /\ (task.at # "pushing" => coal.out = <<>>)'
       /\ (task.at = "locking" => task.ctx.place \in Allowed)'
  BY <1>2, <1>9 DEF HidInv, Allowed
<1>. QED BY <1>8, <1>16, <1>17 DEF HidInv

\* Steps that touch neither the presses nor the sessions.
Still == UNCHANGED <<settings, owners, pressed>>

LEMMA StillIsStill == ASSUME Still PROVE World' = World
BY DEF Still, World

\* Discarding what waits and the text: TickClosed, TickOff and TickHasNoSession.
LEMMA GoneFits ==
  ASSUME HidInv, HidAssumption, Still, NEW q \in Seq(Presses), Follows(World, q, Taken)
  PROVE  /\ WithoutText \in Coalescers
         /\ HidFits(World, WithoutText, kept, dropped \cup Ids(q) \cup Ids(coal.text), Taken + Len(q))
         /\ Ids(q) \subseteq Nat /\ Ids(coal.text) \subseteq Nat /\ WithoutText.out = coal.out
<1>1. coal \in Coalescers /\ kept \in Seq(HidEvents) /\ dropped \in SUBSET Nat /\ Taken \in Nat
      /\ HidFits(World, coal, kept, dropped, Taken)
  BY DEF HidInv, HidType
<1>2. Ids(q) = (Taken + 1) .. (Taken + Len(q)) /\ Len(q) \in Nat
  BY <1>1, IdsOfQueue
<1>3. dropped \cup Ids(q) \in SUBSET Nat /\ Ids(q) \subseteq Nat
  <2>1. \A a \in (Taken + 1) .. (Taken + Len(q)) : a \in Nat
    BY <1>1, <1>2
  <2>. QED BY <1>1, <1>2, <2>1
<1>4. HidFits(World, coal, kept, dropped \cup Ids(q), Taken + Len(q)) /\ Taken + Len(q) \in Nat
  <2>1. HidFits(World, coal, kept, dropped \cup (Taken + 1) .. (Taken + Len(q)), Taken + Len(q))
    BY <1>1, <1>2, UnseenFits
  <2>. QED BY <1>1, <1>2, <2>1
<1>5. /\ WithoutText \in Coalescers
      /\ HidFits(World, WithoutText, kept, (dropped \cup Ids(q)) \cup Ids(coal.text), Taken + Len(q))
  BY <1>1, <1>3, <1>4, DiscardFits DEF WithoutText
<1>6. Ids(coal.text) \subseteq Nat
  BY <1>4 DEF HidFits, OpenText
<1>7. WithoutText.out = coal.out
  BY <1>1 DEF WithoutText, Coalescers
<1>. QED BY <1>3, <1>5, <1>6, <1>7

LEMMA DiscardsFits == ASSUME HidInv, HidAssumption, Discards PROVE HidInv'
<1>1. /\ task.at = "waiting" /\ tap' = <<>> /\ coal' = WithoutText
      /\ dropped' = dropped \cup Ids(tap) \cup Ids(coal.text)
      /\ UNCHANGED <<settings, owners, open, pressed, task, kept>>
  BY DEF Discards
<1>2. Still /\ World' = World
  BY <1>1, StillIsStill DEF Still
<1>3. task.raw = <<>> /\ Len(task.raw) = 0 /\ coal.out = <<>>
  BY <1>1 DEF HidInv
<1>4. tap \in Seq(Presses) /\ Follows(World, tap, Taken)
  BY <1>3, HidFacts DEF HidInv, HidType
<1>5. /\ WithoutText \in Coalescers
      /\ HidFits(World, WithoutText, kept, dropped \cup Ids(tap) \cup Ids(coal.text), Taken + Len(tap))
      /\ Ids(tap) \subseteq Nat /\ Ids(coal.text) \subseteq Nat /\ WithoutText.out = coal.out
  BY <1>2, <1>4, GoneFits
<1>6. <<>> \in Seq(Presses) /\ Len(<<>>) = 0
  OBVIOUS
<1>7. HidType'
  BY <1>1, <1>5, <1>6 DEF HidInv, HidType
<1>8. Taken' = Taken + Len(tap) /\ Taken + Len(tap) \in Nat
  BY <1>1, <1>3, <1>6, HidFacts DEF Taken
<1>9. HidFits(World', coal', kept', dropped', Taken')
  BY <1>1, <1>2, <1>5, <1>8
<1>10. /\ Follows(World', task.raw', Taken') /\ Follows(World', tap', Taken' + Len(task.raw'))
  <2>1. \A w, n : Follows(w, <<>>, n)
    BY DEF Follows
  <2>2. tap' = <<>> /\ task.raw' = <<>>
    BY <1>1, <1>3
  <2>. QED BY <2>1, <2>2
<1>11. /\ (task.at = "waiting" => task.raw = <<>>)' /\ (task.at # "pushing" => coal.out = <<>>)'
       /\ (task.at = "locking" => task.ctx.place \in Allowed)'
       /\ (task.at = "pushing" /\ task.raw # <<>> => Placed(World, task.ctx))'
  <2>1. task'.at = "waiting" /\ task'.raw = <<>> /\ coal'.out = <<>>
    BY <1>1, <1>3, <1>5
  <2>. QED BY <2>1
<1>. QED BY <1>7, <1>8, <1>9, <1>10, <1>11 DEF HidInv

LEMMA TickHasNoSessionFits == ASSUME HidInv, HidAssumption, TickHasNoSession PROVE HidInv'
<1>1. /\ task.at = "locking" /\ coal' = WithoutText /\ task' = AtRest
      /\ dropped' = dropped \cup Ids(task.raw) \cup Ids(coal.text)
      /\ UNCHANGED <<settings, owners, open, tap, pressed, kept>>
  BY DEF TickHasNoSession
<1>2. Still /\ World' = World
  BY <1>1, StillIsStill DEF Still
<1>3. coal.out = <<>>
  BY <1>1 DEF HidInv
<1>4. task.raw \in Seq(Presses) /\ Follows(World, task.raw, Taken)
  BY DEF HidInv, HidType
<1>5. /\ WithoutText \in Coalescers
      /\ HidFits(World, WithoutText, kept, dropped \cup Ids(task.raw) \cup Ids(coal.text), Taken + Len(task.raw))
      /\ Ids(task.raw) \subseteq Nat /\ Ids(coal.text) \subseteq Nat /\ WithoutText.out = coal.out
  BY <1>2, <1>4, GoneFits
<1>6. /\ task'.at = "waiting" /\ task'.raw = <<>> /\ Len(task'.raw) = 0
      /\ task' \in [at : {"waiting", "locking", "pushing"}, raw : Seq(Presses), ctx : Contexts, typed : BOOLEAN]
  BY <1>1 DEF AtRest, NoCtx, Contexts, Windows
<1>7. HidType'
  BY <1>1, <1>5, <1>6 DEF HidInv, HidType
<1>8. Taken' = Taken + Len(task.raw) /\ Taken + Len(task.raw) \in Nat
  BY <1>1, <1>6, HidFacts DEF Taken
<1>9. HidFits(World', coal', kept', dropped', Taken')
  BY <1>1, <1>2, <1>5, <1>8
<1>10. Follows(World', task'.raw, Taken')
  BY <1>6 DEF Follows
<1>11. Follows(World', tap', Taken' + Len(task'.raw))
  <2>1. Follows(World, tap, Taken + Len(task.raw))
    BY DEF HidInv
  <2>2. Taken' + Len(task'.raw) = Taken + Len(task.raw)
    BY <1>6, <1>8
  <2>. QED BY <1>1, <1>2, <2>1, <2>2
<1>12. coal'.out = <<>>
  BY <1>1, <1>3, <1>5
<1>. QED BY <1>6, <1>7, <1>8, <1>9, <1>10, <1>11, <1>12 DEF HidInv

LEMMA TickQuietFits == ASSUME HidInv, HidAssumption, TickQuiet PROVE HidInv'
<1>1. /\ task.at = "waiting" /\ coal' = TextFlushed(coal) /\ task' = [AtRest EXCEPT !.at = "pushing"]
      /\ UNCHANGED <<settings, owners, open, tap, pressed, kept, dropped>>
  BY DEF TickQuiet
<1>2. Still /\ World' = World
  BY <1>1, StillIsStill DEF Still
<1>3. coal \in Coalescers /\ kept \in Seq(HidEvents) /\ dropped \in SUBSET Nat /\ Taken \in Nat
      /\ HidFits(World, coal, kept, dropped, Taken)
  BY DEF HidInv, HidType
<1>4. TextFlushed(coal) \in Coalescers /\ HidFits(World, TextFlushed(coal), kept, dropped, Taken)
  BY <1>3, TextFlushFits
<1>5. /\ task'.at = "pushing" /\ task'.raw = <<>> /\ task.raw = <<>>
      /\ task' \in [at : {"waiting", "locking", "pushing"}, raw : Seq(Presses), ctx : Contexts, typed : BOOLEAN]
  <2>1. NoCtx \in Contexts /\ <<>> \in Seq(Presses)
    BY DEF NoCtx, Contexts, Windows
  <2>2. task' = [at |-> "pushing", raw |-> <<>>, ctx |-> NoCtx, typed |-> FALSE]
    BY <1>1 DEF AtRest
  <2>3. task.raw = <<>>
    BY <1>1 DEF HidInv
  <2>4. [at |-> "pushing", raw |-> <<>>, ctx |-> NoCtx, typed |-> FALSE]
          \in [at : {"waiting", "locking", "pushing"}, raw : Seq(Presses), ctx : Contexts, typed : BOOLEAN]
    BY <2>1
  <2>. QED BY <2>2, <2>3, <2>4
<1>6. HidType'
  BY <1>1, <1>4, <1>5 DEF HidInv, HidType
<1>7. Taken' = Taken /\ Len(task'.raw) = Len(task.raw)
  BY <1>1, <1>5 DEF Taken
<1>8. HidFits(World', coal', kept', dropped', Taken')
  BY <1>1, <1>2, <1>4, <1>7
<1>9. Follows(World', task'.raw, Taken') /\ Follows(World', tap', Taken' + Len(task'.raw))
  BY <1>1, <1>2, <1>5, <1>7 DEF HidInv
<1>. QED BY <1>3, <1>5, <1>6, <1>7, <1>8, <1>9 DEF HidInv

LEMMA FlushesDueFits == ASSUME HidInv, HidAssumption, FlushesDue PROVE HidInv'
<1>1. /\ task.at = "pushing" /\ coal' = TextFlushed(coal)
      /\ UNCHANGED <<settings, owners, open, tap, pressed, task, kept, dropped>>
  BY DEF FlushesDue
<1>2. Still /\ World' = World
  BY <1>1, StillIsStill DEF Still
<1>3. coal \in Coalescers /\ kept \in Seq(HidEvents) /\ dropped \in SUBSET Nat /\ Taken \in Nat
      /\ HidFits(World, coal, kept, dropped, Taken)
  BY DEF HidInv, HidType
<1>4. TextFlushed(coal) \in Coalescers /\ HidFits(World, TextFlushed(coal), kept, dropped, Taken)
  BY <1>3, TextFlushFits
<1>5. HidType' /\ Taken' = Taken
  BY <1>1, <1>4 DEF HidInv, HidType, Taken
<1>6. HidFits(World', coal', kept', dropped', Taken')
  BY <1>1, <1>2, <1>4, <1>5
<1>7. Follows(World', task'.raw, Taken') /\ Follows(World', tap', Taken' + Len(task'.raw))
      /\ (task'.at = "pushing" /\ task'.raw # <<>> => Placed(World', task'.ctx))
  BY <1>1, <1>2, <1>5 DEF HidInv
<1>. QED BY <1>1, <1>3, <1>5, <1>6, <1>7 DEF HidInv

LEMMA TickDrainsFits == ASSUME HidInv, HidAssumption, TickDrains PROVE HidInv'
<1>1. PICK place \in Allowed :
        task' = [at |-> "locking", raw |-> tap, ctx |-> [NoCtx EXCEPT !.place = place], typed |-> FALSE]
  BY DEF TickDrains
<1>2. /\ task.at = "waiting" /\ tap' = <<>>
      /\ UNCHANGED <<settings, owners, open, pressed, coal, kept, dropped>>
  BY DEF TickDrains
<1>3. Still /\ World' = World
  BY <1>2, StillIsStill DEF Still
<1>4. place \in Windows /\ Allowed' = Allowed
  BY DEF Allowed, Windows
<1>5. [NoCtx EXCEPT !.place = place] \in Contexts /\ [NoCtx EXCEPT !.place = place].place = place
  BY <1>4 DEF NoCtx, Contexts
<1>6. /\ task'.at = "locking" /\ task'.raw = tap /\ task'.ctx.place = place
      /\ task' \in [at : {"waiting", "locking", "pushing"}, raw : Seq(Presses), ctx : Contexts, typed : BOOLEAN]
  BY <1>1, <1>5 DEF HidInv, HidType
<1>7. task.raw = <<>> /\ coal.out = <<>> /\ Len(<<>>) = 0 /\ <<>> \in Seq(Presses)
  BY <1>2 DEF HidInv
<1>8. HidType'
  BY <1>2, <1>6, <1>7 DEF HidInv, HidType
<1>9. Taken' = Taken
  BY <1>2, <1>6, <1>7, HidFacts DEF Taken
<1>10. Follows(World', task'.raw, Taken')
  <2>1. Follows(World, tap, Taken)
    BY <1>7, HidFacts DEF HidInv
  <2>. QED BY <1>3, <1>6, <1>9, <2>1
<1>11. Follows(World', tap', Taken' + Len(task'.raw))
  BY <1>2 DEF Follows
<1>12. HidFits(World', coal', kept', dropped', Taken')
  BY <1>2, <1>3, <1>9 DEF HidInv
<1>. QED BY <1>2, <1>4, <1>6, <1>7, <1>8, <1>9, <1>10, <1>11, <1>12, HidFacts DEF HidInv

LEMMA TickBindsFits == ASSUME HidInv, HidAssumption, TickBinds PROVE HidInv'
<1>1. /\ task.at = "locking" /\ (open # 0 => owners[open] = AppOf(task.ctx.place))
      /\ \/ open # 0 /\ UNCHANGED <<owners, open>>
         \/ /\ open = 0
            /\ owners' = Append(owners, AppOf(task.ctx.place)) /\ open' = Len(owners')
      /\ task' = [task EXCEPT !.at = "pushing", !.ctx.session = open']
      /\ UNCHANGED <<settings, tap, pressed, coal, kept, dropped>>
  BY DEF TickBinds
<1>2. task.ctx \in Contexts /\ task.ctx.place \in Windows /\ task.ctx.place \in Allowed
      /\ owners \in Seq({AppOf(place) : place \in Windows}) /\ open \in 0 .. Len(owners)
  BY <1>1 DEF HidInv, HidType, Contexts
<1>3. AppOf(task.ctx.place) \notin HidBlocked /\ (task.ctx.place = NoPlace => HidBlocked = {})
  BY <1>2 DEF Allowed, AppOf, HidAssumption
<1>4. /\ owners' \in Seq({AppOf(place) : place \in Windows}) /\ open' \in 0 .. Len(owners')
      /\ open' \in DOMAIN owners' /\ owners'[open'] = AppOf(task.ctx.place)
      /\ \A i \in DOMAIN owners : i \in DOMAIN owners' /\ owners'[i] = owners[i]
  <2>1. CASE open # 0
    <3>1. owners' = owners /\ open' = open
      BY <1>1, <2>1
    <3>2. open \in DOMAIN owners
      BY <1>2, <2>1, HidFacts
    <3>. QED BY <1>1, <1>2, <2>1, <3>1, <3>2
  <2>2. CASE open = 0
    <3>. DEFINE A == {AppOf(place) : place \in Windows}
                a == AppOf(task.ctx.place)
    <3>1. a \in A /\ owners \in Seq(A)
      BY <1>2
    <3>2. owners' = Append(owners, a) /\ open' = Len(owners')
      BY <1>1, <2>2
    <3>. HIDE DEF A, a
    <3>3. /\ Append(owners, a) \in Seq(A) /\ Len(Append(owners, a)) = Len(owners) + 1 /\ Len(owners) \in Nat
          /\ DOMAIN owners = 1 .. Len(owners) /\ DOMAIN Append(owners, a) = 1 .. Len(owners) + 1
          /\ \A i \in DOMAIN owners : Append(owners, a)[i] = owners[i]
          /\ Append(owners, a)[Len(owners) + 1] = a
      BY <3>1, OneAppended
    <3>4. open' \in DOMAIN owners' /\ owners'[open'] = a /\ open' \in 0 .. Len(owners') /\ owners' \in Seq(A)
      BY <3>2, <3>3
    <3>5. \A i \in DOMAIN owners : i \in DOMAIN owners' /\ owners'[i] = owners[i]
      BY <3>2, <3>3
    <3>. QED BY <3>4, <3>5 DEF A, a
  <2>. QED BY <2>1, <2>2
<1>5. /\ task'.at = "pushing" /\ task'.raw = task.raw /\ task'.ctx = [task.ctx EXCEPT !.session = open']
      /\ task'.ctx.place = task.ctx.place /\ task'.ctx.session = open'
      /\ task' \in [at : {"waiting", "locking", "pushing"}, raw : Seq(Presses), ctx : Contexts, typed : BOOLEAN]
  <2>1. open' \in Nat
    BY <1>4
  <2>2. [task.ctx EXCEPT !.session = open'] \in Contexts
    BY <1>2, <2>1 DEF Contexts
  <2>3. /\ task'.at = "pushing" /\ task'.raw = task.raw /\ task'.ctx = [task.ctx EXCEPT !.session = open']
        /\ task' \in [at : {"waiting", "locking", "pushing"}, raw : Seq(Presses), ctx : Contexts, typed : BOOLEAN]
    BY <1>1, <2>2 DEF HidInv, HidType
  <2>4. [task.ctx EXCEPT !.session = open'].place = task.ctx.place /\ [task.ctx EXCEPT !.session = open'].session = open'
    BY <1>2 DEF Contexts
  <2>. QED BY <2>3, <2>4
<1>6. HidType' /\ Taken' = Taken
  BY <1>1, <1>4, <1>5 DEF HidInv, HidType, Taken
<1>7. World'.pressed = World.pressed /\ World'.text = World.text /\ World'.owners = owners' /\ World.owners = owners
  BY <1>1 DEF World
<1>. HIDE DEF World
<1>8. HidFits(World', coal', kept', dropped', Taken')
  <2>1. coal \in Coalescers /\ kept \in Seq(HidEvents) /\ dropped \in SUBSET Nat /\ Taken \in Nat
        /\ HidFits(World, coal, kept, dropped, Taken)
    BY DEF HidInv, HidType
  <2>2. HidFits(World', coal, kept, dropped, Taken)
    BY <1>4, <1>7, <2>1, GrownFits
  <2>. QED BY <1>1, <1>6, <2>2
<1>9. Follows(World', task'.raw, Taken') /\ Follows(World', tap', Taken' + Len(task'.raw))
  BY <1>1, <1>5, <1>6, <1>7 DEF HidInv, Follows
<1>10. Placed(World', task'.ctx)
  BY <1>3, <1>4, <1>5, <1>7 DEF Placed
<1>. QED BY <1>1, <1>5, <1>6, <1>8, <1>9, <1>10, HidFacts DEF HidInv

LEMMA ActivityBindsFits == ASSUME HidInv, HidAssumption, ActivityBinds PROVE HidInv'
<1>1. UNCHANGED <<settings, tap, pressed, task, coal, kept, dropped>>
  BY DEF ActivityBinds
<1>2. /\ owners' \in Seq({AppOf(place) : place \in Windows}) /\ open' \in 0 .. Len(owners')
      /\ \A i \in DOMAIN owners : i \in DOMAIN owners' /\ owners'[i] = owners[i]
  <2>1. owners \in Seq({AppOf(place) : place \in Windows}) /\ Len(owners) \in Nat
    BY DEF HidInv, HidType
  <2>2. CASE open' = 0 /\ owners' = owners
    BY <2>1, <2>2
  <2>3. CASE \E place \in Places : owners' = Append(owners, place.app) /\ open' = Len(owners')
    <3>1. PICK place \in Places : owners' = Append(owners, place.app) /\ open' = Len(owners')
      BY <2>3
    <3>. DEFINE A == {AppOf(p) : p \in Windows}
                a == AppOf(place)
    <3>2. a \in A /\ a = place.app
      BY <3>1 DEF AppOf, Windows, HidAssumption
    <3>3. owners' = Append(owners, a) /\ owners \in Seq(A)
      BY <2>1, <3>1, <3>2
    <3>. HIDE DEF A, a
    <3>4. /\ Append(owners, a) \in Seq(A) /\ Len(Append(owners, a)) = Len(owners) + 1 /\ Len(owners) \in Nat
          /\ DOMAIN owners = 1 .. Len(owners) /\ DOMAIN Append(owners, a) = 1 .. Len(owners) + 1
          /\ \A i \in DOMAIN owners : Append(owners, a)[i] = owners[i]
      BY <3>2, <3>3, OneAppended
    <3>5. open' \in 0 .. Len(owners') /\ owners' \in Seq(A)
      BY <3>1, <3>3, <3>4
    <3>6. \A i \in DOMAIN owners : i \in DOMAIN owners' /\ owners'[i] = owners[i]
      BY <3>3, <3>4
    <3>. QED BY <3>5, <3>6 DEF A
  <2>4. (open' = 0 /\ owners' = owners) \/ \E place \in Places : owners' = Append(owners, place.app) /\ open' = Len(owners')
    BY DEF ActivityBinds
  <2>. QED BY <2>2, <2>3, <2>4
<1>3. HidType' /\ Taken' = Taken
  BY <1>1, <1>2 DEF HidInv, HidType, Taken
<1>4. World'.pressed = World.pressed /\ World'.text = World.text /\ World'.owners = owners' /\ World.owners = owners
  BY <1>1 DEF World
<1>. HIDE DEF World
<1>5. HidFits(World', coal', kept', dropped', Taken')
  <2>1. coal \in Coalescers /\ kept \in Seq(HidEvents) /\ dropped \in SUBSET Nat /\ Taken \in Nat
        /\ HidFits(World, coal, kept, dropped, Taken)
    BY DEF HidInv, HidType
  <2>2. HidFits(World', coal, kept, dropped, Taken)
    BY <1>2, <1>4, <2>1, GrownFits
  <2>. QED BY <1>1, <1>3, <2>2
<1>6. Follows(World', task'.raw, Taken') /\ Follows(World', tap', Taken' + Len(task'.raw))
  BY <1>1, <1>3, <1>4 DEF HidInv, Follows
<1>7. task'.at = "pushing" /\ task'.raw # <<>> => Placed(World', task'.ctx)
  BY <1>1, <1>2, <1>4 DEF HidInv, Placed
<1>8. /\ (task.at = "waiting" => task.raw = <<>>)' /\ (task.at # "pushing" => coal.out = <<>>)'
      /\ (task.at = "locking" => task.ctx.place \in Allowed)'
  BY <1>1 DEF HidInv, Allowed
<1>. QED BY <1>3, <1>5, <1>6, <1>7, <1>8, HidFacts DEF HidInv

LEMMA PushesFits == ASSUME HidInv, HidAssumption, Pushes PROVE HidInv'
<1>. DEFINE r == Head(task.raw)
<1>1. PICK selected \in {FALSE, settings.text} : coal' = Pushed(coal, r, task.ctx, selected)
  BY DEF Pushes
<1>2. /\ task.at = "pushing" /\ task.raw # <<>> /\ coal.out = <<>>
      /\ task' = [task EXCEPT !.raw = Tail(@), !.typed = @ \/ r.kind = "key"]
      /\ UNCHANGED <<settings, owners, open, tap, pressed, kept, dropped>>
  BY DEF Pushes
<1>3. Still /\ World' = World /\ World.text = settings.text /\ World.pressed = pressed
  BY <1>2, StillIsStill, HidFacts DEF Still
<1>4. task.raw \in Seq(Presses)
  BY DEF HidInv, HidType
<1>5. /\ r \in Presses /\ r = task.raw[1] /\ 1 \in DOMAIN task.raw
      /\ Tail(task.raw) \in Seq(Presses) /\ Len(Tail(task.raw)) = Len(task.raw) - 1 /\ Len(task.raw) \in Nat \ {0}
      /\ \A i \in DOMAIN Tail(task.raw) : i \in Nat /\ i + 1 \in DOMAIN task.raw /\ Tail(task.raw)[i] = task.raw[i + 1]
  BY <1>2, <1>4
<1>. HIDE DEF r
<1>6. r.id = Taken + 1 /\ r.kind = World.pressed[Taken + 1]
  BY <1>5 DEF HidInv, Follows
<1>7. selected \in BOOLEAN /\ (selected => World.text)
  BY <1>3 DEF HidInv, HidType
<1>8. coal \in Coalescers /\ kept \in Seq(HidEvents) /\ dropped \in SUBSET Nat /\ Taken \in Nat
      /\ HidFits(World, coal, kept, dropped, Taken) /\ task.ctx \in Contexts /\ Placed(World, task.ctx)
  BY <1>2 DEF HidInv, HidType
<1>9. /\ Pushed(coal, r, task.ctx, selected) \in Coalescers
      /\ HidFits(World, Pushed(coal, r, task.ctx, selected), kept, dropped, Taken + 1)
  <2>1. r \in Presses /\ coal.out = <<>>
    BY <1>2, <1>5
  <2>. QED BY <1>6, <1>7, <1>8, <2>1, PushedFits
<1>10. /\ task'.at = "pushing" /\ task'.raw = Tail(task.raw) /\ task'.ctx = task.ctx
       /\ task' \in [at : {"waiting", "locking", "pushing"}, raw : Seq(Presses), ctx : Contexts, typed : BOOLEAN]
  <2>1. (task.typed \/ r.kind = "key") \in BOOLEAN
    BY DEF HidInv, HidType
  <2>. QED BY <1>2, <1>5, <2>1 DEF HidInv, HidType
<1>11. HidType'
  BY <1>1, <1>2, <1>9, <1>10 DEF HidInv, HidType
<1>12. Taken' = Taken + 1 /\ Taken + 1 \in Nat
  <2>1. Len(tap') = Len(tap) /\ Len(pressed') = Len(pressed) /\ Len(task'.raw) = Len(task.raw) - 1
    BY <1>2, <1>5, <1>10
  <2>. QED BY <2>1, HidFacts DEF Taken
<1>13. HidFits(World', coal', kept', dropped', Taken')
  BY <1>1, <1>2, <1>3, <1>9, <1>12
<1>14. Follows(World', task'.raw, Taken')
  <2>1. \A i \in DOMAIN Tail(task.raw) : Taken + (i + 1) = (Taken + 1) + i
    BY <1>5, <1>8, OneFurther, Zenon
  <2>2. Follows(World, task.raw, Taken)
    BY DEF HidInv
  <2>3. \A i \in DOMAIN Tail(task.raw) :
          /\ Tail(task.raw)[i].id = (Taken + 1) + i /\ Tail(task.raw)[i].id \in DOMAIN World.pressed
          /\ Tail(task.raw)[i].kind = World.pressed[Tail(task.raw)[i].id]
    <3>1. ASSUME NEW i \in DOMAIN Tail(task.raw)
          PROVE  /\ Tail(task.raw)[i].id = (Taken + 1) + i /\ Tail(task.raw)[i].id \in DOMAIN World.pressed
                 /\ Tail(task.raw)[i].kind = World.pressed[Tail(task.raw)[i].id]
      <4>1. i + 1 \in DOMAIN task.raw /\ Tail(task.raw)[i] = task.raw[i + 1] /\ Taken + (i + 1) = (Taken + 1) + i
        BY <1>5, <2>1, <3>1, Zenon
      <4>2. /\ task.raw[i + 1].id = Taken + (i + 1) /\ task.raw[i + 1].id \in DOMAIN World.pressed
            /\ task.raw[i + 1].kind = World.pressed[task.raw[i + 1].id]
        BY <2>2, <4>1, Zenon DEF Follows
      <4>. QED BY <4>1, <4>2, Zenon
    <3>. QED BY <3>1, Zenon
  <2>4. Follows(World, Tail(task.raw), Taken + 1)
    BY <2>3, Zenon DEF Follows
  <2>. QED BY <1>3, <1>10, <1>12, <2>4
<1>15. Follows(World', tap', Taken' + Len(task'.raw))
  <2>1. Taken' + Len(task'.raw) = Taken + Len(task.raw)
    <3>1. Len(task'.raw) = Len(task.raw) - 1
      BY <1>5, <1>10, Zenon
    <3>2. (Taken + 1) + (Len(task.raw) - 1) = Taken + Len(task.raw)
      BY <1>5, <1>8, OneFurther, Zenon
    <3>. QED BY <1>12, <3>1, <3>2, Zenon
  <2>2. Follows(World, tap, Taken + Len(task.raw))
    BY DEF HidInv
  <2>. QED BY <1>2, <1>3, <2>1, <2>2
<1>. QED BY <1>3, <1>8, <1>10, <1>11, <1>12, <1>13, <1>14, <1>15 DEF HidInv

LEMMA PersistsFits == ASSUME HidInv, HidAssumption, Persists PROVE HidInv'
<1>. DEFINE e == Head(coal.out)
            b == [coal EXCEPT !.out = Tail(@)]
<1>1. /\ coal.out # <<>> /\ coal' = b
      /\ UNCHANGED <<settings, owners, open, tap, pressed, task>>
  BY DEF Persists
<1>2. \/ dropped' = dropped \cup Ids(e.of) /\ UNCHANGED kept
      \/ (settings.text \/ e.kind # "text") /\ kept' = Append(kept, e) /\ UNCHANGED dropped
  BY DEF Persists
<1>3. Still /\ World' = World /\ World.text = settings.text
  BY <1>1, StillIsStill, HidFacts DEF Still
<1>4. coal \in Coalescers /\ kept \in Seq(HidEvents) /\ dropped \in SUBSET Nat /\ Taken \in Nat
      /\ HidFits(World, coal, kept, dropped, Taken)
  BY DEF HidInv, HidType
<1>5. /\ b \in Coalescers /\ e \in HidEvents /\ Ids(e.of) \subseteq Nat
      /\ World.text \/ e.kind # "text" => HidFits(World, b, Append(kept, e), dropped, Taken)
      /\ HidFits(World, b, kept, dropped \cup Ids(e.of), Taken)
  BY <1>1, <1>4, FirstFits
<1>6. Append(kept, e) \in Seq(HidEvents)
  BY <1>4, <1>5, OneAppended
<1>. HIDE DEF b, e
<1>7. kept' \in Seq(HidEvents) /\ dropped' \subseteq Nat
  BY <1>2, <1>4, <1>5, <1>6
<1>8. HidType' /\ Taken' = Taken
  BY <1>1, <1>5, <1>7 DEF HidInv, HidType, Taken
<1>9. HidFits(World, b, kept', dropped', Taken)
  BY <1>2, <1>3, <1>5
<1>10. HidFits(World', coal', kept', dropped', Taken')
  BY <1>1, <1>3, <1>8, <1>9
<1>11. Follows(World', task'.raw, Taken') /\ Follows(World', tap', Taken' + Len(task'.raw))
       /\ (task'.at = "pushing" /\ task'.raw # <<>> => Placed(World', task'.ctx))
  BY <1>1, <1>3, <1>8 DEF HidInv
<1>12. task.at = "pushing"
  BY <1>1 DEF HidInv
<1>. QED BY <1>1, <1>4, <1>8, <1>10, <1>11, <1>12 DEF HidInv

LEMMA TickEndsFits == ASSUME HidInv, HidAssumption, TickEnds PROVE HidInv'
<1>1. /\ task.at = "pushing" /\ task.raw = <<>> /\ coal.out = <<>> /\ task' = AtRest
      /\ \/ UNCHANGED <<coal, dropped>>
         \/ coal' = WithoutText /\ dropped' = dropped \cup Ids(coal.text)
      /\ UNCHANGED <<settings, owners, open, tap, pressed, kept>>
  BY DEF TickEnds
<1>2. Still /\ World' = World
  BY <1>1, StillIsStill DEF Still
<1>3. coal \in Coalescers /\ kept \in Seq(HidEvents) /\ dropped \in SUBSET Nat /\ Taken \in Nat
      /\ HidFits(World, coal, kept, dropped, Taken)
  BY DEF HidInv, HidType
<1>4. /\ WithoutText \in Coalescers /\ HidFits(World, WithoutText, kept, dropped \cup Ids(coal.text), Taken)
      /\ WithoutText.out = coal.out /\ Ids(coal.text) \subseteq Nat
  <2>1. /\ WithoutText \in Coalescers /\ HidFits(World, WithoutText, kept, dropped \cup Ids(coal.text), Taken)
    BY <1>3, DiscardFits DEF WithoutText
  <2>2. WithoutText.out = coal.out
    BY <1>3 DEF WithoutText, Coalescers
  <2>3. Ids(coal.text) \subseteq Nat
    BY <1>3 DEF HidFits, OpenText
  <2>. QED BY <2>1, <2>2, <2>3
<1>5. /\ coal' \in Coalescers /\ dropped' \subseteq Nat /\ HidFits(World, coal', kept, dropped', Taken) /\ coal'.out = <<>>
  BY <1>1, <1>3, <1>4
<1>6. /\ task'.at = "waiting" /\ task'.raw = <<>>
      /\ task' \in [at : {"waiting", "locking", "pushing"}, raw : Seq(Presses), ctx : Contexts, typed : BOOLEAN]
  BY <1>1 DEF AtRest, NoCtx, Contexts, Windows
<1>7. HidType'
  BY <1>1, <1>5, <1>6 DEF HidInv, HidType
<1>8. Taken' = Taken
  BY <1>1, <1>6 DEF Taken
<1>9. HidFits(World', coal', kept', dropped', Taken')
  BY <1>1, <1>2, <1>5, <1>8
<1>10. Follows(World', task'.raw, Taken') /\ Follows(World', tap', Taken' + Len(task'.raw))
  BY <1>1, <1>2, <1>6, <1>8 DEF HidInv
<1>. QED BY <1>3, <1>5, <1>6, <1>7, <1>8, <1>9, <1>10 DEF HidInv

LEMMA HidStill == ASSUME HidInv, UNCHANGED hidVars \/ Stats PROVE HidInv'
<1>1. UNCHANGED <<settings, owners, open, tap, pressed, task, coal, kept, dropped>>
  BY DEF hidVars, Stats
<1>2. World' = World /\ Taken' = Taken
  BY <1>1 DEF World, Taken
<1>3. HidType'
  BY <1>1 DEF HidInv, HidType
<1>. QED BY <1>1, <1>2, <1>3 DEF HidInv, Allowed

LEMMA HidAtFirst == ASSUME HidInit, HidAssumption PROVE HidInv
<1>1. /\ owners = <<>> /\ open = 0 /\ tap = <<>> /\ pressed = <<>> /\ task = AtRest
      /\ coal = [text |-> <<>>, ctx |-> NoCtx, drag |-> <<>>, out |-> <<>>]
      /\ kept = <<>> /\ dropped = {} /\ settings \in [observe : BOOLEAN, text : BOOLEAN]
  BY DEF HidInit
<1>2. NoCtx \in Contexts
  BY DEF NoCtx, Contexts, Windows
<1>3. coal \in Coalescers /\ coal.text = <<>> /\ coal.drag = <<>> /\ coal.out = <<>>
  BY <1>1, <1>2 DEF Coalescers
<1>4. task.at = "waiting" /\ task.raw = <<>>
      /\ task \in [at : {"waiting", "locking", "pushing"}, raw : Seq(Presses), ctx : Contexts, typed : BOOLEAN]
  BY <1>1, <1>2 DEF AtRest
<1>5. HidType
  BY <1>1, <1>3, <1>4 DEF HidType
<1>6. Taken = 0
  <2>1. Len(pressed) = 0 /\ Len(tap) = 0 /\ Len(task.raw) = 0
    BY <1>1, <1>4
  <2>. QED BY <2>1 DEF Taken
<1>7. Ids(coal.text) = {} /\ Ids(coal.drag) = {}
  BY <1>3, IdsOfNone
<1>8. HidFits(World, coal, kept, dropped, Taken)
  BY <1>1, <1>3, <1>6, <1>7 DEF HidFits, OpenText, OpenDrag, AllGood, AllAhead, AheadOfOpen, TheseAhead,
     GivenUp, Somewhere, Rising
<1>9. Follows(World, task.raw, Taken) /\ Follows(World, tap, Taken + Len(task.raw))
  BY <1>1, <1>4 DEF Follows
<1>. QED BY <1>3, <1>4, <1>5, <1>6, <1>8, <1>9 DEF HidInv

\* The invariant holds in every reachable state.
THEOREM HidInductive == HidSpec => []HidInv
<1>1. HidInit => HidInv
  BY HidAtFirst, HidAssumption
<1>2. HidInv /\ [HidNext]_hidVars => HidInv'
  <2>. SUFFICES ASSUME HidInv, [HidNext]_hidVars PROVE HidInv'
    OBVIOUS
  <2>. USE HidAssumption
  <2>1. CASE Press
    BY <2>1, PressFits
  <2>2. CASE ActivityBinds
    BY <2>2, ActivityBindsFits
  <2>3. CASE TickClosed \/ TickOff
    BY <2>3, DiscardsFits DEF TickClosed, TickOff
  <2>4. CASE TickQuiet
    BY <2>4, TickQuietFits
  <2>5. CASE TickDrains
    BY <2>5, TickDrainsFits
  <2>6. CASE TickHasNoSession
    BY <2>6, TickHasNoSessionFits
  <2>7. CASE TickBinds
    BY <2>7, TickBindsFits
  <2>8. CASE Pushes
    BY <2>8, PushesFits
  <2>9. CASE Persists
    BY <2>9, PersistsFits
  <2>10. CASE FlushesDue
    BY <2>10, FlushesDueFits
  <2>11. CASE TickEnds
    BY <2>11, TickEndsFits
  <2>12. CASE Stats \/ UNCHANGED hidVars
    BY <2>12, HidStill
  <2>. QED BY <2>1, <2>2, <2>3, <2>4, <2>5, <2>6, <2>7, <2>8, <2>9, <2>10, <2>11, <2>12
           DEF HidNext, InputTask
<1>. QED BY <1>1, <1>2, PTL DEF HidSpec

LEMMA KeysOfTexts == \A s, a : a \in KeysOf(Texts(s)) <=> InTexts(a, s)
BY DEF KeysOf, Texts, InTexts

LEMMA KeysAreAccounted == ASSUME HidInv PROVE KeysAccounted
<1>. DEFINE keys == {k \in DOMAIN pressed : pressed[k] = "key"}
            A == Ids(tap) \cup Ids(task.raw)
            B == Ids(coal.text)
            C == KeysOf(Texts(coal.out))
            D == KeysOf(Texts(kept))
<1>1. HidFits(World, coal, kept, dropped, Taken) /\ World.pressed = pressed
  BY HidFacts DEF HidInv
<1>2. /\ Ids(task.raw) = (Taken + 1) .. (Taken + Len(task.raw))
      /\ Ids(tap) = (Taken + Len(task.raw) + 1) .. (Taken + Len(task.raw) + Len(tap))
  <2>1. /\ tap \in Seq(Presses) /\ task.raw \in Seq(Presses)
        /\ Follows(World, task.raw, Taken) /\ Follows(World, tap, Taken + Len(task.raw))
        /\ Taken \in Nat /\ Taken + Len(task.raw) \in Nat
    BY HidFacts DEF HidInv, HidType
  <2>. QED BY <2>1, IdsOfQueue
<1>3. \A a \in A : a \in Int /\ a > Taken
  BY <1>2, HidFacts
<1>4. \A a \in DOMAIN pressed : a \in 1 .. Taken \/ a \in A
  BY <1>2, HidFacts
<1>5. \A a : (a \in C <=> InTexts(a, coal.out)) /\ (a \in D <=> InTexts(a, kept))
  BY KeysOfTexts
<1>6. \A a \in B \cup C \cup D \cup dropped : a \in 1 .. Taken
  BY <1>1, <1>5 DEF HidFits, OpenText, AllGood, Good, InTexts, GivenUp
<1>7. \A a \in B \cup C \cup D \cup dropped : a \in Int /\ ~(a > Taken) /\ ~(a < a)
  BY <1>6, HidFacts
<1>8. keys \subseteq A \cup B \cup C \cup D \cup dropped
  <2>1. ASSUME NEW a \in keys, a \in 1 .. Taken PROVE a \in B \cup C \cup D \cup dropped
    BY <1>1, <1>5, <2>1 DEF HidFits, Somewhere
  <2>. QED BY <1>4, <2>1
<1>9. /\ A \cap B = {} /\ A \cap C = {} /\ A \cap D = {} /\ A \cap dropped = {}
  <2>. HIDE DEF A, B, C, D
  <2>. QED BY <1>3, <1>7
<1>10. B \cap C = {} /\ B \cap D = {}
  BY <1>1, <1>5, <1>7 DEF HidFits, AheadOfOpen, InTexts
<1>11. C \cap D = {}
  BY <1>1, <1>5, <1>7 DEF HidFits, TheseAhead, Ahead, InTexts
<1>12. B \cap dropped = {} /\ C \cap dropped = {} /\ D \cap dropped = {}
  BY <1>1, <1>5 DEF HidFits, GivenUp
<1>13. \A i, j \in DOMAIN kept : kept[i].kind = "text" /\ kept[j].kind = "text" =>
         \A m \in DOMAIN kept[i].of, n \in DOMAIN kept[j].of :
           i < j \/ (i = j /\ m < n) => kept[i].of[m].id < kept[j].of[n].id
  <2>1. ASSUME NEW i \in DOMAIN kept, NEW j \in DOMAIN kept, kept[i].kind = "text", kept[j].kind = "text",
               NEW m \in DOMAIN kept[i].of, NEW n \in DOMAIN kept[j].of, i < j \/ (i = j /\ m < n)
        PROVE  kept[i].of[m].id < kept[j].of[n].id
    <3>1. CASE i < j
      <4>1. kept[i].of[m].id \in Ids(kept[i].of) /\ kept[j].of[n].id \in Ids(kept[j].of)
        BY DEF Ids
      <4>2. Ahead(kept[i], kept[j])
        BY <1>1, <3>1 DEF HidFits, AllAhead
      <4>. QED BY <2>1, <4>1, <4>2 DEF Ahead
    <3>2. CASE i = j /\ m < n
      <4>1. Rising(kept[i].of)
        BY <1>1, <2>1 DEF HidFits, AllGood, Good
      <4>. QED BY <3>2, <4>1 DEF Rising
    <3>. QED BY <2>1, <3>1, <3>2
  <2>. QED BY <2>1
<1>. DEFINE places == <<A, B, C, D, dropped>>
<1>14. keys \subseteq UNION {places[i] : i \in DOMAIN places}
  <2>. HIDE DEF A, B, C, D, keys
  <2>1. /\ DOMAIN places = 1 .. 5 /\ places[1] = A /\ places[2] = B /\ places[3] = C
        /\ places[4] = D /\ places[5] = dropped
    OBVIOUS
  <2>2. \A i \in 1 .. 5 : places[i] \subseteq UNION {places[j] : j \in DOMAIN places}
    BY <2>1
  <2>3. 1 \in 1 .. 5 /\ 2 \in 1 .. 5 /\ 3 \in 1 .. 5 /\ 4 \in 1 .. 5 /\ 5 \in 1 .. 5
    OBVIOUS
  <2>. HIDE DEF places
  <2>. QED BY <1>8, <2>1, <2>2, <2>3
<1>15. \A i, j \in DOMAIN places : i # j => places[i] \cap places[j] = {}
  <2>. HIDE DEF A, B, C, D, keys
  <2>1. /\ DOMAIN places = 1 .. 5 /\ places[1] = A /\ places[2] = B /\ places[3] = C
        /\ places[4] = D /\ places[5] = dropped
    OBVIOUS
  <2>2. \A i \in 1 .. 5 : i = 1 \/ i = 2 \/ i = 3 \/ i = 4 \/ i = 5
    OBVIOUS
  <2>. HIDE DEF places
  <2>. QED BY <1>9, <1>10, <1>11, <1>12, <2>1, <2>2
<1>. QED BY <1>13, <1>14, <1>15 DEF KeysAccounted

LEMMA EventsAreInPlace == ASSUME HidInv PROVE EventsInPlace
<1>1. /\ HidFits(World, coal, kept, dropped, Taken)
      /\ World.owners = owners /\ World.text = settings.text /\ DOMAIN owners = 1 .. Len(owners)
  BY HidFacts DEF HidInv
<1>2. ASSUME NEW i \in DOMAIN kept
      PROVE  /\ kept[i].kind = "text" => \A k \in DOMAIN kept[i].of : kept[i].of[k].ctx = kept[i].ctx
             /\ kept[i].ctx.session # 0 /\ owners[kept[i].ctx.session] = AppOf(kept[i].ctx.place)
             /\ AppOf(kept[i].ctx.place) \notin HidBlocked /\ (kept[i].ctx.place = NoPlace => HidBlocked = {})
             /\ ~settings.text => kept[i].kind \notin {"text", "selection"}
  <2>1. Good(World, kept[i], Taken)
    BY <1>1 DEF HidFits, AllGood
  <2>2. kept[i].ctx.session \in DOMAIN owners /\ owners[kept[i].ctx.session] = AppOf(kept[i].ctx.place)
        /\ AppOf(kept[i].ctx.place) \notin HidBlocked /\ (kept[i].ctx.place = NoPlace => HidBlocked = {})
    BY <1>1, <2>1 DEF Good, Placed
  <2>3. kept[i].ctx.session # 0
    BY <1>1, <2>2
  <2>4. ~settings.text => kept[i].kind \notin {"text", "selection"}
    BY <1>1, <2>1 DEF Good, HidFits
  <2>. QED BY <2>1, <2>2, <2>3, <2>4 DEF Good
<1>. QED BY <1>2 DEF EventsInPlace

LEMMA PressesArePaired == ASSUME HidInv PROVE PressesPaired
<1>1. HidFits(World, coal, kept, dropped, Taken) /\ DOMAIN kept = 1 .. Len(kept) /\ Taken \in Nat
  BY HidFacts DEF HidInv, HidType
<1>2. ASSUME NEW i \in DOMAIN kept, NEW j \in DOMAIN kept, Mouse(kept[i])
      PROVE  /\ kept[i].of[1].id < kept[i].of[2].id
             /\ i # j => Ids(kept[i].of) \cap Ids(kept[j].of) = {}
  <2>1. Good(World, kept[i], Taken) /\ Good(World, kept[j], Taken)
    BY <1>1 DEF HidFits, AllGood
  <2>2. ASSUME i # j, NEW a \in Ids(kept[i].of), a \in Ids(kept[j].of) PROVE FALSE
    <3>1. a \in Int /\ ~(a < a) /\ World.pressed[a] \in Made(kept[i]) /\ World.pressed[a] \in Made(kept[j])
      BY <2>1, <2>2, <1>1 DEF Good
    <3>2. Mouse(kept[j])
      BY <1>2, <3>1 DEF Made, Mouse
    <3>3. i < j \/ j < i
      BY <1>1, <2>2
    <3>4. Ahead(kept[i], kept[j]) \/ Ahead(kept[j], kept[i])
      BY <1>1, <3>3 DEF HidFits, AllAhead
    <3>. QED BY <1>2, <2>2, <3>1, <3>2, <3>4 DEF Ahead
  <2>. QED BY <1>2, <2>1, <2>2 DEF Good
<1>. QED BY <1>2 DEF PressesPaired

\* What was typed and clicked is stored once, where it was done: every character is
\* on the tap, in the open text, in one text, or given up; texts keep the order of
\* the keys and name the window and the session they were typed in; a release ends
\* one press (HidInput: the coalescer and the input task).
THEOREM InputKept == HidSpec => []InputAccounted
<1>1. HidInv => InputAccounted
  BY KeysAreAccounted, EventsAreInPlace, PressesArePaired DEF InputAccounted
<1>. QED BY <1>1, HidInductive, PTL
=============================================================================
