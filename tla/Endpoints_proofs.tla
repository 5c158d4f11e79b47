-------------------------- MODULE Endpoints_proofs --------------------------
(***************************************************************************)
(* The two ends of the daemon's sockets that act on their own: the queue   *)
(* of the browser extension, with the tables its events end in, and the    *)
(* four machines behind "computer use".  They meet in files and sockets    *)
(* that each of them models, so each is proved about on its own.           *)
(***************************************************************************)
EXTENDS BrowserIntake, BrowserVisits, ActDriver, CuaServer, CuaInstall, InputReplay, Integers,
        SequenceTheorems, FiniteSetTheorems, WellFoundedInduction, TLAPS

-----------------------------------------------------------------------------
(***************************************************************************)
(* The extension's promises about its observations, for any number of      *)
(* observations, of overlapping flushes and of faults.                     *)
(*                                                                         *)
(* The invariant records what a call of flushQueue may rely on after its   *)
(* awaits, however the queue has changed meanwhile: its batch holds only   *)
(* observations whose enqueueEvent is over, so none of them can enter the  *)
(* queue again; an answer "stored" means that the batch and a gap are in   *)
(* the daemon; and once it has settled, its batch is out of the queue.     *)
(***************************************************************************)

Queued == {o \in Obs : task[o] = "queued"}

Batched == {"sent", "answered", "settled"}

FlushKnows(f) ==
  LET c == flush[f]
  IN  /\ c.pc \in Batched => c.ids \subseteq Queued
      /\ c.pc \in {"answered", "settled"} /\ c.answer = "stored" =>
           c.ids \subseteq daemon.stored /\ (c.gap # NoGap => daemon.told # {})
      /\ c.pc = "settled" => c.ids \cap queue = {}

\* A gap has a name; what is queued or counted was enqueued.
Transport ==
  /\ gap.id = 0 => gap = NoGap
  /\ queue \subseteq Queued /\ dropped \subseteq Queued

RejectedWasQueued == \A o \in Obs : archive[o] = "rejected" => o \in Queued

IntakeInv ==
  /\ TypeOK /\ Transport /\ \A f \in Flushes : FlushKnows(f)
  /\ LossesCounted /\ GapExplained
  /\ SyncedIsStored /\ RejectedIsNotResent /\ RejectedWasQueued

-----------------------------------------------------------------------------

FlushRec == [pc : {"idle", "begun", "sent", "answered", "settled", "marked"},
             ids : SUBSET Obs, gap : Gaps, answer : Verdicts]

LEMMA RestingRec == Resting \in FlushRec
  BY DEF Resting, FlushRec, Gaps, NoGap, Verdicts

LEMMA FaultCounted ==
  ASSUME IntakeAssumption, TypeOK, faults < MaxFaults, faults' = faults + 1
  PROVE  faults' \in 0 .. MaxFaults
  BY DEF IntakeAssumption, TypeOK

LEMMA CountOf ==
  ASSUME IntakeAssumption, NEW S \in SUBSET Obs
  PROVE  /\ Cardinality(S) \in Nat
         /\ S # {} => Cardinality(S) # 0
<1>1. IsFiniteSet(S)
  BY FS_Subset DEF IntakeAssumption
<1>. QED
  BY <1>1, FS_CardinalityType, FS_EmptySet

\* What leaves the queue unsent is counted and explained.
LEMMA DropExplains ==
  ASSUME IntakeAssumption, TypeOK, Transport, GapExplained,
         NEW D \in SUBSET Obs, Drop(D), D \subseteq Queued', Queued \subseteq Queued',
         UNCHANGED daemon
  PROVE  /\ dropped' = dropped \cup D /\ dropped' \subseteq Queued' /\ dropped' \subseteq Obs
         /\ gap' \in Gaps
         /\ (gap.id = 0 => gap = NoGap)'
         /\ GapExplained'
<1>. DEFINE n == Cardinality(dropped \cup D)
<1>1. n \in Nat /\ (D # {} => n # 0)
  <2>1. dropped \cup D \in SUBSET Obs
    BY DEF TypeOK
  <2>. QED BY <2>1, CountOf
<1>2. /\ dropped' = dropped \cup D
      /\ gap' = IF D = {} THEN gap ELSE [id |-> IF gap = NoGap THEN n ELSE gap.id, count |-> n]
  BY DEF Drop
<1>3. gap \in Gaps /\ NoGap \in Gaps /\ NoGap.id = 0 /\ NoGap.count = 0
  BY DEF TypeOK, Gaps, NoGap
<1>4. CASE D = {}
  BY <1>2, <1>3, <1>4 DEF Transport, GapExplained, TypeOK
<1>5. CASE D # {}
  <2>. DEFINE i == IF gap = NoGap THEN n ELSE gap.id
  <2>1. i \in Nat /\ i # 0
    BY <1>1, <1>3, <1>5 DEF Transport, Gaps
  <2>2. gap' = [id |-> i, count |-> n]
    BY <1>2, <1>5
  <2>3. gap'.id = i /\ gap'.count = n /\ gap' \in Gaps
    BY <2>1, <2>2, <1>1 DEF Gaps
  <2>4. gap' # NoGap
    BY <2>1, <2>3, <1>3
  <2>5. gap'.count = Cardinality(dropped')
    BY <2>3, <1>2
  <2>. HIDE DEF i, n
  <2>6. GapExplained'
    BY <2>4, <2>5 DEF GapExplained, NoGap
  <2>. QED
    BY <1>2, <2>1, <2>3, <2>6 DEF Transport, TypeOK, NoGap
<1>. QED BY <1>4, <1>5

LEMMA InitIInv ==
  ASSUME IntakeAssumption, Init
  PROVE  IntakeInv
<1>1. Resting \in FlushRec /\ Resting.pc = "idle"
  BY RestingRec DEF Resting
<1>2. TypeOK
  BY <1>1 DEF Init, TypeOK, FlushRec, Gaps, NoGap, IntakeAssumption
<1>3. \A f \in Flushes : flush[f].pc = "idle"
  BY <1>1 DEF Init
<1>. QED
  BY <1>2, <1>3
  DEF IntakeInv, Init, Transport, FlushKnows, Batched, LossesCounted, GapExplained, SyncedIsStored,
      RejectedIsNotResent, RejectedWasQueued, NoGap

\* Steps that leave queue, archive and the daemon's store alone, and add to the
\* enqueued observations at most: each flush still knows what it knew.
LEMMA FlushKept ==
  ASSUME NEW f \in Flushes, FlushKnows(f), flush'[f] = flush[f], Queued \subseteq Queued',
         daemon.stored \subseteq daemon'.stored, daemon.told \subseteq daemon'.told,
         \A o \in queue' : o \in queue \/ o \notin Queued
  PROVE  FlushKnows(f)'
  BY DEF FlushKnows, Batched

LEMMA ObservationStep ==
  ASSUME IntakeAssumption, IntakeInv, NEW o \in Obs,
         PassGate(o) \/ Archive(o) \/ ArchiveFails(o)
  PROVE  IntakeInv'
<1>1. /\ UNCHANGED <<transport, flush, daemon>> /\ Queued' = Queued
      /\ task[o] # "queued" /\ task' \in [Obs -> {"new", "passed", "archived", "queued", "gone"}]
      /\ \A p \in Obs : task'[p] = "queued" <=> task[p] = "queued"
  BY DEF PassGate, Archive, ArchiveFails, IntakeInv, TypeOK, Queued
<1>2. \A p \in Obs : archive'[p] = archive[p] \/ archive'[p] = "pending"
  BY DEF PassGate, Archive, ArchiveFails, IntakeInv, TypeOK
<1>3. TypeOK'
  BY <1>1 DEF PassGate, Archive, ArchiveFails, IntakeInv, TypeOK, transport, IntakeAssumption
<1>4. \A f \in Flushes : FlushKnows(f)'
  BY <1>1, FlushKept DEF IntakeInv, transport
<1>. QED
  BY <1>1, <1>2, <1>3, <1>4
  DEF IntakeInv, transport, Transport, LossesCounted, GapExplained, SyncedIsStored,
      RejectedIsNotResent, RejectedWasQueued

LEMMA EnqueueStep ==
  ASSUME IntakeAssumption, IntakeInv, NEW o \in Obs, Enqueue(o)
  PROVE  IntakeInv'
<1>. DEFINE D == (queue \cup {o}) \ queue'
<1>1. /\ Queued' = Queued \cup {o} /\ o \notin Queued
      /\ task' \in [Obs -> {"new", "passed", "archived", "queued", "gone"}]
      /\ UNCHANGED <<conf, archive, flush, daemon, faults>>
  BY DEF Enqueue, IntakeInv, TypeOK, Queued
<1>2. queue' \subseteq queue \cup {o} /\ D \subseteq Obs /\ Drop(D)
  BY DEF Enqueue, KeptFrom, IntakeInv, TypeOK
<1>3. queue' \subseteq Queued' /\ D \subseteq Queued'
  BY <1>1, <1>2 DEF IntakeInv, Transport
<1>4. /\ dropped' = dropped \cup D /\ dropped' \subseteq Queued' /\ dropped' \subseteq Obs
      /\ gap' \in Gaps
      /\ (gap.id = 0 => gap = NoGap)'
      /\ GapExplained'
  <2>. HIDE DEF D
  <2>. QED BY <1>1, <1>2, <1>3, DropExplains DEF IntakeInv
<1>5. TypeOK'
  <2>1. Cardinality({p \in Obs : arrival[p] > 0}) + 1 \in Nat
    BY CountOf
  <2>2. arrival' \in [Obs -> Nat]
    BY <2>1 DEF Enqueue, IntakeInv, TypeOK
  <2>. QED BY <1>1, <1>2, <1>4, <2>2 DEF IntakeInv, TypeOK
<1>6. \A f \in Flushes : FlushKnows(f)'
  BY <1>1, <1>2, FlushKept DEF IntakeInv
<1>7. LossesCounted'
  BY <1>1, <1>2, <1>4 DEF IntakeInv, LossesCounted, Queued
<1>8. SyncedIsStored' /\ RejectedIsNotResent' /\ RejectedWasQueued'
  BY <1>1, <1>2 DEF IntakeInv, SyncedIsStored, RejectedIsNotResent, RejectedWasQueued
<1>. QED
  BY <1>3, <1>4, <1>5, <1>6, <1>7, <1>8 DEF IntakeInv, Transport

-----------------------------------------------------------------------------
(* The steps of one flush: it says what it knows, the others are kept. *)

\* A step of f that changes nothing but f, f's configuration and the faults.
LEMMA FlushAlone ==
  ASSUME IntakeInv, NEW f \in Flushes, TypeOK', FlushKnows(f)',
         UNCHANGED <<transport, task, archive, daemon>>,
         \A g \in Flushes \ {f} : flush'[g] = flush[g]
  PROVE  IntakeInv'
<1>1. \A g \in Flushes : FlushKnows(g)'
  BY FlushKept DEF IntakeInv, transport, Queued
<1>. QED
  BY <1>1
  DEF IntakeInv, transport, Transport, Queued, LossesCounted, GapExplained, SyncedIsStored,
      RejectedIsNotResent, RejectedWasQueued

\* A call that ends knows nothing.
LEMMA RestStep ==
  ASSUME IntakeInv, NEW f \in Flushes, flush' = [flush EXCEPT ![f] = Resting],
         UNCHANGED <<transport, conf, task, archive, daemon>>, faults' \in 0 .. MaxFaults
  PROVE  IntakeInv'
<1>1. TypeOK'
  BY RestingRec DEF IntakeInv, TypeOK, transport, FlushRec
<1>2. flush'[f].pc = "idle"
  BY DEF IntakeInv, TypeOK, Resting
<1>3. FlushKnows(f)'
  BY <1>2 DEF FlushKnows, Batched
<1>. QED
  BY <1>1, <1>3, FlushAlone DEF IntakeInv, TypeOK

LEMMA AskStep ==
  ASSUME IntakeAssumption, IntakeInv, NEW f \in Flushes,
         BeginFlush(f) \/ Send(f) \/ Refuse(f) \/ Fail(f) \/ LoseAnswer(f) \/ KeepBatch(f)
  PROVE  IntakeInv'
<1>. /\ flush \in [Flushes -> FlushRec] /\ TypeOK /\ FlushKnows(f)
  BY DEF IntakeInv, TypeOK, FlushRec
<1>1. CASE BeginFlush(f)
  <2>1. flush' = [flush EXCEPT ![f] = [flush[f] EXCEPT !.pc = "begun"]]
    BY <1>1 DEF BeginFlush, Goto
  <2>2. TypeOK'
    BY <1>1, <2>1 DEF BeginFlush, TypeOK, transport, FlushRec
  <2>3. FlushKnows(f)'
    BY <2>1 DEF FlushKnows, Batched, FlushRec
  <2>. QED
    BY <1>1, <2>1, <2>2, <2>3, FlushAlone DEF BeginFlush
<1>2. CASE Send(f)
  <2>1. CASE queue = {} /\ gap = NoGap
    BY <1>2, <2>1, RestStep DEF Send, TypeOK
  <2>2. CASE ~(queue = {} /\ gap = NoGap)
    <3>1. flush' = [flush EXCEPT ![f] = [flush[f] EXCEPT !.pc = "sent", !.ids = Batch, !.gap = gap]]
      BY <1>2, <2>2 DEF Send
    <3>2. Batch \subseteq queue
      BY DEF Batch
    <3>3. Batch \subseteq Obs /\ gap \in Gaps
      BY <3>2 DEF TypeOK
    <3>. HIDE DEF Batch
    <3>. DEFINE c == [flush[f] EXCEPT !.pc = "sent", !.ids = Batch, !.gap = gap]
    <3>a. c \in FlushRec
      BY <3>3 DEF FlushRec
    <3>4. TypeOK'
      BY <1>2, <3>1, <3>a DEF Send, TypeOK, transport, FlushRec
    <3>5. flush'[f].pc = "sent" /\ flush'[f].ids = Batch
      BY <3>1 DEF FlushRec
    <3>6. FlushKnows(f)'
      BY <1>2, <3>2, <3>5 DEF Send, IntakeInv, Transport, FlushKnows, Batched, Queued
    <3>. QED
      BY <1>2, <3>1, <3>4, <3>6, FlushAlone DEF Send
  <2>. QED BY <2>1, <2>2
<1>3. ASSUME NEW a \in {"locked", "invalid", "error"}, Replied(f, a), flush[f].pc = "sent",
             UNCHANGED <<transport, conf, task, archive, daemon>>, faults' \in 0 .. MaxFaults
      PROVE  IntakeInv'
  <2>1. flush' = [flush EXCEPT ![f] = [flush[f] EXCEPT !.pc = "answered", !.answer = a]]
    BY <1>3 DEF Replied
  <2>. DEFINE c == [flush[f] EXCEPT !.pc = "answered", !.answer = a]
  <2>a. c \in FlushRec
    BY DEF FlushRec, Verdicts
  <2>2. TypeOK'
    BY <1>3, <2>1, <2>a DEF TypeOK, transport, FlushRec
  <2>3. /\ flush'[f].pc = "answered" /\ flush'[f].answer = a
        /\ flush'[f].ids = flush[f].ids /\ flush'[f].gap = flush[f].gap
    BY <2>1 DEF FlushRec
  <2>4. FlushKnows(f)'
    BY <1>3, <2>3 DEF FlushKnows, Batched, Queued
  <2>. QED
    BY <1>3, <2>1, <2>2, <2>4, FlushAlone
<1>4. CASE Refuse(f)
  BY <1>3, <1>4 DEF Refuse, TypeOK
<1>5. CASE Fail(f)
  <2>1. faults' \in 0 .. MaxFaults
    BY <1>5, FaultCounted DEF Fail
  <2>. QED BY <1>3, <1>5, <2>1 DEF Fail
<1>6. CASE LoseAnswer(f)
  <2>1. faults' \in 0 .. MaxFaults
    BY <1>6, FaultCounted DEF LoseAnswer
  <2>. QED BY <1>6, <2>1, RestStep DEF LoseAnswer
<1>7. CASE KeepBatch(f)
  BY <1>7, RestStep DEF KeepBatch, TypeOK
<1>. QED BY <1>1, <1>2, <1>4, <1>5, <1>6, <1>7

LEMMA AcceptStep ==
  ASSUME IntakeAssumption, IntakeInv, NEW f \in Flushes, Accept(f)
  PROVE  IntakeInv'
<1>. /\ flush \in [Flushes -> FlushRec] /\ TypeOK /\ FlushKnows(f)
  BY DEF IntakeInv, TypeOK, FlushRec
<1>. DEFINE c == [flush[f] EXCEPT !.pc = "answered", !.answer = "stored"]
<1>1. flush' = [flush EXCEPT ![f] = c] /\ flush[f].pc = "sent"
      /\ UNCHANGED <<transport, conf, task, archive, faults>>
  BY DEF Accept, Replied
<1>2. c \in FlushRec /\ c.pc = "answered" /\ c.answer = "stored"
      /\ c.ids = flush[f].ids /\ c.gap = flush[f].gap
  BY DEF FlushRec, Verdicts
<1>3. flush[f].ids \in SUBSET Obs /\ flush[f].gap \in Gaps
  BY DEF FlushRec
<1>4. /\ Told(flush[f].gap) \subseteq Gaps /\ daemon.told \subseteq Told(flush[f].gap)
      /\ flush[f].gap # NoGap => Told(flush[f].gap) # {}
  BY <1>3 DEF Told, TypeOK
<1>. HIDE DEF c
<1>5. /\ daemon' \in [open : BOOLEAN, stored : SUBSET Obs, told : SUBSET Gaps]
      /\ daemon'.stored = daemon.stored \cup flush[f].ids
      /\ daemon'.told = Told(flush[f].gap)
  BY <1>3, <1>4 DEF Accept, TypeOK
<1>6. TypeOK'
  BY <1>1, <1>2, <1>5 DEF TypeOK, transport, FlushRec
<1>7. FlushKnows(f)'
  BY <1>1, <1>2, <1>4, <1>5 DEF FlushKnows, Batched, Queued
<1>8. \A g \in Flushes : FlushKnows(g)'
  BY <1>1, <1>4, <1>5, <1>7, FlushKept DEF IntakeInv, transport, Queued
<1>9. GapExplained'
  BY <1>1, <1>4, <1>5 DEF IntakeInv, GapExplained, transport
<1>. QED
  BY <1>1, <1>5, <1>6, <1>8, <1>9
  DEF IntakeInv, transport, Transport, Queued, LossesCounted, SyncedIsStored, RejectedIsNotResent,
      RejectedWasQueued

LEMMA SettleStep ==
  ASSUME IntakeAssumption, IntakeInv, NEW f \in Flushes, AcknowledgeBatch(f) \/ DiscardBatch(f)
  PROVE  IntakeInv'
<1>. /\ flush \in [Flushes -> FlushRec] /\ TypeOK /\ FlushKnows(f)
  BY DEF IntakeInv, TypeOK, FlushRec
<1>. DEFINE c == [flush[f] EXCEPT !.pc = "settled"]
            D == queue \cap flush[f].ids
<1>1. /\ flush' = [flush EXCEPT ![f] = c] /\ flush[f].pc = "answered"
      /\ queue' = queue \ flush[f].ids
      /\ UNCHANGED <<arrival, conf, task, archive, daemon, faults>>
  BY DEF AcknowledgeBatch, DiscardBatch, Goto
<1>2. c \in FlushRec /\ c.pc = "settled" /\ c.answer = flush[f].answer
      /\ c.ids = flush[f].ids /\ c.gap = flush[f].gap
  BY DEF FlushRec
<1>3. Queued' = Queued
  BY <1>1 DEF Queued
<1>. HIDE DEF c
<1>4. FlushKnows(f)'
  BY <1>1, <1>2, <1>3 DEF FlushKnows, Batched
<1>5. \A g \in Flushes : FlushKnows(g)'
  BY <1>1, <1>3, <1>4, FlushKept DEF IntakeInv
<1>6. /\ dropped' \subseteq Queued /\ dropped' \subseteq Obs /\ gap' \in Gaps
      /\ (gap.id = 0 => gap = NoGap)'
      /\ GapExplained' /\ LossesCounted'
  <2>1. CASE AcknowledgeBatch(f)
    <3>1. /\ gap' = IF gap.id = flush[f].gap.id THEN NoGap ELSE gap
          /\ flush[f].answer = "stored" /\ dropped' = dropped
      BY <2>1 DEF AcknowledgeBatch
    <3>2. flush[f].ids \subseteq daemon.stored
          /\ (flush[f].gap # NoGap => daemon.told # {})
      BY <1>1, <3>1 DEF FlushKnows
    <3>3. LossesCounted'
      BY <1>1, <3>1, <3>2 DEF IntakeInv, LossesCounted
    <3>4. gap' \in Gaps /\ (gap.id = 0 => gap = NoGap)'
      BY <3>1 DEF IntakeInv, TypeOK, Transport, Gaps, NoGap
    <3>5. GapExplained'
      <4>1. CASE gap' = gap
        BY <1>1, <3>1, <4>1 DEF IntakeInv, GapExplained
      <4>2. CASE gap' # gap
        <5>1. gap' = NoGap /\ gap # NoGap /\ gap.id = flush[f].gap.id
          BY <3>1, <4>2
        <5>2. flush[f].gap # NoGap
          BY <5>1 DEF IntakeInv, Transport, NoGap
        <5>. QED BY <1>1, <3>2, <5>1, <5>2 DEF GapExplained
      <4>. QED BY <4>1, <4>2
    <3>. QED BY <3>1, <3>3, <3>4, <3>5 DEF IntakeInv, Transport, TypeOK
  <2>2. CASE DiscardBatch(f)
    <3>1. Drop(D)
      BY <2>2 DEF DiscardBatch
    <3>2. D \in SUBSET Obs /\ D \subseteq Queued'
      BY <1>3 DEF IntakeInv, TypeOK, Transport
    <3>3. dropped' = dropped \cup D /\ dropped' \subseteq Queued' /\ dropped' \subseteq Obs
          /\ gap' \in Gaps /\ (gap.id = 0 => gap = NoGap)' /\ GapExplained'
      <4>. HIDE DEF D
      <4>. QED BY <1>1, <1>3, <3>1, <3>2, DropExplains DEF IntakeInv
    <3>4. LossesCounted'
      BY <1>1, <3>3 DEF IntakeInv, LossesCounted
    <3>. QED BY <1>3, <3>3, <3>4
  <2>. QED BY <2>1, <2>2
<1>7. TypeOK'
  BY <1>1, <1>2, <1>6 DEF TypeOK, FlushRec
<1>. QED
  BY <1>1, <1>3, <1>5, <1>6, <1>7
  DEF IntakeInv, Transport, SyncedIsStored, RejectedIsNotResent, RejectedWasQueued

LEMMA MarkStep ==
  ASSUME IntakeAssumption, IntakeInv, NEW f \in Flushes, MarkBatch(f) \/ MarkFails(f) \/ Gate(f)
  PROVE  IntakeInv'
<1>. /\ flush \in [Flushes -> FlushRec] /\ TypeOK /\ FlushKnows(f)
  BY DEF IntakeInv, TypeOK, FlushRec
<1>1. CASE MarkBatch(f)
  <2>. DEFINE status == IF flush[f].answer = "stored" THEN "synced" ELSE "rejected"
  <2>1. /\ archive' = Marked(flush[f].ids, status) /\ flush[f].pc = "settled"
        /\ UNCHANGED <<transport, conf, task, daemon, faults>>
    BY <1>1 DEF MarkBatch
  <2>2. /\ flush' \in [Flushes -> FlushRec] /\ flush'[f].pc \notin Batched
        /\ \A g \in Flushes \ {f} : flush'[g] = flush[g]
    <3>1. CASE flush' = [flush EXCEPT ![f] = Resting]
      BY <3>1, RestingRec DEF Resting, Batched
    <3>2. CASE flush' = [flush EXCEPT ![f] = [flush[f] EXCEPT !.pc = "marked"]]
      <4>. DEFINE c == [flush[f] EXCEPT !.pc = "marked"]
      <4>1. c \in FlushRec /\ c.pc = "marked"
        BY DEF FlushRec
      <4>. HIDE DEF c
      <4>2. flush' = [flush EXCEPT ![f] = c]
        BY <3>2 DEF c
      <4>. QED BY <4>1, <4>2 DEF Batched
    <3>. QED BY <1>1, <3>1, <3>2 DEF MarkBatch, Goto
  <2>3. /\ archive' \in [Obs -> {"none", "pending", "synced", "rejected"}]
        /\ \A o \in Obs : \/ archive'[o] = archive[o]
                          \/ archive'[o] = status /\ o \in flush[f].ids
    BY <2>1 DEF Marked, TypeOK
  <2>4. \A g \in Flushes : FlushKnows(g)'
    <3>1. FlushKnows(f)'
      BY <2>2 DEF FlushKnows, Batched
    <3>. QED BY <2>1, <2>2, <3>1, FlushKept DEF IntakeInv, transport, Queued
  <2>5. TypeOK'
    BY <2>1, <2>2, <2>3 DEF TypeOK, transport, FlushRec
  <2>6. SyncedIsStored'
    BY <2>1, <2>3 DEF IntakeInv, SyncedIsStored, FlushKnows
  <2>7. RejectedIsNotResent' /\ RejectedWasQueued'
    BY <2>1, <2>3
    DEF IntakeInv, RejectedIsNotResent, RejectedWasQueued, FlushKnows, Batched, Queued, transport
  <2>. QED
    BY <2>1, <2>4, <2>5, <2>6, <2>7
    DEF IntakeInv, Transport, LossesCounted, GapExplained, Queued, transport
<1>2. CASE MarkFails(f)
  <2>1. faults' \in 0 .. MaxFaults
    BY <1>2, FaultCounted DEF MarkFails
  <2>. QED BY <1>2, <2>1, RestStep DEF MarkFails
<1>3. CASE Gate(f)
  <2>1. TypeOK'
    BY <1>3, RestingRec DEF Gate, TypeOK, transport, FlushRec
  <2>2. flush' = [flush EXCEPT ![f] = Resting]
    BY <1>3 DEF Gate
  <2>3. FlushKnows(f)'
    BY <2>2 DEF FlushKnows, Batched, Resting
  <2>. QED BY <1>3, <2>1, <2>2, <2>3, FlushAlone DEF Gate
<1>. QED BY <1>1, <1>2, <1>3

LEMMA WorldStep ==
  ASSUME IntakeAssumption, IntakeInv, ChangeSettings \/ ToggleGate \/ Kill \/ UNCHANGED vars
  PROVE  IntakeInv'
<1>1. CASE ChangeSettings \/ ToggleGate \/ UNCHANGED vars
  <2>1. UNCHANGED <<transport, task, archive, flush>> /\ daemon'.stored = daemon.stored
        /\ daemon'.told = daemon.told /\ TypeOK'
    BY <1>1 DEF ChangeSettings, ToggleGate, vars, IntakeInv, TypeOK, transport
  <2>2. \A g \in Flushes : FlushKnows(g)'
    BY <2>1, FlushKept DEF IntakeInv, transport, Queued
  <2>. QED
    BY <2>1, <2>2
    DEF IntakeInv, transport, Transport, Queued, LossesCounted, GapExplained, SyncedIsStored,
        RejectedIsNotResent, RejectedWasQueued
<1>2. CASE Kill
  <2>1. /\ flush' \in [Flushes -> FlushRec]
        /\ \A g \in Flushes : flush'[g].pc = "idle"
    BY <1>2, RestingRec DEF Kill, Resting
  <2>2. /\ UNCHANGED <<transport, conf, archive, daemon>>
        /\ task' \in [Obs -> {"new", "passed", "archived", "queued", "gone"}]
        /\ \A o \in Obs : task'[o] = "queued" <=> task[o] = "queued"
    BY <1>2 DEF Kill, IntakeInv, TypeOK
  <2>3. faults' \in 0 .. MaxFaults
    BY <1>2, FaultCounted DEF Kill, IntakeInv
  <2>4. TypeOK'
    BY <2>1, <2>2, <2>3 DEF IntakeInv, TypeOK, transport, FlushRec
  <2>5. \A g \in Flushes : FlushKnows(g)'
    BY <2>1 DEF FlushKnows, Batched
  <2>. QED
    BY <2>2, <2>4, <2>5
    DEF IntakeInv, transport, Transport, Queued, LossesCounted, GapExplained, SyncedIsStored,
        RejectedIsNotResent, RejectedWasQueued
<1>. QED BY <1>1, <1>2

-----------------------------------------------------------------------------

\* What is queued, sent, answered, counted and archived stays in step, whatever
\* enqueueEvent and flushQueue do in each other's awaits.
THEOREM IntakeInductive == Spec => []IntakeInv
<1>1. Init => IntakeInv
  BY InitIInv, IntakeAssumption
<1>2. IntakeInv /\ [Next]_vars => IntakeInv'
  <2>. SUFFICES ASSUME IntakeInv, [Next]_vars PROVE IntakeInv'
    OBVIOUS
  <2>1. ASSUME NEW o \in Obs, PassGate(o) \/ Archive(o) \/ ArchiveFails(o) PROVE IntakeInv'
    BY <2>1, ObservationStep, IntakeAssumption
  <2>2. ASSUME NEW o \in Obs, Enqueue(o) PROVE IntakeInv'
    BY <2>2, EnqueueStep, IntakeAssumption
  <2>3. ASSUME NEW f \in Flushes, FlushStep(f) \/ Fail(f) \/ LoseAnswer(f) \/ MarkFails(f)
        PROVE  IntakeInv'
    BY <2>3, AskStep, AcceptStep, SettleStep, MarkStep, IntakeAssumption DEF FlushStep
  <2>4. CASE ChangeSettings \/ ToggleGate \/ Kill \/ UNCHANGED vars
    BY <2>4, WorldStep, IntakeAssumption
  <2>. QED BY <2>1, <2>2, <2>3, <2>4 DEF Next
<1>. QED BY <1>1, <1>2, PTL DEF Spec

\* An observation that entered the queue is queued, stored by the daemon, or
\* counted among the dropped.
THEOREM NothingLostInSilence == Spec => []LossesCounted
<1>1. IntakeInv => LossesCounted
  BY DEF IntakeInv
<1>. QED BY <1>1, IntakeInductive, PTL

\* Whatever was dropped is told by the pending gap, or a gap was told.
THEOREM LossesExplained == Spec => []GapExplained
<1>1. IntakeInv => GapExplained
  BY DEF IntakeInv
<1>. QED BY <1>1, IntakeInductive, PTL

\* The archive never shows as synced what the daemon does not have.
THEOREM SyncedMeansStored == Spec => []SyncedIsStored
<1>1. IntakeInv => SyncedIsStored
  BY DEF IntakeInv
<1>. QED BY <1>1, IntakeInductive, PTL

\* What the archive shows as rejected is out of the queue for good.
THEOREM RejectedStaysOut == Spec => []RejectedIsNotResent
<1>1. IntakeInv => RejectedIsNotResent
  BY DEF IntakeInv
<1>. QED BY <1>1, IntakeInductive, PTL

\* Every loss is counted, and told or about to be.
THEOREM LossesAreTold == Spec => []LossesTold
BY NothingLostInSilence, LossesExplained, PTL DEF LossesTold

\* What the archive shows as synced or as rejected is so.
THEOREM ArchiveIsTrue == Spec => []ArchiveTrue
BY SyncedMeansStored, RejectedStaysOut, PTL DEF ArchiveTrue

-----------------------------------------------------------------------------
(* Installing Lumen Cua. *)

Bundles == {"none", "old", "new", "ruin"}

InstallType ==
  /\ target \in Bundles /\ backup \in Bundles /\ kept \subseteq Bundles
  /\ had \in BOOLEAN /\ proved \in BOOLEAN /\ unreturned \in BOOLEAN /\ cleared \in BOOLEAN
  /\ first \in {"none", "old"} /\ attempt \in {1, 2}

Steps == {"down", "up", "failed", "comparing", "staging", "moving", "activating", "verifying",
          "rejecting", "returning", "checking old", "clearing", "erring"}

OnTrialNow == shell \in {"activating", "verifying", "rejecting", "returning"}

\* What is moved aside is never new: a bundle that is new already is left where it
\* is.  The old one stays aside beyond the trial of the new one only if that passed,
\* or the old one could not be moved back.
AsideIsOld ==
  /\ backup # "new"
  /\ shell \in {"staging", "moving"} => target # "new"
  /\ shell = "down" => backup = "none"
  /\ backup = "old" /\ ~OnTrialNow => unreturned \/ proved

\* While the new bundle is on trial, the target is its place.
OnTrial ==
  /\ shell \in {"verifying", "rejecting"} => target = "new"
  /\ shell = "activating" => target = "none"
  /\ shell = "clearing" => proved /\ target = "new"

\* A bundle that a preparation found is in place, or aside while the new one is on trial.
FoundIsSomewhere ==
  ~unreturned /\ had =>
    /\ shell \in {"staging", "moving", "checking old", "erring", "up", "failed"} => Works(target)
    /\ OnTrialNow => Works(backup)

Once == trouble \in Nat /\ trouble >= 1
Twice == trouble \in Nat /\ trouble >= 2

\* What cannot be returned has been rejected before: two failures.
TroubleCounted ==
  /\ shell \in {"rejecting", "returning"} => Once
  /\ unreturned \/ cleared => Twice
  /\ shell = "returning" /\ target # "none" => unreturned

InstallInv ==
  /\ InstallType /\ trouble \in Nat /\ shell \in Steps /\ AsideIsOld /\ OnTrial
  /\ FoundIsSomewhere /\ TroubleCounted /\ OldKeptUntilProved

LEMMA TroubleGrows ==
  ASSUME trouble \in Nat, [InstallNext]_installVars
  PROVE  trouble' \in Nat /\ (Once => Once') /\ (Twice => Twice')
<1>1. trouble' = trouble \/ trouble' = trouble + 1
  BY DEF InstallNext, InstallStep, installVars, Opens, Compares, ChecksOld, Errs, Launches, Serves,
         ServerDies, Quits, Killed, Stages, ClearsStale, MovesAside, MovesIn, Verifies, Rejects,
         Returns, ClearsBackup, Tried, Quietly, Troubled
<1>. QED BY <1>1 DEF Once, Twice

LEMMA TroubleCounts ==
  ASSUME trouble \in Nat, Troubled
  PROVE  Once' /\ (Once => Twice')
BY DEF Troubled, Once, Twice

\* A failed copy, move or verification, a crash or a kill costs no working
\* installation; what does takes two failures, of the update and of the way back.
THEOREM InstallationSafe == InstallSpec => []InstallSafe
<1>1. InstallInit => InstallInv
  <2>1. InstallInit => trouble \in Nat
    BY DEF InstallInit
  <2>. QED
    BY <2>1 DEF InstallInit, InstallInv, InstallType, AsideIsOld, OnTrial, OnTrialNow, FoundIsSomewhere,
           TroubleCounted, OldKeptUntilProved, Bundles, Steps, Works
<1>2. InstallInv /\ [InstallNext]_installVars => InstallInv'
  <2>. SUFFICES ASSUME InstallInv, [InstallNext]_installVars PROVE InstallInv'
    OBVIOUS
  <2>. USE DEF InstallInv, InstallType, AsideIsOld, OnTrial, OnTrialNow,
           FoundIsSomewhere, OldKeptUntilProved, Bundles, Works, Past, Losses, Remains
  <2>0. trouble' \in Nat /\ (Once => Once') /\ (Twice => Twice') /\ (Troubled => Once' /\ (Once => Twice'))
    BY TroubleGrows, TroubleCounts
  <2>1. CASE Opens
    <3>1. InstallType'
      BY <2>1 DEF Opens
    <3>2. shell' \in Steps
      BY <2>1 DEF Opens, Steps
    <3>3. AsideIsOld' /\ OnTrial'
      BY <2>1 DEF Opens
    <3>4. FoundIsSomewhere'
      BY <2>1 DEF Opens
    <3>5. TroubleCounted'
      BY <2>1, <2>0 DEF Opens, TroubleCounted
    <3>6. OldKeptUntilProved'
      BY <2>1 DEF Opens
    <3>. QED BY <2>0, <3>1, <3>2, <3>3, <3>4, <3>5, <3>6
  <2>2. CASE Compares
    <3>1. InstallType'
      BY <2>2 DEF Compares
    <3>2. shell' \in Steps
      BY <2>2 DEF Compares, Steps
    <3>3. AsideIsOld' /\ OnTrial'
      BY <2>2 DEF Compares
    <3>4. FoundIsSomewhere'
      BY <2>2 DEF Compares
    <3>5. TroubleCounted'
      BY <2>2, <2>0 DEF Compares, TroubleCounted
    <3>6. OldKeptUntilProved'
      BY <2>2 DEF Compares
    <3>. QED BY <2>0, <3>1, <3>2, <3>3, <3>4, <3>5, <3>6
  <2>3. CASE ChecksOld
    <3>1. InstallType'
      BY <2>3 DEF ChecksOld
    <3>2. shell' \in Steps
      BY <2>3 DEF ChecksOld, Steps
    <3>3. AsideIsOld' /\ OnTrial'
      BY <2>3 DEF ChecksOld
    <3>4. FoundIsSomewhere'
      BY <2>3 DEF ChecksOld
    <3>5. TroubleCounted'
      BY <2>3, <2>0 DEF ChecksOld, TroubleCounted
    <3>6. OldKeptUntilProved'
      BY <2>3 DEF ChecksOld
    <3>. QED BY <2>0, <3>1, <3>2, <3>3, <3>4, <3>5, <3>6
  <2>4. CASE Errs
    <3>1. InstallType'
      BY <2>4 DEF Errs
    <3>2. shell' \in Steps
      BY <2>4 DEF Errs, Steps
    <3>3. AsideIsOld' /\ OnTrial'
      BY <2>4 DEF Errs
    <3>4. FoundIsSomewhere'
      BY <2>4 DEF Errs
    <3>5. TroubleCounted'
      BY <2>4, <2>0 DEF Errs, TroubleCounted
    <3>6. OldKeptUntilProved'
      BY <2>4 DEF Errs
    <3>. QED BY <2>0, <3>1, <3>2, <3>3, <3>4, <3>5, <3>6
  <2>5. CASE Launches
    <3>1. InstallType'
      BY <2>5 DEF Launches
    <3>2. shell' \in Steps
      BY <2>5 DEF Launches, Steps
    <3>3. AsideIsOld' /\ OnTrial'
      BY <2>5 DEF Launches
    <3>4. FoundIsSomewhere'
      BY <2>5 DEF Launches
    <3>5. TroubleCounted'
      BY <2>5, <2>0 DEF Launches, TroubleCounted
    <3>6. OldKeptUntilProved'
      BY <2>5 DEF Launches
    <3>. QED BY <2>0, <3>1, <3>2, <3>3, <3>4, <3>5, <3>6
  <2>6. CASE Serves
    <3>1. InstallType'
      BY <2>6 DEF Serves
    <3>2. shell' \in Steps
      BY <2>6 DEF Serves, Steps
    <3>3. AsideIsOld' /\ OnTrial'
      BY <2>6 DEF Serves
    <3>4. FoundIsSomewhere'
      BY <2>6 DEF Serves
    <3>5. TroubleCounted'
      BY <2>6, <2>0 DEF Serves, TroubleCounted
    <3>6. OldKeptUntilProved'
      BY <2>6 DEF Serves
    <3>. QED BY <2>0, <3>1, <3>2, <3>3, <3>4, <3>5, <3>6
  <2>7. CASE ServerDies
    <3>1. InstallType'
      BY <2>7 DEF ServerDies, Troubled
    <3>2. shell' \in Steps
      BY <2>7 DEF ServerDies, Troubled, Steps
    <3>3. AsideIsOld' /\ OnTrial'
      BY <2>7 DEF ServerDies, Troubled
    <3>4. FoundIsSomewhere'
      BY <2>7 DEF ServerDies, Troubled
    <3>5. TroubleCounted'
      BY <2>7, <2>0 DEF ServerDies, TroubleCounted
    <3>6. OldKeptUntilProved'
      BY <2>7 DEF ServerDies, Troubled
    <3>. QED BY <2>0, <3>1, <3>2, <3>3, <3>4, <3>5, <3>6
  <2>8. CASE Stages(TRUE)
    <3>1. InstallType'
      BY <2>8 DEF Stages, Tried, Quietly
    <3>2. shell' \in Steps
      BY <2>8 DEF Stages, Tried, Quietly, Steps
    <3>3. AsideIsOld' /\ OnTrial'
      BY <2>8 DEF Stages, Tried, Quietly
    <3>4. FoundIsSomewhere'
      BY <2>8 DEF Stages, Tried, Quietly
    <3>5. TroubleCounted'
      BY <2>8, <2>0 DEF Stages, Tried, TroubleCounted
    <3>6. OldKeptUntilProved'
      BY <2>8 DEF Stages, Tried, Quietly
    <3>. QED BY <2>0, <3>1, <3>2, <3>3, <3>4, <3>5, <3>6
  <2>9. CASE Stages(FALSE)
    <3>1. InstallType'
      BY <2>9 DEF Stages, Tried, Troubled
    <3>2. shell' \in Steps
      BY <2>9 DEF Stages, Tried, Troubled, Steps
    <3>3. AsideIsOld' /\ OnTrial'
      BY <2>9 DEF Stages, Tried, Troubled
    <3>4. FoundIsSomewhere'
      BY <2>9 DEF Stages, Tried, Troubled
    <3>5. TroubleCounted'
      BY <2>9, <2>0 DEF Stages, Tried, TroubleCounted
    <3>6. OldKeptUntilProved'
      BY <2>9 DEF Stages, Tried, Troubled
    <3>. QED BY <2>0, <3>1, <3>2, <3>3, <3>4, <3>5, <3>6
  <2>10. CASE ClearsStale(TRUE)
    <3>1. InstallType'
      BY <2>10 DEF ClearsStale, Tried, Quietly
    <3>2. shell' \in Steps
      BY <2>10 DEF ClearsStale, Tried, Quietly, Steps
    <3>3. AsideIsOld' /\ OnTrial'
      BY <2>10 DEF ClearsStale, Tried, Quietly
    <3>4. FoundIsSomewhere'
      BY <2>10 DEF ClearsStale, Tried, Quietly
    <3>5. TroubleCounted'
      BY <2>10, <2>0 DEF ClearsStale, Tried, TroubleCounted
    <3>6. OldKeptUntilProved'
      BY <2>10 DEF ClearsStale, Tried, Quietly
    <3>. QED BY <2>0, <3>1, <3>2, <3>3, <3>4, <3>5, <3>6
  <2>11. CASE ClearsStale(FALSE)
    <3>1. InstallType'
      BY <2>11 DEF ClearsStale, Tried, Troubled
    <3>2. shell' \in Steps
      BY <2>11 DEF ClearsStale, Tried, Troubled, Steps
    <3>3. AsideIsOld' /\ OnTrial'
      BY <2>11 DEF ClearsStale, Tried, Troubled
    <3>4. FoundIsSomewhere'
      BY <2>11 DEF ClearsStale, Tried, Troubled
    <3>5. TroubleCounted'
      BY <2>11, <2>0 DEF ClearsStale, Tried, TroubleCounted
    <3>6. OldKeptUntilProved'
      BY <2>11 DEF ClearsStale, Tried, Troubled
    <3>. QED BY <2>0, <3>1, <3>2, <3>3, <3>4, <3>5, <3>6
  <2>12. CASE MovesAside(TRUE)
    <3>1. InstallType'
      BY <2>12 DEF MovesAside, Tried, Quietly
    <3>2. shell' \in Steps
      BY <2>12 DEF MovesAside, Tried, Quietly, Steps
    <3>3. AsideIsOld' /\ OnTrial'
      BY <2>12 DEF MovesAside, Tried, Quietly
    <3>4. FoundIsSomewhere'
      BY <2>12 DEF MovesAside, Tried, Quietly
    <3>5. TroubleCounted'
      BY <2>12, <2>0 DEF MovesAside, Tried, TroubleCounted
    <3>6. OldKeptUntilProved'
      BY <2>12 DEF MovesAside, Tried, Quietly
    <3>. QED BY <2>0, <3>1, <3>2, <3>3, <3>4, <3>5, <3>6
  <2>13. CASE MovesAside(FALSE)
    <3>1. InstallType'
      BY <2>13 DEF MovesAside, Tried, Troubled
    <3>2. shell' \in Steps
      BY <2>13 DEF MovesAside, Tried, Troubled, Steps
    <3>3. AsideIsOld' /\ OnTrial'
      BY <2>13 DEF MovesAside, Tried, Troubled
    <3>4. FoundIsSomewhere'
      BY <2>13 DEF MovesAside, Tried, Troubled
    <3>5. TroubleCounted'
      BY <2>13, <2>0 DEF MovesAside, Tried, TroubleCounted
    <3>6. OldKeptUntilProved'
      BY <2>13 DEF MovesAside, Tried, Troubled
    <3>. QED BY <2>0, <3>1, <3>2, <3>3, <3>4, <3>5, <3>6
  <2>14. CASE MovesIn(TRUE)
    <3>1. InstallType'
      BY <2>14 DEF MovesIn, Tried, Quietly
    <3>2. shell' \in Steps
      BY <2>14 DEF MovesIn, Tried, Quietly, Steps
    <3>3. AsideIsOld' /\ OnTrial'
      BY <2>14 DEF MovesIn, Tried, Quietly
    <3>4. FoundIsSomewhere'
      BY <2>14 DEF MovesIn, Tried, Quietly
    <3>5. TroubleCounted'
      BY <2>14, <2>0 DEF MovesIn, Tried, TroubleCounted
    <3>6. OldKeptUntilProved'
      BY <2>14 DEF MovesIn, Tried, Quietly
    <3>. QED BY <2>0, <3>1, <3>2, <3>3, <3>4, <3>5, <3>6
  <2>15. CASE MovesIn(FALSE)
    <3>1. InstallType'
      BY <2>15 DEF MovesIn, Tried, Troubled
    <3>2. shell' \in Steps
      BY <2>15 DEF MovesIn, Tried, Troubled, Steps
    <3>3. AsideIsOld' /\ OnTrial'
      BY <2>15 DEF MovesIn, Tried, Troubled
    <3>4. FoundIsSomewhere'
      BY <2>15 DEF MovesIn, Tried, Troubled
    <3>5. TroubleCounted'
      BY <2>15, <2>0 DEF MovesIn, Tried, TroubleCounted
    <3>6. OldKeptUntilProved'
      BY <2>15 DEF MovesIn, Tried, Troubled
    <3>. QED BY <2>0, <3>1, <3>2, <3>3, <3>4, <3>5, <3>6
  <2>16. CASE Verifies(TRUE)
    <3>1. InstallType'
      BY <2>16 DEF Verifies, Tried, Quietly
    <3>2. shell' \in Steps
      BY <2>16 DEF Verifies, Tried, Quietly, Steps
    <3>3. AsideIsOld' /\ OnTrial'
      BY <2>16 DEF Verifies, Tried, Quietly
    <3>4. FoundIsSomewhere'
      BY <2>16 DEF Verifies, Tried, Quietly
    <3>5. TroubleCounted'
      BY <2>16, <2>0 DEF Verifies, Tried, TroubleCounted
    <3>6. OldKeptUntilProved'
      BY <2>16 DEF Verifies, Tried, Quietly
    <3>. QED BY <2>0, <3>1, <3>2, <3>3, <3>4, <3>5, <3>6
  <2>17. CASE Verifies(FALSE)
    <3>1. InstallType'
      BY <2>17 DEF Verifies, Tried, Troubled
    <3>2. shell' \in Steps
      BY <2>17 DEF Verifies, Tried, Troubled, Steps
    <3>3. AsideIsOld' /\ OnTrial'
      BY <2>17 DEF Verifies, Tried, Troubled
    <3>4. FoundIsSomewhere'
      BY <2>17 DEF Verifies, Tried, Troubled
    <3>5. TroubleCounted'
      BY <2>17, <2>0 DEF Verifies, Tried, TroubleCounted
    <3>6. OldKeptUntilProved'
      BY <2>17 DEF Verifies, Tried, Troubled
    <3>. QED BY <2>0, <3>1, <3>2, <3>3, <3>4, <3>5, <3>6
  <2>18. CASE Rejects(TRUE)
    <3>1. InstallType'
      BY <2>18 DEF Rejects, Tried, Quietly
    <3>2. shell' \in Steps
      BY <2>18 DEF Rejects, Tried, Quietly, Steps
    <3>3. AsideIsOld' /\ OnTrial'
      BY <2>18 DEF Rejects, Tried, Quietly
    <3>4. FoundIsSomewhere'
      BY <2>18 DEF Rejects, Tried, Quietly
    <3>5. TroubleCounted'
      BY <2>18, <2>0 DEF Rejects, Tried, TroubleCounted
    <3>6. OldKeptUntilProved'
      BY <2>18 DEF Rejects, Tried, Quietly
    <3>. QED BY <2>0, <3>1, <3>2, <3>3, <3>4, <3>5, <3>6
  <2>19. CASE Rejects(FALSE)
    <3>1. InstallType'
      BY <2>19 DEF Rejects, Tried, Troubled
    <3>2. shell' \in Steps
      BY <2>19 DEF Rejects, Tried, Troubled, Steps
    <3>3. AsideIsOld' /\ OnTrial'
      BY <2>19 DEF Rejects, Tried, Troubled
    <3>4. FoundIsSomewhere'
      BY <2>19 DEF Rejects, Tried, Troubled
    <3>5. TroubleCounted'
      BY <2>19, <2>0 DEF Rejects, Tried, TroubleCounted
    <3>6. OldKeptUntilProved'
      BY <2>19 DEF Rejects, Tried, Troubled
    <3>. QED BY <2>0, <3>1, <3>2, <3>3, <3>4, <3>5, <3>6
  <2>20. CASE Returns(TRUE)
    <3>1. InstallType'
      BY <2>20 DEF Returns, Quietly
    <3>2. shell' \in Steps
      BY <2>20 DEF Returns, Quietly, Steps
    <3>3. AsideIsOld' /\ OnTrial'
      BY <2>20 DEF Returns, Quietly
    <3>4. FoundIsSomewhere'
      BY <2>20 DEF Returns, Quietly
    <3>5. TroubleCounted'
      BY <2>20, <2>0 DEF Returns, TroubleCounted
    <3>6. OldKeptUntilProved'
      BY <2>20 DEF Returns, Quietly
    <3>. QED BY <2>0, <3>1, <3>2, <3>3, <3>4, <3>5, <3>6
  <2>21. CASE Returns(FALSE)
    <3>1. InstallType'
      BY <2>21 DEF Returns, Quietly, Troubled
    <3>2. shell' \in Steps
      BY <2>21 DEF Returns, Quietly, Troubled, Steps
    <3>3. AsideIsOld' /\ OnTrial'
      BY <2>21 DEF Returns, Quietly, Troubled
    <3>4. FoundIsSomewhere'
      BY <2>21 DEF Returns, Quietly, Troubled
    <3>5. TroubleCounted'
      BY <2>21, <2>0 DEF Returns, TroubleCounted
    <3>6. OldKeptUntilProved'
      BY <2>21 DEF Returns, Quietly, Troubled
    <3>. QED BY <2>0, <3>1, <3>2, <3>3, <3>4, <3>5, <3>6
  <2>22. CASE ClearsBackup(TRUE)
    <3>1. InstallType'
      BY <2>22 DEF ClearsBackup, Tried, Quietly
    <3>2. shell' \in Steps
      BY <2>22 DEF ClearsBackup, Tried, Quietly, Steps
    <3>3. AsideIsOld' /\ OnTrial'
      BY <2>22 DEF ClearsBackup, Tried, Quietly
    <3>4. FoundIsSomewhere'
      BY <2>22 DEF ClearsBackup, Tried, Quietly
    <3>5. TroubleCounted'
      BY <2>22, <2>0 DEF ClearsBackup, Tried, TroubleCounted
    <3>6. OldKeptUntilProved'
      BY <2>22 DEF ClearsBackup, Tried, Quietly
    <3>. QED BY <2>0, <3>1, <3>2, <3>3, <3>4, <3>5, <3>6
  <2>23. CASE ClearsBackup(FALSE)
    <3>1. InstallType'
      BY <2>23 DEF ClearsBackup, Tried, Troubled
    <3>2. shell' \in Steps
      BY <2>23 DEF ClearsBackup, Tried, Troubled, Steps
    <3>3. AsideIsOld' /\ OnTrial'
      BY <2>23 DEF ClearsBackup, Tried, Troubled
    <3>4. FoundIsSomewhere'
      BY <2>23 DEF ClearsBackup, Tried, Troubled
    <3>5. TroubleCounted'
      BY <2>23, <2>0 DEF ClearsBackup, Tried, TroubleCounted
    <3>6. OldKeptUntilProved'
      BY <2>23 DEF ClearsBackup, Tried, Troubled
    <3>. QED BY <2>0, <3>1, <3>2, <3>3, <3>4, <3>5, <3>6
  <2>24. CASE Quits
    <3>1. InstallType'
      BY <2>24 DEF Quits, Forsakes
    <3>2. shell' \in Steps
      BY <2>24 DEF Quits, Forsakes, Steps
    <3>3. AsideIsOld' /\ OnTrial'
      BY <2>24 DEF Quits, Forsakes
    <3>4. FoundIsSomewhere'
      BY <2>24 DEF Quits, Forsakes
    <3>5. TroubleCounted'
      BY <2>24, <2>0 DEF Quits, Forsakes, TroubleCounted
    <3>6. OldKeptUntilProved'
      BY <2>24 DEF Quits, Forsakes
    <3>. QED BY <2>0, <3>1, <3>2, <3>3, <3>4, <3>5, <3>6
  <2>25. CASE Killed
    <3>1. InstallType'
      BY <2>25 DEF Killed, Forsakes, Troubled
    <3>2. shell' \in Steps
      BY <2>25 DEF Killed, Forsakes, Troubled, Steps
    <3>3. AsideIsOld' /\ OnTrial'
      BY <2>25 DEF Killed, Forsakes, Troubled
    <3>4. FoundIsSomewhere'
      BY <2>25 DEF Killed, Forsakes, Troubled
    <3>5. TroubleCounted'
      BY <2>25, <2>0 DEF Killed, Forsakes, TroubleCounted
    <3>6. OldKeptUntilProved'
      BY <2>25 DEF Killed, Forsakes, Troubled
    <3>. QED BY <2>0, <3>1, <3>2, <3>3, <3>4, <3>5, <3>6
  <2>26. CASE UNCHANGED installVars
    <3>1. InstallType'
      BY <2>26 DEF installVars
    <3>2. shell' \in Steps
      BY <2>26 DEF installVars, Steps
    <3>3. AsideIsOld' /\ OnTrial'
      BY <2>26 DEF installVars
    <3>4. FoundIsSomewhere'
      BY <2>26 DEF installVars
    <3>5. TroubleCounted'
      BY <2>26, <2>0 DEF installVars, TroubleCounted
    <3>6. OldKeptUntilProved'
      BY <2>26 DEF installVars
    <3>. QED BY <2>0, <3>1, <3>2, <3>3, <3>4, <3>5, <3>6
  <2>. QED
    BY <2>0, <2>1, <2>2, <2>3, <2>4, <2>5, <2>6, <2>7, <2>8, <2>9, <2>10, <2>11, <2>12,
       <2>13, <2>14, <2>15, <2>16, <2>17, <2>18, <2>19, <2>20, <2>21, <2>22, <2>23, <2>24, <2>25, <2>26
    DEF InstallNext, InstallStep
<1>3. InstallInv => InstallSafe
  BY DEF InstallInv, InstallSafe, FoundIsSomewhere, NeverBare, TroubleCounted, Twice, LossTakesTwo
<1>. QED BY <1>1, <1>2, <1>3, PTL DEF InstallSpec

-----------------------------------------------------------------------------
(* Lumen Cua as a service. *)

Procs == {"none", "looking", "removing", "binding", "securing", "serving", "told", "closing", "gone"}

ServerType ==
  /\ proc \in [Servers -> Procs] /\ sock \in Servers \cup {NoServer} /\ raced \in BOOLEAN
  /\ loose \subseteq Servers /\ stale \subseteq Servers /\ answered \in Servers \cup {NoServer}
  /\ control \in [pc : {"idle", "probing", "launching", "awaiting path", "awaiting answer",
                        "stopping", "awaiting removal"},
                  goal : {"ensure", "restart", "verify"}]

Live   == {"securing", "serving", "told", "closing"}
Claims == {"removing", "binding", "securing"}

\* Without a race, what listens owns the path, one process claims it at a time, and
\* nobody listens while it is being claimed.
OneOwner ==
  ~raced =>
    /\ \A s \in Servers : proc[s] \in Live => sock = s
    /\ \A s, t \in Servers : proc[s] \in Claims /\ proc[t] \in Claims => s = t
    /\ \A s, t \in Servers : proc[s] \in {"removing", "binding"} => proc[t] \notin Live

\* What starts was launched by the call under way, or was let go of by an earlier one.
LooseStarts ==
  /\ control.pc \notin {"awaiting path", "awaiting answer"} => Starting \subseteq loose
  /\ \A s \in stale : proc[s] # "none" /\ (s \in Starting => s \in loose)

\* The stale processes are gone when a restart comes to its verification.
StaleGone ==
  /\ control.pc \in {"stopping", "awaiting removal"} =>
       control.goal = "restart" /\ answered = NoServer
  /\ control.goal = "verify" =>
       raced \/ \A s \in stale : proc[s] = "gone" \/ s \in loose

ServerInv == ServerType /\ OneOwner /\ LooseStarts /\ StaleGone /\ RestartIsFresh

LEMMA ServeStep ==
  ASSUME ServerAssumption, ServerInv, NEW s \in Servers, ServerStep(s)
  PROVE  ServerInv'
<1>. USE ServerAssumption
     DEF ServerAssumption, ServerInv, ServerType, Procs, OneOwner, Live, Claims, Listening, Claiming,
         LooseStarts, Starting, StaleGone, RestartIsFresh, Controller, Becomes
<1>1. CASE LooksAtPath(s)
  <2>1. ServerType'
    BY <1>1 DEF LooksAtPath
  <2>2. OneOwner'
    BY <1>1 DEF LooksAtPath
  <2>3. LooseStarts' /\ StaleGone' /\ RestartIsFresh'
    BY <1>1 DEF LooksAtPath
  <2>. QED BY <2>1, <2>2, <2>3
<1>2. CASE RemovesFile(s)
  <2>1. ServerType'
    BY <1>2 DEF RemovesFile
  <2>1a. OneOwner'
    BY <1>2 DEF RemovesFile
  <2>2. LooseStarts' /\ StaleGone' /\ RestartIsFresh'
    BY <1>2 DEF RemovesFile
  <2>. QED BY <2>1, <2>1a, <2>2
<1>3. CASE BindsSocket(s)
  <2>1. ServerType'
    BY <1>3 DEF BindsSocket
  <2>1a. OneOwner'
    <3>1. CASE sock = NoServer
      <4>1. sock' = s /\ proc' = [proc EXCEPT ![s] = "securing"] /\ raced' = raced
        BY <1>3, <3>1 DEF BindsSocket
      <4>2. ~raced => \A t \in Servers : proc[t] \notin Live
        BY <3>1
      <4>3. \A t \in Servers \ {s} : proc'[t] = proc[t]
        BY <4>1
      <4>4. proc[s] = "binding" /\ proc'[s] = "securing"
        BY <1>3, <4>1 DEF BindsSocket
      <4>5. CASE ~raced
        <5>1. \A t \in Servers : proc'[t] \in Live => t = s
          BY <4>2, <4>3, <4>5
        <5>2. \A t \in Servers : proc'[t] \in Claims => t = s
          BY <4>3, <4>4, <4>5
        <5>3. proc'[s] \notin {"removing", "binding"}
          BY <4>4
        <5>. QED BY <4>1, <5>1, <5>2, <5>3
      <4>6. CASE raced
        BY <4>1, <4>6
      <4>. QED BY <4>5, <4>6
    <3>2. CASE sock # NoServer
      <4>1. sock' = sock /\ proc' = [proc EXCEPT ![s] = "gone"] /\ raced' = raced
        BY <1>3, <3>2 DEF BindsSocket
      <4>. QED BY <4>1
    <3>. QED BY <3>1, <3>2
  <2>2. LooseStarts' /\ StaleGone' /\ RestartIsFresh'
    BY <1>3 DEF BindsSocket
  <2>. QED BY <2>1, <2>1a, <2>2
<1>4. CASE SecuresSocket(s)
  <2>1. ServerType'
    BY <1>4 DEF SecuresSocket
  <2>1a. OneOwner'
    BY <1>4 DEF SecuresSocket
  <2>2. LooseStarts' /\ StaleGone' /\ RestartIsFresh'
    BY <1>4 DEF SecuresSocket
  <2>. QED BY <2>1, <2>1a, <2>2
<1>5. CASE LoopEnds(s)
  <2>1. ServerType'
    BY <1>5 DEF LoopEnds
  <2>1a. OneOwner'
    BY <1>5 DEF LoopEnds
  <2>2. LooseStarts' /\ StaleGone' /\ RestartIsFresh'
    BY <1>5 DEF LoopEnds
  <2>. QED BY <2>1, <2>1a, <2>2
<1>6. CASE Closes(s)
  <2>1. ServerType'
    BY <1>6 DEF Closes
  <2>1a. OneOwner'
    BY <1>6 DEF Closes
  <2>2. LooseStarts' /\ StaleGone' /\ RestartIsFresh'
    BY <1>6 DEF Closes
  <2>. QED BY <2>1, <2>1a, <2>2
<1>. QED BY <1>1, <1>2, <1>3, <1>4, <1>5, <1>6 DEF ServerStep

LEMMA ControlStep ==
  ASSUME ServerAssumption, ServerInv,
         \/ \E s \in Servers : ServerCrashes(s) \/ LaunchesServer(s)
         \/ \E goal \in {"ensure", "restart"} : Calls(goal)
         \/ Probes \/ ProbesInVain \/ FindsPath \/ FindsAnswer \/ GivesUp \/ Stops \/ SeesRemoval
         \/ UNCHANGED serverVars
  PROVE  ServerInv'
<1>. USE ServerAssumption
     DEF ServerAssumption, ServerInv, ServerType, Procs, OneOwner, Live, Claims, Listening, Claiming,
         LooseStarts, Starting, StaleGone, RestartIsFresh, Becomes, Doing, Does
<1>1. ASSUME NEW s \in Servers, ServerCrashes(s) PROVE ServerInv'
  <2>1. ServerType'
    BY <1>1 DEF ServerCrashes
  <2>1a. OneOwner'
    BY <1>1 DEF ServerCrashes
  <2>2. LooseStarts' /\ StaleGone' /\ RestartIsFresh'
    BY <1>1 DEF ServerCrashes
  <2>. QED BY <2>1, <2>1a, <2>2
<1>2. ASSUME NEW s \in Servers, LaunchesServer(s) PROVE ServerInv'
  <2>1. ServerType'
    BY <1>2 DEF LaunchesServer
  <2>1a. OneOwner'
    BY <1>2 DEF LaunchesServer
  <2>2. LooseStarts' /\ StaleGone' /\ RestartIsFresh'
    BY <1>2 DEF LaunchesServer
  <2>. QED BY <2>1, <2>1a, <2>2
<1>3. ASSUME NEW goal \in {"ensure", "restart"}, Calls(goal) PROVE ServerInv'
  <2>1. ServerType'
    BY <1>3 DEF Calls
  <2>1a. OneOwner'
    BY <1>3 DEF Calls
  <2>2. LooseStarts' /\ StaleGone' /\ RestartIsFresh'
    BY <1>3 DEF Calls
  <2>. QED BY <2>1, <2>1a, <2>2
<1>4. CASE Probes \/ FindsAnswer
  <2>1. ServerType'
    BY <1>4 DEF Probes, FindsAnswer, Answered
  <2>1a. OneOwner'
    BY <1>4 DEF Probes, FindsAnswer, Answered
  <2>2. LooseStarts' /\ StaleGone' /\ RestartIsFresh'
    BY <1>4 DEF Probes, FindsAnswer, Answered, Answering
  <2>. QED BY <2>1, <2>1a, <2>2
<1>5. CASE ProbesInVain \/ FindsPath \/ GivesUp
  <2>1. ServerType'
    BY <1>5 DEF ProbesInVain, FindsPath, GivesUp
  <2>1a. OneOwner'
    BY <1>5 DEF ProbesInVain, FindsPath, GivesUp
  <2>2. LooseStarts' /\ StaleGone' /\ RestartIsFresh'
    BY <1>5 DEF ProbesInVain, FindsPath, GivesUp
  <2>. QED BY <2>1, <2>1a, <2>2
<1>6. CASE Stops
  <2>1. ServerType'
    BY <1>6 DEF Stops, Answering
  <2>1a. OneOwner'
    <3>1. CASE Answering(sock)
      <4>1. sock \in Servers /\ proc[sock] \in {"serving", "told"}
            /\ proc' = [proc EXCEPT ![sock] = "told"] /\ sock' = sock /\ raced' = raced
        BY <1>6, <3>1 DEF Stops, Answering
      <4>. QED BY <4>1
    <3>2. CASE ~Answering(sock)
      BY <1>6, <3>2 DEF Stops
    <3>. QED BY <3>1, <3>2
  <2>2. LooseStarts' /\ StaleGone' /\ RestartIsFresh'
    BY <1>6 DEF Stops, Answering
  <2>. QED BY <2>1, <2>1a, <2>2
<1>7. CASE SeesRemoval
  <2>1. ServerType'
    BY <1>7 DEF SeesRemoval
  <2>1a. OneOwner'
    BY <1>7 DEF SeesRemoval
  <2>2. LooseStarts' /\ StaleGone' /\ RestartIsFresh'
    BY <1>7 DEF SeesRemoval
  <2>. QED BY <2>1, <2>1a, <2>2
<1>8. CASE UNCHANGED serverVars
  BY <1>8 DEF serverVars
<1>. QED BY <1>1, <1>2, <1>3, <1>4, <1>5, <1>6, <1>7, <1>8

\* A server that serves is the one a client reaches, and a restart verifies a process
\* that it launched, however crashes, slow starts and stale files fall, but for the
\* races the definitions name.
THEOREM ServiceTrue == ServerSpec => []ServerTrue
<1>1. ServerInit => ServerInv
  <2>. SUFFICES ASSUME ServerInit PROVE ServerInv
    OBVIOUS
  <2>1. \A s \in Servers : proc[s] = "none"
    BY DEF ServerInit
  <2>2. ServerType
    BY DEF ServerInit, ServerType, Procs
  <2>3. OneOwner
    BY <2>1 DEF OneOwner, Live, Claims
  <2>4. LooseStarts /\ StaleGone /\ RestartIsFresh
    BY <2>1 DEF ServerInit, LooseStarts, Starting, StaleGone, RestartIsFresh
  <2>. QED BY <2>2, <2>3, <2>4 DEF ServerInv
<1>2. ServerInv /\ [ServerNext]_serverVars => ServerInv'
  BY ServeStep, ControlStep, ServerAssumption DEF ServerNext, ServerRest
<1>3. ServerInv => ServerTrue
  BY DEF ServerInv, OneOwner, Live, ServerTrue, ServedIsReachable
<1>. QED BY <1>1, <1>2, <1>3, PTL DEF ServerSpec

-----------------------------------------------------------------------------
(* The embedded driver. *)

DriverType ==
  /\ child \in [Drivers -> {"none", "starting", "serving", "dead"}] /\ pipe \subseteq Drivers
  /\ slot \in Drivers \cup {NoDriver} /\ path \in Drivers \cup {NoDriver}
  /\ ensure \in [Callers -> {"idle", "looking", "checking", "stopping", "spawning", "settling",
                             "waiting", "taking", "ok", "failed"}]
  /\ mine \in [Callers -> Drivers \cup {NoDriver}]
  /\ calm \subseteq Callers

\* A call holds a driver of its own between spawning it and settling.
SpawnedIsHeld == \A c \in Callers : ensure[c] = "settling" <=> mine[c] # NoDriver

\* Nothing overlaps a calm call.
CalmAlone ==
  \A c \in calm : ensure[c] # "idle" /\ \A o \in Callers \ {c} : ensure[o] = "idle"

\* No stray driver runs beside a calm call, unless it fails.
CalmClean ==
  \A c \in calm : ensure[c] \notin {"taking", "failed"} =>
    \A d \in Drivers : Alive(d) => d \in pipe

\* What a calm call knows of the slot: that its driver serves the path, that it
\* has just been emptied, or that the driver is the call's own.
CalmSlot ==
  \A c \in calm :
    /\ ensure[c] \in {"checking", "ok"} => slot # NoDriver /\ path = slot /\ child[slot] = "serving"
    /\ ensure[c] \in {"spawning", "settling"} => slot = NoDriver
    /\ ensure[c] = "spawning" => \A d \in Drivers : ~Alive(d)

DriverInv == DriverType /\ SpawnedIsHeld /\ DriversAccounted /\ CalmAlone /\ CalmClean /\ CalmSlot

LEMMA EnsureKept ==
  ASSUME DriverAssumption, DriverInv, NEW c \in Callers, Begins(c) \/ EnsureStep(c)
  PROVE  DriverInv'
<1>. USE DriverAssumption
     DEF DriverAssumption, DriverInv, DriverType, SpawnedIsHeld, DriversAccounted, CalmAlone,
         CalmClean, CalmSlot, Alive, Tracked, Reaches
<1>1. CASE Begins(c)
  <2>1. DriverType' /\ SpawnedIsHeld'
    BY <1>1 DEF Begins, Strays
  <2>2. DriversAccounted'
    BY <1>1 DEF Begins, Strays
  <2>3. CalmAlone' /\ CalmClean'
    BY <1>1 DEF Begins, Strays
  <2>4. CalmSlot'
    BY <1>1 DEF Begins, Strays
  <2>. QED BY <2>1, <2>2, <2>3, <2>4
<1>2. CASE Looks(c)
  <2>1. DriverType' /\ SpawnedIsHeld'
    BY <1>2 DEF Looks, SocketLive
  <2>2. DriversAccounted'
    BY <1>2 DEF Looks, SocketLive
  <2>3. CalmAlone' /\ CalmClean'
    BY <1>2 DEF Looks, SocketLive
  <2>4. CalmSlot'
    BY <1>2 DEF Looks, SocketLive
  <2>. QED BY <2>1, <2>2, <2>3, <2>4
<1>3. CASE Checks(c)
  <2>1. DriverType' /\ SpawnedIsHeld'
    BY <1>3 DEF Checks, Reaped
  <2>2. DriversAccounted'
    BY <1>3 DEF Checks, Reaped
  <2>3. CalmAlone' /\ CalmClean'
    BY <1>3 DEF Checks, Reaped
  <2>4. CalmSlot'
    BY <1>3 DEF Checks, Reaped
  <2>. QED BY <2>1, <2>2, <2>3, <2>4
<1>4. CASE StopsOld(c)
  <2>1. DriverType' /\ SpawnedIsHeld'
    BY <1>4 DEF StopsOld, Stopped
  <2>2. DriversAccounted'
    BY <1>4 DEF StopsOld, Stopped
  <2>3. CalmAlone' /\ CalmClean'
    BY <1>4 DEF StopsOld, Stopped
  <2>4. CalmSlot'
    BY <1>4 DEF StopsOld, Stopped
  <2>. QED BY <2>1, <2>2, <2>3, <2>4
<1>5. ASSUME NEW d \in Drivers, Spawns(c, d) PROVE DriverInv'
  <2>1. DriverType' /\ SpawnedIsHeld'
    BY <1>5 DEF Spawns
  <2>2. DriversAccounted'
    BY <1>5 DEF Spawns
  <2>3. CalmAlone' /\ CalmClean'
    BY <1>5 DEF Spawns
  <2>4. CalmSlot'
    BY <1>5 DEF Spawns
  <2>. QED BY <2>1, <2>2, <2>3, <2>4
<1>6. CASE Settles(c)
  <2>1. DriverType' /\ SpawnedIsHeld'
    BY <1>6 DEF Settles
  <2>2. DriversAccounted'
    BY <1>6 DEF Settles
  <2>3. CalmAlone' /\ CalmClean'
    BY <1>6 DEF Settles
  <2>4. CalmSlot'
    BY <1>6 DEF Settles
  <2>. QED BY <2>1, <2>2, <2>3, <2>4
<1>7. CASE WaitsWell(c)
  <2>1. DriverType' /\ SpawnedIsHeld'
    BY <1>7 DEF WaitsWell, SocketLive
  <2>2. DriversAccounted'
    BY <1>7 DEF WaitsWell, SocketLive
  <2>3. CalmAlone' /\ CalmClean'
    BY <1>7 DEF WaitsWell, SocketLive
  <2>4. CalmSlot'
    BY <1>7 DEF WaitsWell, SocketLive
  <2>. QED BY <2>1, <2>2, <2>3, <2>4
<1>8. CASE WaitsInVain(c) \/ Takes(c)
  <2>1. DriverType' /\ SpawnedIsHeld'
    BY <1>8 DEF WaitsInVain, Takes
  <2>2. DriversAccounted'
    BY <1>8 DEF WaitsInVain, Takes
  <2>3. CalmAlone' /\ CalmClean'
    BY <1>8 DEF WaitsInVain, Takes
  <2>4. CalmSlot'
    BY <1>8 DEF WaitsInVain, Takes
  <2>. QED BY <2>1, <2>2, <2>3, <2>4
<1>9. CASE DeadlinePasses(c) \/ Answers(c)
  <2>1. DriverType' /\ SpawnedIsHeld'
    BY <1>9 DEF DeadlinePasses, Answers
  <2>2. DriversAccounted'
    BY <1>9 DEF DeadlinePasses, Answers
  <2>3. CalmAlone' /\ CalmClean'
    BY <1>9 DEF DeadlinePasses, Answers
  <2>4. CalmSlot'
    BY <1>9 DEF DeadlinePasses, Answers
  <2>. QED BY <2>1, <2>2, <2>3, <2>4
<1>. QED BY <1>1, <1>2, <1>3, <1>4, <1>5, <1>6, <1>7, <1>8, <1>9 DEF EnsureStep

LEMMA DriverKept ==
  ASSUME DriverAssumption, DriverInv,
         \/ ShutdownCommand \/ AcceptEnds \/ Exits
         \/ \E d \in Drivers : Binds(d) \/ CrashesAlone(d) \/ ParentGone(d)
         \/ UNCHANGED driverVars
  PROVE  DriverInv'
<1>. USE DriverAssumption
     DEF DriverAssumption, DriverInv, DriverType, SpawnedIsHeld, DriversAccounted, CalmAlone,
         CalmClean, CalmSlot, Alive, Tracked
<1>1. CASE ShutdownCommand \/ AcceptEnds
  <2>1. DriverType' /\ SpawnedIsHeld'
    BY <1>1 DEF ShutdownCommand, AcceptEnds, Stopped
  <2>2. DriversAccounted'
    BY <1>1 DEF ShutdownCommand, AcceptEnds, Stopped
  <2>3. CalmAlone' /\ CalmClean'
    BY <1>1 DEF ShutdownCommand, AcceptEnds, Stopped
  <2>4. CalmSlot'
    BY <1>1 DEF ShutdownCommand, AcceptEnds, Stopped
  <2>. QED BY <2>1, <2>2, <2>3, <2>4
<1>2. CASE Exits
  <2>1. DriverType' /\ SpawnedIsHeld'
    BY <1>2 DEF Exits
  <2>2. DriversAccounted'
    BY <1>2 DEF Exits
  <2>3. CalmAlone' /\ CalmClean'
    BY <1>2 DEF Exits
  <2>4. CalmSlot'
    BY <1>2 DEF Exits
  <2>. QED BY <2>1, <2>2, <2>3, <2>4
<1>3. ASSUME NEW d \in Drivers, Binds(d) PROVE DriverInv'
  <2>1. DriverType' /\ SpawnedIsHeld'
    BY <1>3 DEF Binds
  <2>2. DriversAccounted'
    BY <1>3 DEF Binds
  <2>3. CalmAlone' /\ CalmClean'
    BY <1>3 DEF Binds
  <2>4. CalmSlot'
    BY <1>3 DEF Binds
  <2>. QED BY <2>1, <2>2, <2>3, <2>4
<1>4. ASSUME NEW d \in Drivers, CrashesAlone(d) PROVE DriverInv'
  <2>1. DriverType' /\ SpawnedIsHeld'
    BY <1>4 DEF CrashesAlone
  <2>2. DriversAccounted'
    BY <1>4 DEF CrashesAlone
  <2>3. CalmAlone' /\ CalmClean'
    BY <1>4 DEF CrashesAlone
  <2>4. CalmSlot'
    BY <1>4 DEF CrashesAlone
  <2>. QED BY <2>1, <2>2, <2>3, <2>4
<1>5. ASSUME NEW d \in Drivers, ParentGone(d) PROVE DriverInv'
  <2>1. DriverType' /\ SpawnedIsHeld'
    BY <1>5 DEF ParentGone
  <2>2. DriversAccounted'
    BY <1>5 DEF ParentGone
  <2>3. CalmAlone' /\ CalmClean'
    BY <1>5 DEF ParentGone
  <2>4. CalmSlot'
    BY <1>5 DEF ParentGone
  <2>. QED BY <2>1, <2>2, <2>3, <2>4
<1>6. CASE UNCHANGED driverVars
  <2>1. DriverType' /\ SpawnedIsHeld'
    BY <1>6 DEF driverVars
  <2>2. DriversAccounted'
    BY <1>6 DEF driverVars
  <2>3. CalmAlone' /\ CalmClean'
    BY <1>6 DEF driverVars
  <2>4. CalmSlot'
    BY <1>6 DEF driverVars
  <2>. QED BY <2>1, <2>2, <2>3, <2>4
<1>. QED BY <1>1, <1>2, <1>3, <1>4, <1>5, <1>6

\* No driver is forgotten with its pipe open, and an ensure that nothing overlapped
\* leaves the slot's own driver serving, whoever else ensures, stops or crashes.
THEOREM DriversKept == DriverSpec => []DriversTrue
<1>1. DriverInit => DriverInv
  BY DriverAssumption
  DEF DriverAssumption, DriverInit, DriverInv, DriverType, SpawnedIsHeld, DriversAccounted, CalmAlone,
      CalmClean, CalmSlot, Alive
<1>2. DriverInv /\ [DriverNext]_driverVars => DriverInv'
  BY EnsureKept, DriverKept, DriverAssumption DEF DriverNext, DriverRest
<1>3. DriverInv => DriversTrue
  BY DEF DriverInv, CalmSlot, DriversTrue, LoneEnsureServes
<1>. QED BY <1>1, <1>2, <1>3, PTL DEF DriverSpec

-----------------------------------------------------------------------------
(* Replays. *)

GateSet == [cross : BOOLEAN, front : BOOLEAN, top : BOOLEAN, present : BOOLEAN, lock : BOOLEAN]

Ungated == {"new", "next", "done", "error"} \cup Waits

ReplayState ==
  [pc : Ungated \cup {"gating", "last look", "acting", "holding"},
   left : Int, step : NativeSteps \cup {NoStep}, gates : GateSet]

ReplayType ==
  /\ front \in Apps \cup {User} /\ here \subseteq Apps /\ top \subseteq Apps
  /\ idle \in BOOLEAN /\ held \in BOOLEAN /\ moved \subseteq Replays
  /\ replay \in [Replays -> ReplayState]

\* What has come to the gates is a step, and one that activates was allowed to.
GatedSteps ==
  \A r \in Replays : replay[r].pc \in {"gating", "last look", "acting", "holding"} =>
    /\ Step(r) \in NativeSteps
    /\ Step(r).action = "focus" => Step(r).allow

\* Where the desktop stands as a step's gates demand.
InPlace(s) == front = s.app /\ s.app \in here /\ (s.action = "click" => s.app \in top)

\* Gates that did not block, and that nothing has outdated, still hold.
GatesHold ==
  \A r \in Replays : At(r, "last look") /\ r \notin moved /\ Step(r).allow /\ ~Blocking(replay[r].gates) =>
    InPlace(Step(r))

ReplayInv ==
  ReplayType /\ GatedSteps /\ GatesHold /\ ForegroundIsTheirs /\ LockHeldOnce

LEMMA StepFacts ==
  ASSUME NEW s \in NativeSteps
  PROVE  s.app \in Apps /\ s.action \in NativeActions /\ s.allow \in BOOLEAN
BY DEF NativeSteps, NativeActions

\* The other replays are where they were.
Elsewhere(r) == \A q \in Replays \ {r} : replay'[q] = replay[q]

LEMMA DoneFacts ==
  ASSUME ReplayType, NEW r \in Replays, Done(r)
  PROVE  /\ replay' \in [Replays -> ReplayState]
         /\ replay'[r].pc \in {"next", "done", "closing"}
         /\ Elsewhere(r) /\ moved' = moved \ {r}
<1>1. replay[r].left - 1 \in Int
  <2>1. replay[r] \in ReplayState
    BY DEF ReplayType
  <2>2. replay[r].left \in Int
    BY <2>1 DEF ReplayState
  <2>. QED BY <2>2
<1>2. NoGates \in GateSet
  BY DEF NoGates, GateSet
<1>3. \A pc \in {"next", "done", "closing"} :
        [pc |-> pc, left |-> replay[r].left - 1, step |-> NoStep, gates |-> NoGates] \in ReplayState
  BY <1>1, <1>2 DEF ReplayState, Ungated, Waits
<1>. QED BY <1>3 DEF ReplayType, Done, Elsewhere

\* Replay r goes on without the lock: only what is claimed of r is left to show.
LEMMA GoesKept ==
  ASSUME ReplayInv, NEW r \in Replays, Elsewhere(r), ReplayType',
         replay[r].pc # "holding", replay'[r].pc # "holding",
         UNCHANGED <<front, here, top, idle, held>>, moved' = moved \/ moved' = moved \ {r},
         replay'[r].pc \in {"gating", "last look", "acting"} =>
           /\ replay'[r].step \in NativeSteps
           /\ replay'[r].step.action = "focus" => replay'[r].step.allow,
         replay'[r].pc = "last look" /\ replay'[r].step.allow /\ ~Blocking(replay'[r].gates) =>
           InPlace(replay'[r].step),
         replay'[r].pc = "acting" /\ r \notin moved' /\ replay'[r].step.allow =>
           InPlace(replay'[r].step) /\ idle
  PROVE  ReplayInv'
<1>. USE DEF Elsewhere, At, Step
<1>1. GatedSteps'
  BY DEF ReplayInv, ReplayType, GatedSteps
<1>2. GatesHold'
  <2>. SUFFICES ASSUME NEW q \in Replays, At(q, "last look")', q \notin moved', Step(q)'.allow,
                       ~Blocking(replay'[q].gates)
                PROVE  InPlace(Step(q))'
    BY DEF GatesHold
  <2>1. CASE q = r
    BY <2>1 DEF InPlace
  <2>2. CASE q # r
    <3>1. replay'[q] = replay[q] /\ q \notin moved
      BY <2>2
    <3>2. InPlace(Step(q))
      BY <3>1 DEF ReplayInv, GatesHold
    <3>. QED BY <3>1, <3>2 DEF InPlace
  <2>. QED BY <2>1, <2>2
<1>3. ForegroundIsTheirs'
  <2>. SUFFICES ASSUME NEW q \in Replays, At(q, "acting")', q \notin moved', Step(q)'.allow
                PROVE  InPlace(Step(q))' /\ idle'
    BY DEF ForegroundIsTheirs, InPlace
  <2>1. CASE q = r
    BY <2>1 DEF InPlace
  <2>2. CASE q # r
    <3>1. replay'[q] = replay[q] /\ q \notin moved
      BY <2>2
    <3>2. InPlace(Step(q)) /\ idle
      BY <3>1 DEF ReplayInv, ForegroundIsTheirs, InPlace
    <3>. QED BY <3>1, <3>2 DEF InPlace
  <2>. QED BY <2>1, <2>2
<1>4. LockHeldOnce'
  BY DEF ReplayInv, ReplayType, LockHeldOnce
<1>. QED BY <1>1, <1>2, <1>3, <1>4 DEF ReplayInv

LEMMA RestKept ==
  ASSUME ReplayInv, NEW r \in Replays, Elsewhere(r), ReplayType',
         replay[r].pc # "holding", replay'[r].pc \in Ungated,
         UNCHANGED <<front, here, top, idle, held>>, moved' = moved \/ moved' = moved \ {r}
  PROVE  ReplayInv'
BY GoesKept DEF Ungated, Waits

LEMMA DoneKept ==
  ASSUME ReplayInv, NEW r \in Replays, Done(r), replay[r].pc # "holding",
         UNCHANGED <<front, here, top, idle, held>>
  PROVE  ReplayInv'
<1>1. ReplayType'
  BY DoneFacts DEF ReplayInv, ReplayType
<1>. QED BY <1>1, DoneFacts, RestKept DEF ReplayInv, Ungated, Waits

\* Replay r goes on to wait for the driver, or has waited.
LEMMA TurnsKept ==
  ASSUME ReplayInv, NEW r \in Replays, NEW pc \in Ungated, Turns(r, pc), replay[r].pc # "holding"
  PROVE  ReplayInv' /\ front' = front
<1>. DEFINE v == [replay[r] EXCEPT !.pc = pc]
<1>1. replay' = [replay EXCEPT ![r] = v] /\ UNCHANGED <<front, here, top, idle, held, moved>>
  BY DEF Turns, desktop, ReplayInv, ReplayType
<1>2. replay[r] \in ReplayState
  BY DEF ReplayInv, ReplayType
<1>3. v \in ReplayState /\ v.pc = pc
  BY <1>2 DEF ReplayState
<1>. HIDE DEF v
<1>4. replay'[r] = v /\ Elsewhere(r) /\ ReplayType'
  BY <1>1, <1>3 DEF ReplayInv, ReplayType, Elsewhere
<1>. QED BY <1>1, <1>3, <1>4, RestKept

LEMMA UserKept ==
  ASSUME ReplayInv, UserMoves \/ UserRests
  PROVE  ReplayInv'
<1>. USE DEF At, Step
<1>1. CASE UserMoves
  <2>1. replay' = replay /\ held' = held /\ moved' = Looked /\ ReplayType'
    BY <1>1 DEF UserMoves, Moves, ReplayInv, ReplayType, Looked
  <2>2. GatedSteps' /\ LockHeldOnce'
    BY <2>1 DEF ReplayInv, GatedSteps, LockHeldOnce
  <2>3. GatesHold' /\ ForegroundIsTheirs'
    BY <2>1 DEF Looked, GatesHold, ForegroundIsTheirs
  <2>. QED BY <2>1, <2>2, <2>3 DEF ReplayInv
<1>2. CASE UserRests
  <2>1. UNCHANGED <<front, here, top, held, replay, moved>> /\ idle' = TRUE
    BY <1>2 DEF UserRests
  <2>2. ReplayType' /\ GatedSteps' /\ LockHeldOnce'
    BY <2>1 DEF ReplayInv, ReplayType, GatedSteps, LockHeldOnce
  <2>3. GatesHold' /\ ForegroundIsTheirs'
    BY <2>1 DEF ReplayInv, GatesHold, ForegroundIsTheirs, InPlace, Blocking
  <2>. QED BY <2>2, <2>3 DEF ReplayInv
<1>. QED BY <1>1, <1>2

LEMMA RequestKept ==
  ASSUME ReplayAssumption, ReplayInv, NEW r \in Replays, Replies(r) \/ \E n \in 1 .. MaxSteps : Requests(r, n)
  PROVE  ReplayInv'
<1>1. CASE Replies(r)
  <2>1. ReplayType' /\ Elsewhere(r) /\ replay'[r].pc = "new" /\ replay[r].pc # "holding"
    <3>1. [pc |-> "new", left |-> 0, step |-> NoStep, gates |-> NoGates] \in ReplayState
      BY DEF ReplayState, NoGates, GateSet, Ungated
    <3>. QED BY <1>1, <3>1 DEF Replies, ReplayInv, ReplayType, desktop, Elsewhere
  <2>. QED BY <1>1, <2>1, RestKept DEF Replies, desktop, Ungated
<1>2. ASSUME NEW n \in 1 .. MaxSteps, Requests(r, n) PROVE ReplayInv'
  <2>. DEFINE pc == IF route = "driver" THEN "ensuring" ELSE "next"
  <2>0. pc \in Ungated
    BY DEF Ungated, Waits
  <2>. HIDE DEF pc
  <2>1. ReplayType' /\ Elsewhere(r) /\ replay'[r].pc = pc /\ replay[r].pc # "holding"
    <3>1. [[replay[r] EXCEPT !.pc = pc] EXCEPT !.left = n] \in ReplayState
      <4>1. replay[r] \in ReplayState /\ n \in Int
        BY ReplayAssumption DEF ReplayAssumption, ReplayInv, ReplayType
      <4>. QED BY <2>0, <4>1 DEF ReplayState
    <3>2. replay' = [replay EXCEPT ![r] = [[replay[r] EXCEPT !.pc = pc] EXCEPT !.left = n]]
      BY <1>2 DEF Requests, ReplayInv, ReplayType, pc
    <3>3. replay'[r] = [[replay[r] EXCEPT !.pc = pc] EXCEPT !.left = n]
      BY <3>2 DEF ReplayInv, ReplayType
    <3>4. replay'[r].pc = pc
      BY <3>3 DEF ReplayInv, ReplayType, ReplayState
    <3>5. UNCHANGED <<front, here, top, idle, moved>> /\ replay[r].pc = "new"
      BY <1>2 DEF Requests, desktop, At
    <3>6. replay' \in [Replays -> ReplayState] /\ Elsewhere(r)
      BY <3>1, <3>2 DEF ReplayInv, ReplayType, Elsewhere
    <3>7. held' = held
      BY <1>2 DEF Requests
    <3>. QED BY <3>4, <3>5, <3>6, <3>7 DEF ReplayInv, ReplayType
  <2>. QED BY <1>2, <2>0, <2>1, RestKept DEF Requests, desktop
<1>. QED BY <1>1, <1>2

LEMMA TakesKept ==
  ASSUME ReplayInv, NEW r \in Replays, At(r, "next"), NEW s \in NativeSteps, TakesStep(r, s)
  PROVE  ReplayInv'
<1>0. UNCHANGED <<front, here, top, idle, held>> /\ replay[r].pc = "next"
  BY DEF TakesStep, desktop, At
<1>1. CASE Settled(s)
  BY <1>0, <1>1, DoneKept DEF TakesStep
<1>2. CASE ~Settled(s)
  <2>. DEFINE v == [[replay[r] EXCEPT !.pc = "gating"] EXCEPT !.step = s]
  <2>1. replay[r] \in ReplayState
    BY DEF ReplayInv, ReplayType
  <2>2. v \in ReplayState /\ v.pc = "gating" /\ v.step = s
    BY <2>1 DEF ReplayState
  <2>. HIDE DEF v
  <2>3. replay' = [replay EXCEPT ![r] = v] /\ moved' = moved
    BY <1>2 DEF TakesStep, ReplayInv, ReplayType, v
  <2>4. replay'[r] = v /\ Elsewhere(r) /\ ReplayType'
    BY <2>2, <2>3, <1>0 DEF ReplayInv, ReplayType, Elsewhere
  <2>5. s.action = "focus" => s.allow
    BY <1>2 DEF Settled
  <2>. QED BY <1>0, <2>2, <2>3, <2>4, <2>5, GoesKept
<1>. QED BY <1>1, <1>2

LEMMA GateFacts ==
  ASSUME NEW s \in NativeSteps, ReplayType, ~Blocking(GatesOf(s)), s.allow
  PROVE  InPlace(s) /\ (GatesOf(s).present => idle)
BY StepFacts DEF GatesOf, Blocking, InPlace

LEMMA ReadsKept ==
  ASSUME ReplayInv, NEW r \in Replays, NEW late \in BOOLEAN, ReadsGates(r, late)
  PROVE  ReplayInv'
<1>0. UNCHANGED <<front, here, top, idle, held>> /\ replay[r].pc = "gating"
  BY DEF ReadsGates, desktop, At
<1>1. Step(r) \in NativeSteps /\ (Step(r).action = "focus" => Step(r).allow) /\ replay[r] \in ReplayState
  BY <1>0 DEF ReplayInv, GatedSteps, ReplayType
<1>2. CASE Done(r)
  BY <1>0, <1>2, DoneKept
<1>3. ASSUME NEW pc \in {"last look", "acting"}, NEW g \in GateSet, Goes(r, pc, g),
             pc = "last look" => g = GatesOf(Step(r)),
             pc = "acting" => ~Blocking(GatesOf(Step(r))) /\ GatesOf(Step(r)).present
      PROVE  ReplayInv'
  <2>. DEFINE v == [[replay[r] EXCEPT !.pc = pc] EXCEPT !.gates = g]
  <2>1. v \in ReplayState /\ v.pc = pc /\ v.step = Step(r) /\ v.gates = g
    BY <1>1 DEF ReplayState, Step
  <2>. HIDE DEF v
  <2>2. replay' = [replay EXCEPT ![r] = v] /\ moved' = moved \ {r}
    BY <1>3 DEF Goes, ReplayInv, ReplayType, v
  <2>3. replay'[r] = v /\ Elsewhere(r) /\ ReplayType'
    BY <2>1, <2>2, <1>0 DEF ReplayInv, ReplayType, Elsewhere
  <2>4. pc = "last look" /\ Step(r).allow /\ ~Blocking(g) => InPlace(Step(r))
    BY <1>1, <1>3, GateFacts DEF ReplayInv
  <2>5. pc = "acting" /\ Step(r).allow => InPlace(Step(r)) /\ idle
    BY <1>1, <1>3, GateFacts DEF ReplayInv
  <2>. QED BY <1>0, <1>1, <1>3, <2>1, <2>2, <2>3, <2>4, <2>5, GoesKept
<1>4. GatesOf(Step(r)) \in GateSet /\ NoGates \in GateSet
  BY <1>1, StepFacts DEF GatesOf, NoGates, GateSet, ReplayInv, ReplayType
<1>5. \/ Done(r)
      \/ Goes(r, "last look", GatesOf(Step(r)))
      \/ ~Blocking(GatesOf(Step(r))) /\ GatesOf(Step(r)).present /\ Goes(r, "acting", NoGates)
  BY DEF ReadsGates
<1>. QED BY <1>2, <1>3, <1>4, <1>5

LEMMA LooksKept ==
  ASSUME ReplayInv, NEW r \in Replays, LooksAgain(r)
  PROVE  ReplayInv'
<1>0. UNCHANGED <<front, here, top, idle, held>> /\ replay[r].pc = "last look"
  BY DEF LooksAgain, desktop, At
<1>1. CASE Done(r)
  BY <1>0, <1>1, DoneKept
<1>2. CASE ~Done(r)
  <2>. DEFINE v == [[replay[r] EXCEPT !.pc = "acting"] EXCEPT !.gates = NoGates]
  <2>1. idle /\ ~Blocking(replay[r].gates) /\ moved' = moved
        /\ replay' = [replay EXCEPT ![r] = v]
    BY <1>2 DEF LooksAgain, ReplayInv, ReplayType
  <2>2. replay[r] \in ReplayState /\ NoGates \in GateSet
    BY DEF ReplayInv, ReplayType, NoGates, GateSet
  <2>3. v \in ReplayState /\ v.pc = "acting" /\ v.step = Step(r)
    BY <2>2 DEF ReplayState, Step
  <2>. HIDE DEF v
  <2>4. replay'[r] = v /\ Elsewhere(r) /\ ReplayType'
    BY <1>0, <2>1, <2>3 DEF ReplayInv, ReplayType, Elsewhere
  <2>5. r \notin moved /\ Step(r).allow => InPlace(Step(r))
    BY <1>0, <2>1 DEF ReplayInv, GatesHold, At
  <2>6. Step(r) \in NativeSteps /\ (Step(r).action = "focus" => Step(r).allow)
    BY <1>0 DEF ReplayInv, GatedSteps
  <2>. QED BY <1>0, <2>1, <2>3, <2>4, <2>5, <2>6, GoesKept
<1>. QED BY <1>1, <1>2

\* An activation outdates the gates of every other replay, or leaves the front as it is.
LEMMA ActivatesKept ==
  ASSUME ReplayInv, NEW r \in Replays, Activates(r)
  PROVE  /\ ReplayInv'
         /\ replay'[r].pc = "holding" /\ front' # front => r \in moved /\ Step(r).allow
         /\ Elsewhere(r)
<1>0. UNCHANGED <<here, top, idle>> /\ replay[r].pc = "acting" /\ Step(r).action = "focus"
  BY DEF Activates, At
<1>1. Step(r) \in NativeSteps /\ Step(r).allow /\ Step(r).app \in Apps /\ replay[r] \in ReplayState
  BY <1>0, StepFacts DEF ReplayInv, GatedSteps, ReplayType
<1>2. CASE held
  <2>1. Done(r) /\ UNCHANGED <<front, held>>
    BY <1>2 DEF Activates
  <2>. QED BY <1>0, <2>1, DoneKept, DoneFacts DEF ReplayInv
<1>3. CASE ~held
  <2>. DEFINE v == [replay[r] EXCEPT !.pc = "holding"]
  <2>1. /\ held' = TRUE /\ front' = Step(r).app
        /\ replay' = [replay EXCEPT ![r] = v]
        /\ moved' = (IF front' = front THEN moved ELSE Looked) \ {r}
    BY <1>3 DEF Activates, ReplayInv, ReplayType
  <2>2. v \in ReplayState /\ v.pc = "holding" /\ v.step = Step(r)
    BY <1>1 DEF ReplayState, Step
  <2>. HIDE DEF v
  <2>3. replay'[r] = v /\ Elsewhere(r) /\ replay' \in [Replays -> ReplayState]
    BY <2>1, <2>2 DEF ReplayInv, ReplayType, Elsewhere
  <2>4. ReplayType'
    BY <1>0, <1>1, <2>1, <2>3 DEF ReplayInv, ReplayType, Looked
  <2>5. GatedSteps'
    BY <1>1, <2>2, <2>3 DEF ReplayInv, GatedSteps, Elsewhere, Step
  <2>6. LockHeldOnce'
    <3>1. \A q \in Replays : replay[q].pc # "holding"
      BY <1>3 DEF ReplayInv, LockHeldOnce, At
    <3>. QED BY <2>1, <2>2, <2>3, <3>1 DEF LockHeldOnce, At, Elsewhere
  <2>7. CASE front' = front
    <3>1. GatesHold'
      <4>. SUFFICES ASSUME NEW q \in Replays, At(q, "last look")', q \notin moved', Step(q)'.allow,
                           ~Blocking(replay'[q].gates)
                    PROVE  InPlace(Step(q))'
        BY DEF GatesHold
      <4>1. replay'[q] = replay[q] /\ q \notin moved
        BY <2>1, <2>2, <2>3, <2>7 DEF Elsewhere, At
      <4>2. InPlace(Step(q))
        BY <4>1 DEF ReplayInv, GatesHold, At, Step
      <4>. QED BY <1>0, <2>7, <4>1, <4>2 DEF InPlace, Step
    <3>2. ForegroundIsTheirs'
      <4>. SUFFICES ASSUME NEW q \in Replays, At(q, "acting")', q \notin moved', Step(q)'.allow
                    PROVE  InPlace(Step(q))' /\ idle'
        BY DEF ForegroundIsTheirs, InPlace
      <4>1. replay'[q] = replay[q] /\ q \notin moved
        BY <2>1, <2>2, <2>3, <2>7 DEF Elsewhere, At
      <4>2. InPlace(Step(q)) /\ idle
        BY <4>1 DEF ReplayInv, ForegroundIsTheirs, InPlace, At, Step
      <4>. QED BY <1>0, <2>7, <4>1, <4>2 DEF InPlace, Step
    <3>. QED BY <2>3, <2>4, <2>5, <2>6, <2>7, <3>1, <3>2 DEF ReplayInv
  <2>8. CASE front' # front
    <3>1. \A q \in Replays : replay'[q].pc \in {"last look", "acting"} => q \in moved'
      BY <2>1, <2>2, <2>3, <2>8 DEF Looked, Elsewhere
    <3>2. GatesHold' /\ ForegroundIsTheirs'
      BY <3>1 DEF GatesHold, ForegroundIsTheirs, At
    <3>3. r \in moved
      BY <1>0, <1>1, <2>1, <2>8 DEF ReplayInv, ForegroundIsTheirs, At
    <3>. QED BY <1>1, <2>3, <2>4, <2>5, <2>6, <3>2, <3>3 DEF ReplayInv
  <2>. QED BY <2>7, <2>8
<1>. QED BY <1>2, <1>3

LEMMA ReleasesKept ==
  ASSUME ReplayInv, NEW r \in Replays, NEW ok \in BOOLEAN, Releases(r, ok)
  PROVE  ReplayInv' /\ Elsewhere(r) /\ front' = front /\ replay'[r].pc # "holding"
<1>0. UNCHANGED <<front, here, top, idle>> /\ replay[r].pc = "holding" /\ held' = FALSE
  BY DEF Releases, desktop, At
<1>1. replay[r] \in ReplayState
  BY DEF ReplayInv, ReplayType
<1>2. [[replay[r] EXCEPT !.pc = "error"] EXCEPT !.step = NoStep] \in ReplayState
      /\ [[replay[r] EXCEPT !.pc = "error"] EXCEPT !.step = NoStep].pc = "error"
  BY <1>1 DEF ReplayState, Ungated
<1>3. /\ replay' \in [Replays -> ReplayState] /\ Elsewhere(r)
      /\ replay'[r].pc \in {"next", "done", "closing", "error"} /\ (moved' = moved \/ moved' = moved \ {r})
  <2>1. CASE Done(r)
    BY <2>1, DoneFacts DEF ReplayInv
  <2>2. CASE ~Done(r)
    <3>. DEFINE v == [[replay[r] EXCEPT !.pc = "error"] EXCEPT !.step = NoStep]
    <3>1. replay' = [replay EXCEPT ![r] = v] /\ moved' = moved
      BY <2>2 DEF Releases, ReplayInv, ReplayType
    <3>2. v \in ReplayState /\ v.pc = "error"
      BY <1>2
    <3>. HIDE DEF v
    <3>. QED BY <3>1, <3>2 DEF ReplayInv, ReplayType, Elsewhere
  <2>. QED BY <2>1, <2>2
<1>4. ReplayType' /\ GatedSteps'
  BY <1>0, <1>3 DEF ReplayInv, ReplayType, GatedSteps, Elsewhere, Step
<1>5. LockHeldOnce'
  <2>1. \A q \in Replays : replay'[q].pc # "holding"
    BY <1>0, <1>3 DEF ReplayInv, LockHeldOnce, Elsewhere, At
  <2>. QED BY <1>0, <2>1 DEF LockHeldOnce, At
<1>6. \A q \in Replays : replay'[q].pc \in {"last look", "acting"} =>
        replay'[q] = replay[q] /\ (q \in moved => q \in moved')
  BY <1>3 DEF Elsewhere
<1>7. GatesHold' /\ ForegroundIsTheirs'
  BY <1>0, <1>6 DEF ReplayInv, GatesHold, ForegroundIsTheirs, InPlace, At, Step
<1>. QED BY <1>0, <1>3, <1>4, <1>5, <1>7 DEF ReplayInv

\* What a draft's step is mapped to passes the policy, but for its own shortcut.
LEMMA ToolsAllowed ==
  ASSUME NEW s \in DriverSteps, NEW c \in Resolving(s) \cup Tools(s)
  PROVE  Allowed(c) \/ c.keys = "addressbar"
<1>. USE DEF Call, Plain, Behind, Allowed, OpenTools, BackgroundTools
<1>1. CASE c \in Resolving(s)
  BY <1>1 DEF Resolving
<1>2. CASE c \in Tools(s)
  <2>1. CASE s.action \in {"launch", "focus"} \/ s.action = "click"
    BY <1>2, <2>1 DEF Tools
  <2>2. CASE s.action \in {"key", "submit"}
    BY <1>2, <2>2 DEF Tools
  <2>3. CASE s.action \notin {"launch", "focus", "click", "key", "submit"}
    BY <1>2, <2>3 DEF Tools
  <2>. QED BY <2>1, <2>2, <2>3
<1>. QED BY <1>1, <1>2

LEMMA SessionAllowed == \A c \in SessionCalls : Allowed(c)
BY DEF SessionCalls, Call, Plain, Allowed, OpenTools

LEMMA CallsKept ==
  ASSUME ReplayInv, CallsAllowed, [ReplayNext]_replayVars
  PROVE  CallsAllowed'
<1>1. CASE UNCHANGED calls
  BY <1>1 DEF CallsAllowed, Allowed
<1>2. ASSUME NEW r \in Replays, NEW s \in DriverSteps, DriverStep(r, s), ~UNCHANGED calls PROVE CallsAllowed'
  <2>1. ~s.skip /\ calls' = Resolving(s) \cup Tools(s)
    BY <1>2 DEF DriverStep
  <2>2. \A c \in calls' : Allowed(c) \/ c.keys = "addressbar"
    BY <2>1, ToolsAllowed
  <2>. QED BY <2>2 DEF CallsAllowed, Allowed
<1>3. ASSUME NEW r \in Replays, NEW ok \in BOOLEAN, Ensures(r, ok), ~UNCHANGED calls PROVE CallsAllowed'
  <2>1. calls' = SessionCalls
    BY <1>3 DEF Ensures
  <2>2. \A c \in calls' : Allowed(c) \/ c.keys = "addressbar"
    BY <2>1, SessionAllowed
  <2>. QED BY <2>2 DEF CallsAllowed, Allowed
<1>. QED BY <1>1, <1>2, <1>3
  DEF ReplayNext, DriverAnswers, CallReturns, ReplayStep, UserMoves, Moves, UserRests, Requests,
      TakesStep, ReadsGates, LooksAgain, Posts, Activates, Releases, Replies, replayVars

\* One step of anyone: the invariant holds on, and the front is not taken.
LEMMA ReplayKept ==
  ASSUME ReplayAssumption, ReplayInv, [ReplayNext]_replayVars
  PROVE  /\ ReplayInv'
         /\ \A r \in Replays : At(r, "acting") /\ replay'[r].pc = "holding" /\ front' # front
              => r \in moved /\ Step(r).allow
<1>1. CASE UNCHANGED replayVars
  BY <1>1 DEF replayVars, ReplayInv, ReplayType, GatedSteps, GatesHold, ForegroundIsTheirs, LockHeldOnce,
              InPlace, Blocking, At, Step
<1>2. CASE UserMoves \/ UserRests
  <2>1. replay' = replay
    BY <1>2 DEF UserMoves, Moves, UserRests
  <2>. QED BY <1>2, <2>1, UserKept DEF At
<1>3. ASSUME NEW r \in Replays, Replies(r) \/ \E n \in 1 .. MaxSteps : Requests(r, n)
      PROVE  ReplayInv' /\ front' = front
  BY <1>3, RequestKept DEF Replies, Requests, desktop
<1>4. ASSUME NEW r \in Replays, NEW s \in NativeSteps, At(r, "next"), TakesStep(r, s)
      PROVE  ReplayInv' /\ front' = front
  BY <1>4, TakesKept DEF TakesStep, desktop
<1>5. ASSUME NEW r \in Replays, ReadsGates(r, TRUE) \/ ReadsGates(r, FALSE) \/ LooksAgain(r)
      PROVE  ReplayInv' /\ front' = front
  BY <1>5, ReadsKept, LooksKept DEF ReadsGates, LooksAgain, desktop
<1>6. ASSUME NEW r \in Replays, Posts(r)
      PROVE  ReplayInv' /\ front' = front
  BY <1>6, DoneKept DEF Posts, At, desktop
<1>7. ASSUME NEW r \in Replays, NEW s \in DriverSteps, DriverStep(r, s)
      PROVE  ReplayInv' /\ front' = front
  BY <1>7, DoneKept, TurnsKept DEF DriverStep, At, desktop, Ungated, Waits
<1>8. ASSUME NEW r \in Replays, NEW ok \in BOOLEAN, Releases(r, ok)
      PROVE  ReplayInv' /\ front' = front
  BY <1>8, ReleasesKept
<1>9. ASSUME NEW r \in Replays, Activates(r)
      PROVE  /\ ReplayInv'
             /\ \A q \in Replays : At(q, "acting") /\ replay'[q].pc = "holding" /\ front' # front
                  => q \in moved /\ Step(q).allow
  BY <1>9, ActivatesKept DEF Elsewhere, At
<1>10. ASSUME NEW r \in Replays, DriverAnswers(r)
      PROVE  ReplayInv' /\ front' = front
  <2>1. ASSUME NEW ok \in BOOLEAN, Ensures(r, ok) PROVE ReplayInv' /\ front' = front
    BY <2>1, TurnsKept DEF Ensures, At, Ungated, Waits
  <2>2. CASE CallReturns(r)
    BY <2>2, DoneKept, TurnsKept DEF CallReturns, At, desktop, Ungated, Waits
  <2>. QED BY <1>10, <2>1, <2>2 DEF DriverAnswers
<1>. QED BY <1>1, <1>2, <1>3, <1>4, <1>5, <1>6, <1>7, <1>8, <1>9, <1>10 DEF ReplayNext, ReplayStep

\* Replays leave the user's foreground alone: what acts on it was in front when the
\* desktop was last looked at, one activation runs at a time, the driver is asked for
\* what its policy allows, and no activation changes the front unseen.
THEOREM ForegroundSafe == ReplaySpec => ForegroundKept
<1>1. ReplayInit => ReplayInv /\ CallsAllowed
  <2>. SUFFICES ASSUME ReplayInit PROVE ReplayInv /\ CallsAllowed
    OBVIOUS
  <2>1. [pc |-> "new", left |-> 0, step |-> NoStep, gates |-> NoGates] \in ReplayState
    BY DEF ReplayState, NoGates, GateSet, Ungated
  <2>2. \A r \in Replays : replay[r].pc = "new"
    BY DEF ReplayInit
  <2>3. ReplayType
    BY <2>1 DEF ReplayInit, ReplayType
  <2>4. held = FALSE /\ calls = {}
    BY DEF ReplayInit
  <2>. QED BY <2>2, <2>3, <2>4
       DEF ReplayInv, GatedSteps, GatesHold, ForegroundIsTheirs, LockHeldOnce, CallsAllowed, At
<1>2. /\ ReplayInv /\ CallsAllowed /\ [ReplayNext]_replayVars => (ReplayInv /\ CallsAllowed)'
      /\ ReplayInv /\ [ReplayNext]_replayVars =>
           [\A r \in Replays : At(r, "acting") /\ replay'[r].pc = "holding" /\ front' # front
              => r \in moved /\ Step(r).allow]_replayVars
  BY ReplayKept, CallsKept, ReplayAssumption
<1>3. ReplayInv /\ CallsAllowed => ReplaysStayPut
  BY DEF ReplayInv, ReplaysStayPut
<1>. QED BY <1>1, <1>2, <1>3, PTL DEF ReplaySpec, ForegroundKept, FocusNotStolen

-----------------------------------------------------------------------------
(***************************************************************************)
(* The browser's visits and the importer's cursor, for any observations,   *)
(* batches and limits, and any number of insertions, trims and wipes.      *)
(*                                                                         *)
(* The visits are a replay of what was inserted, which is taken apart by   *)
(* induction on its length (ReplayedOn, ClosesAll).  The invariant says of *)
(* a row above everything the importer has asked for that it was inserted  *)
(* later, which the reuse of rowids leaves true although it makes the      *)
(* importer miss rows; and of a row whose rowid is its own that it is      *)
(* among those asked for as soon as one above it is.                       *)
(***************************************************************************)

\* Induction, which the library states with an operator for a parameter, of a set.
LessNat == {ss \in Nat \X Nat : ss[1] < ss[2]}
LEMMA LeastNat ==
  ASSUME NEW T, T \subseteq Nat, T # {}
  PROVE  \E x \in T : \A y \in T : x <= y
<1>1. IsWellFoundedOn(LessNat, Nat)
  BY NatLessThanWellFounded DEF OpToRel, LessNat
<1>2. \E x \in T : \A y \in T : ~(<<y, x>> \in LessNat)
  BY <1>1, WFMin
<1>3. PICK x \in T : \A y \in T : ~(<<y, x>> \in LessNat)
  BY <1>2
<1>4. \A y \in T : x <= y
  <2> TAKE y \in T
  <2>1. x \in Nat /\ y \in Nat /\ <<y, x>> \notin LessNat
    BY <1>3
  <2>2. <<y, x>> \in Nat \X Nat /\ <<y, x>>[1] = y /\ <<y, x>>[2] = x
    BY <2>1
  <2>3. ~(y < x)
    BY <2>1, <2>2, Zenon DEF LessNat
  <2> QED
    BY <2>1, <2>3
<1> QED
  BY <1>4

LEMMA Induction ==
  ASSUME NEW S, 0 \in S, \A n \in Nat : n \in S => n + 1 \in S
  PROVE  \A n \in Nat : n \in S
<1>. DEFINE T == {n \in Nat : n \notin S}
<1>1. ASSUME T # {} PROVE FALSE
  <2>1. T \subseteq Nat
    OBVIOUS
  <2>. HIDE DEF T
  <2>2. PICK x \in T : \A y \in T : x <= y
    BY <1>1, <2>1, LeastNat
  <2>3. x \in Nat /\ x \notin S /\ x # 0
    BY <2>2 DEF T
  <2>4. x - 1 \in Nat /\ (x - 1) + 1 = x /\ ~(x <= x - 1)
    BY <2>3
  <2>5. x - 1 \in T
    BY <2>3, <2>4 DEF T
  <2>. QED BY <2>2, <2>4, <2>5
<1>. QED BY <1>1 DEF T

\* What was made of s, event by event.
Follows(f, rows, s, k, m) ==
  f = [n \in k .. m |-> IF n = k THEN rows ELSE Projected(f[n - 1], s[n])]

LEMMA FollowsExists ==
  ASSUME NEW rows, NEW s, NEW k \in Nat
  PROVE  \A d \in Nat : \E f : Follows(f, rows, s, k, k + d)
<1>. DEFINE S == {d \in Nat : \E f : Follows(f, rows, s, k, k + d)}
<1>1. 0 \in S
  <2>1. \A n \in k .. k + 0 : n = k
    OBVIOUS
  <2>2. PICK f : f = [n \in k .. k + 0 |-> rows]
    OBVIOUS
  <2>3. f = [n \in k .. k + 0 |-> IF n = k THEN rows ELSE Projected(f[n - 1], s[n])]
    BY <2>1, <2>2, Zenon
  <2>. QED BY <2>3 DEF Follows
<1>2. ASSUME NEW d \in Nat, d \in S PROVE d + 1 \in S
  <2>1. PICK f : Follows(f, rows, s, k, k + d)
    BY <1>2
  <2>2. PICK g : g = [n \in k .. k + (d + 1) |->
                        IF n = k + (d + 1) THEN Projected(f[k + d], s[k + (d + 1)]) ELSE f[n]]
    OBVIOUS
  <2>3. ASSUME NEW n \in k .. k + (d + 1)
        PROVE  g[n] = IF n = k THEN rows ELSE Projected(g[n - 1], s[n])
    <3>1. CASE n = k + (d + 1)
      <4>1. n - 1 = k + d /\ n - 1 \in k .. k + (d + 1) /\ n - 1 # k + (d + 1) /\ n # k
        BY <3>1
      <4>2. g[n - 1] = f[k + d] /\ g[n] = Projected(f[k + d], s[n])
        BY <2>2, <3>1, <4>1
      <4>. QED BY <4>1, <4>2, Zenon
    <3>2. CASE n # k + (d + 1)
      <4>1. n \in k .. k + d /\ g[n] = f[n]
        BY <2>2, <3>2
      <4>2. f[n] = IF n = k THEN rows ELSE Projected(f[n - 1], s[n])
        BY <2>1, <4>1, Zenon DEF Follows
      <4>3. n # k => n - 1 \in k .. k + (d + 1) /\ n - 1 # k + (d + 1)
        BY <4>1
      <4>4. n # k => g[n - 1] = f[n - 1]
        BY <2>2, <4>3
      <4>. QED BY <4>1, <4>2, <4>4, Zenon
    <3>. QED BY <3>1, <3>2
  <2>4. g = [n \in k .. k + (d + 1) |-> g[n]]
    BY <2>2
  <2>5. Follows(g, rows, s, k, k + (d + 1))
    BY <2>3, <2>4, Zenon DEF Follows
  <2>. QED BY <2>5
<1>. HIDE DEF S
<1>3. \A d \in Nat : d \in S
  BY <1>1, <1>2, Induction
<1>. QED BY <1>3 DEF S

LEMMA ReplayedIs ==
  ASSUME NEW rows, NEW s, Len(s) \in Nat, NEW k \in 0 .. Len(s)
  PROVE  \E f : Follows(f, rows, s, k, Len(s)) /\ Replayed(rows, s, k) = f[Len(s)]
<1>1. k \in Nat /\ Len(s) - k \in Nat /\ k + (Len(s) - k) = Len(s)
  OBVIOUS
<1>2. \E f : Follows(f, rows, s, k, Len(s))
  BY <1>1, FollowsExists
<1>3. PICK f : f = CHOOSE g : g = [n \in k .. Len(s) |-> IF n = k THEN rows ELSE Projected(g[n - 1], s[n])]
  OBVIOUS
<1>4. Follows(f, rows, s, k, Len(s))
  BY <1>2, <1>3, Zenon DEF Follows
<1>5. Replayed(rows, s, k) = f[Len(s)]
  BY <1>3, Zenon DEF Replayed
<1>. QED BY <1>4, <1>5

\* What follows of t after s is what follows of both.
LEMMA ReplayedOn ==
  ASSUME NEW S, NEW s \in Seq(S), NEW t \in Seq(S), NEW k \in 0 .. Len(s), NEW rows
  PROVE  Replayed(rows, s \o t, k) = Replayed(Replayed(rows, s, k), t, 0)
<1>1. /\ s \o t \in Seq(S) /\ Len(s \o t) = Len(s) + Len(t) /\ Len(s) \in Nat /\ Len(t) \in Nat
      /\ \A i \in 1 .. Len(s) + Len(t) : (s \o t)[i] = IF i <= Len(s) THEN s[i] ELSE t[i - Len(s)]
  BY ConcatProperties, LenProperties
<1>2. PICK u : u = s \o t
  OBVIOUS
<1>3. PICK p : p = Replayed(rows, s, k)
  OBVIOUS
<1>4. PICK f : Follows(f, rows, s, k, Len(s)) /\ p = f[Len(s)]
  BY <1>1, <1>3, ReplayedIs
<1>5. Len(u) \in Nat /\ k \in 0 .. Len(u) /\ 0 \in 0 .. Len(t)
  BY <1>1, <1>2
<1>6. PICK g : Follows(g, p, t, 0, Len(t)) /\ Replayed(p, t, 0) = g[Len(t)]
  BY <1>1, <1>5, ReplayedIs
<1>7. PICK h : Follows(h, rows, u, k, Len(u)) /\ Replayed(rows, u, k) = h[Len(u)]
  BY <1>5, ReplayedIs
<1>8. \A n \in k .. Len(s) : f[n] = IF n = k THEN rows ELSE Projected(f[n - 1], s[n])
  BY <1>4, Zenon DEF Follows
<1>9. \A n \in 0 .. Len(t) : g[n] = IF n = 0 THEN p ELSE Projected(g[n - 1], t[n])
  BY <1>6, Zenon DEF Follows
<1>10. \A n \in k .. Len(u) : h[n] = IF n = k THEN rows ELSE Projected(h[n - 1], u[n])
  BY <1>7, Zenon DEF Follows
<1>11. \A n \in k .. Len(s) : h[n] = f[n]
  <2>. DEFINE A == {d \in Nat : k + d <= Len(s) => h[k + d] = f[k + d]}
  <2>1. 0 \in A
    <3>1. k + 0 = k /\ k \in k .. Len(s) /\ k \in k .. Len(u)
      BY <1>1, <1>2
    <3>2. f[k] = rows /\ h[k] = rows
      BY <1>8, <1>10, <3>1, Zenon
    <3>. QED BY <3>1, <3>2
  <2>2. ASSUME NEW d \in Nat, d \in A PROVE d + 1 \in A
    <3>1. ASSUME k + (d + 1) <= Len(s) PROVE h[k + (d + 1)] = f[k + (d + 1)]
      <4>1. PICK n : n = k + (d + 1)
        OBVIOUS
      <4>2. n \in k .. Len(s) /\ n \in k .. Len(u) /\ n # k /\ n - 1 = k + d /\ k + d <= Len(s)
        BY <1>1, <1>2, <3>1, <4>1
      <4>3. u[n] = s[n]
        BY <1>1, <1>2, <4>2
      <4>4. h[n - 1] = f[n - 1]
        BY <2>2, <4>2
      <4>5. f[n] = Projected(f[n - 1], s[n]) /\ h[n] = Projected(h[n - 1], u[n])
        BY <1>8, <1>10, <4>2, Zenon
      <4>. QED BY <4>1, <4>3, <4>4, <4>5, Zenon
    <3>. QED BY <3>1
  <2>. HIDE DEF A
  <2>3. \A d \in Nat : d \in A
    BY <2>1, <2>2, Induction
  <2>4. ASSUME NEW n \in k .. Len(s) PROVE h[n] = f[n]
    <3>1. n - k \in Nat /\ k + (n - k) = n /\ n <= Len(s)
      BY <1>1
    <3>2. n - k \in A
      BY <2>3, <3>1
    <3>. QED BY <3>1, <3>2 DEF A
  <2>. QED BY <2>4
<1>12. \A n \in 0 .. Len(t) : h[Len(s) + n] = g[n]
  <2>. DEFINE A == {d \in Nat : d <= Len(t) => h[Len(s) + d] = g[d]}
  <2>1. 0 \in A
    <3>1. Len(s) \in k .. Len(s) /\ Len(s) + 0 = Len(s) /\ 0 \in 0 .. Len(t)
      BY <1>1
    <3>2. g[0] = p /\ h[Len(s)] = f[Len(s)]
      BY <1>9, <1>11, <3>1, Zenon
    <3>. QED BY <1>4, <3>1, <3>2
  <2>2. ASSUME NEW d \in Nat, d \in A PROVE d + 1 \in A
    <3>1. ASSUME d + 1 <= Len(t) PROVE h[Len(s) + (d + 1)] = g[d + 1]
      <4>1. PICK n : n = Len(s) + (d + 1)
        OBVIOUS
      <4>2. n \in k .. Len(u) /\ n # k /\ n - 1 = Len(s) + d /\ d + 1 \in 0 .. Len(t) /\ d + 1 # 0
            /\ (d + 1) - 1 = d /\ d <= Len(t)
        BY <1>1, <1>2, <3>1, <4>1
      <4>3. u[n] = t[d + 1]
        <5>1. n \in 1 .. Len(s) + Len(t) /\ ~(n <= Len(s)) /\ n - Len(s) = d + 1
          BY <1>1, <3>1, <4>1
        <5>. QED BY <1>1, <1>2, <5>1
      <4>4. h[n - 1] = g[d]
        BY <2>2, <4>2
      <4>5. h[n] = Projected(h[n - 1], u[n])
        BY <1>10, <4>2, Zenon
      <4>6. g[d + 1] = Projected(g[d], t[d + 1])
        BY <1>9, <4>2, Zenon
      <4>. QED BY <4>1, <4>3, <4>4, <4>5, <4>6, Zenon
    <3>. QED BY <3>1
  <2>. HIDE DEF A
  <2>3. \A d \in Nat : d \in A
    BY <2>1, <2>2, Induction
  <2>. QED BY <2>3 DEF A
<1>13. Len(t) \in 0 .. Len(t) /\ Len(u) = Len(s) + Len(t)
  BY <1>1, <1>2
<1>14. h[Len(u)] = g[Len(t)]
  BY <1>12, <1>13
<1>. QED BY <1>2, <1>3, <1>6, <1>7, <1>14

\* When a visit was closed is written by the event that says so, and kept.
Dated(rows) == \A v \in DOMAIN rows : rows[v].closed_at \in Nat \cup {None}
Dates(rows, e) ==
  e.src = "browser" /\ e.kind = "closed" => e.visit \in DOMAIN rows /\ rows[e.visit].closed_at # None

LEMMA ProjectedKeeps ==
  ASSUME None \notin Nat, NEW rows, Dated(rows), NEW e, e.ts \in Nat
  PROVE  /\ Dated(Projected(rows, e)) /\ Dates(Projected(rows, e), e)
         /\ \A d : Dates(rows, d) => Dates(Projected(rows, e), d)
<1>1. PICK r : r = Projected(rows, e)
  OBVIOUS
<1>2. CASE e.src # "browser" \/ e.kind = "health"
  <2>1. r = rows
    BY <1>1, <1>2 DEF Projected
  <2>. QED BY <1>1, <1>2, <2>1 DEF Dates
<1>3. CASE ~(e.src # "browser" \/ e.kind = "health")
  <2>1. PICK new : new = Facts(rows, e)
    OBVIOUS
  <2>2. /\ "closed_at" \in DOMAIN new
        /\ new.closed_at = IF e.kind = "closed" THEN e.ts ELSE None
    BY <2>1 DEF Facts
  <2>3. \A old : Merged(old, new).closed_at = Coalesce(new.closed_at, old.closed_at)
    <3>1. ASSUME NEW old PROVE Merged(old, new).closed_at = Coalesce(new.closed_at, old.closed_at)
      <4>1. PICK f : f = "closed_at"
        OBVIOUS
      <4>2. Merged(old, new)[f] = CASE f \in NewWins -> Coalesce(new[f], old[f])
                                    [] f \in OldWins -> Coalesce(old[f], new[f])
                                    [] f = "scroll"  -> Highest(old[f], new[f])
                                    [] f = "hashes"  -> Listed(old[f], new[f])
        BY <2>2, <4>1, Zenon DEF Merged
      <4>3. f \in NewWins /\ f \notin OldWins /\ f # "scroll" /\ f # "hashes"
        BY <4>1 DEF NewWins, OldWins
      <4>4. Merged(old, new)[f] = Coalesce(new[f], old[f])
        BY <4>2, <4>3
      <4>. QED BY <4>1, <4>4
    <3>. QED BY <3>1
  <2>4. r = [v \in DOMAIN rows \cup {e.visit} |->
               IF v # e.visit THEN rows[v]
               ELSE IF v \in DOMAIN rows THEN Merged(rows[v], new) ELSE new]
    BY <1>1, <1>3, <2>1, Zenon DEF Projected
  <2>5. DOMAIN r = DOMAIN rows \cup {e.visit}
    BY <2>4, Zenon
  <2>6. \A v \in DOMAIN rows : v # e.visit => r[v] = rows[v]
    BY <2>4, Zenon
  <2>7. /\ e.visit \in DOMAIN rows => r[e.visit] = Merged(rows[e.visit], new)
        /\ e.visit \notin DOMAIN rows => r[e.visit] = new
    BY <2>4, Zenon
  <2>8. /\ e.visit \in DOMAIN rows =>
             r[e.visit].closed_at = Coalesce(new.closed_at, rows[e.visit].closed_at)
        /\ e.visit \notin DOMAIN rows => r[e.visit].closed_at = new.closed_at
    BY <2>3, <2>7, Zenon
  <2>9. Dated(r)
    BY <2>2, <2>5, <2>6, <2>8 DEF Dated, Coalesce
  <2>10. Dates(r, e)
    BY <2>2, <2>5, <2>8 DEF Dates, Coalesce
  <2>11. ASSUME NEW d, Dates(rows, d) PROVE Dates(r, d)
    BY <2>2, <2>5, <2>6, <2>8, <2>11 DEF Dates, Coalesce
  <2>. QED BY <1>1, <2>9, <2>10, <2>11
<1>. QED BY <1>2, <1>3

LEMMA ClosesAll ==
  ASSUME None \notin Nat, NEW s, Len(s) \in Nat, NEW k \in 0 .. Len(s),
         \A i \in 1 .. Len(s) : s[i].ts \in Nat
  PROVE  /\ Dated(Replayed(<<>>, s, k))
         /\ \A i \in k + 1 .. Len(s) : Dates(Replayed(<<>>, s, k), s[i])
<1>1. PICK f : Follows(f, <<>>, s, k, Len(s)) /\ Replayed(<<>>, s, k) = f[Len(s)]
  BY ReplayedIs
<1>2. \A n \in k .. Len(s) : f[n] = IF n = k THEN <<>> ELSE Projected(f[n - 1], s[n])
  BY <1>1, Zenon DEF Follows
<1>. DEFINE A == {d \in Nat : k + d <= Len(s) =>
                    Dated(f[k + d]) /\ \A i \in k + 1 .. k + d : Dates(f[k + d], s[i])}
<1>3. 0 \in A
  <2>1. k + 0 = k /\ k \in k .. Len(s) /\ \A i \in k + 1 .. k + 0 : FALSE
    OBVIOUS
  <2>2. f[k] = <<>>
    BY <1>2, <2>1
  <2>3. Dated(<<>>)
    BY DEF Dated
  <2>. QED BY <2>1, <2>2, <2>3
<1>4. ASSUME NEW d \in Nat, d \in A PROVE d + 1 \in A
  <2>1. ASSUME k + (d + 1) <= Len(s)
        PROVE  Dated(f[k + (d + 1)]) /\ \A i \in k + 1 .. k + (d + 1) : Dates(f[k + (d + 1)], s[i])
    <3>1. PICK n : n = k + (d + 1)
      OBVIOUS
    <3>2. n \in k .. Len(s) /\ n # k /\ n - 1 = k + d /\ n \in 1 .. Len(s) /\ k + d <= Len(s)
      BY <2>1, <3>1
    <3>3. f[n] = Projected(f[k + d], s[n])
      BY <1>2, <3>2
    <3>4. Dated(f[k + d]) /\ \A i \in k + 1 .. k + d : Dates(f[k + d], s[i])
      BY <1>4, <3>2
    <3>5. /\ Dated(f[n]) /\ Dates(f[n], s[n])
          /\ \A e : Dates(f[k + d], e) => Dates(f[n], e)
      BY <3>2, <3>3, <3>4, ProjectedKeeps
    <3>6. \A i \in k + 1 .. n : i = n \/ i \in k + 1 .. k + d
      BY <3>1
    <3>. QED BY <3>1, <3>4, <3>5, <3>6
  <2>. QED BY <2>1
<1>. HIDE DEF A
<1>5. \A d \in Nat : d \in A
  BY <1>3, <1>4, Induction
<1>6. Len(s) - k \in A /\ k + (Len(s) - k) = Len(s)
  BY <1>5
<1>. QED BY <1>1, <1>6 DEF A

-----------------------------------------------------------------------------

\* What is inserted: an observation, or one without its snapshot.
Insertable == Observations \cup {[e EXCEPT !.hash = None] : e \in Observations}

TableRows == [rowid : Nat, event : Insertable, nth : Nat, fresh : BOOLEAN]
Lines     == [rowid : Nat, nth : Nat, closed : Nat \cup {None}]

VisitsType ==
  /\ events \subseteq TableRows /\ inserted \in Seq(Insertable) /\ wiped \in 0 .. Len(inserted)
  /\ importer \in [cursor : Nat, page : SUBSET TableRows, answer : Seq(Lines), got : Seq(Lines)]
  /\ high \in Nat /\ importer.cursor <= high

\* What the importer has asked for, looked at or not.
Mark(row) == [rowid |-> row.rowid, nth |-> row.nth]
Asked == {Mark(row) : row \in importer.page} \cup {Mark(line) : line \in Elements(importer.answer)}

\* The rowids are in the order of the insertions.
InStep(rows) ==
  \A r, t \in rows : (r.rowid = t.rowid => r = t) /\ (r.rowid < t.rowid => r.nth < t.nth)

RowTrue(row) ==
  row.rowid \in 1 .. high /\ row.nth \in 1 .. Len(inserted) /\ row.event = inserted[row.nth]

TableTrue == InStep(events) /\ \A row \in events : RowTrue(row)

PageTrue ==
  InStep(importer.page) /\ \A row \in importer.page : RowTrue(row) /\ row.event.src = "browser"

\* What was made of a row that closes a visit.
LineTrue(line) ==
  /\ line.nth \in 1 .. Len(inserted)
  /\ IF inserted[line.nth].kind = "closed"
     THEN line.closed = None => line.nth <= wiped
     ELSE line.closed = None

AnswerTrue ==
  /\ InStep(Asked) /\ \A a \in Asked : a.rowid \in importer.cursor + 1 .. high
  /\ \A i \in DOMAIN importer.answer :
       /\ LineTrue(importer.answer[i])
       /\ \A row \in importer.page : importer.answer[i].rowid < row.rowid
  /\ \A i, j \in DOMAIN importer.answer : i < j => importer.answer[i].rowid < importer.answer[j].rowid

GotTrue ==
  /\ \A k \in DOMAIN importer.got :
       LineTrue(importer.got[k]) /\ \A a \in Asked : importer.got[k].nth < a.nth
  /\ \A j, k \in DOMAIN importer.got : j < k => importer.got[j].nth < importer.got[k].nth

\* A row above what was asked for was inserted after it.
LaterIsLater ==
  \A row \in events :
    /\ row.rowid > importer.cursor => \A k \in DOMAIN importer.got : importer.got[k].nth < row.nth
    /\ \A a \in Asked : row.rowid > a.rowid => a.nth < row.nth

\* A row whose rowid is its own is not passed over.
NothingSkipped ==
  \A row \in events : row.fresh /\ row.event.src = "browser" =>
    /\ row.rowid <= importer.cursor =>
         \E k \in DOMAIN importer.got : importer.got[k].nth = row.nth
    /\ \A a \in Asked : row.rowid > importer.cursor /\ row.rowid <= a.rowid =>
         \E b \in Asked : b.nth = row.nth

ReaderInv == PageTrue /\ AnswerTrue /\ GotTrue /\ LaterIsLater /\ NothingSkipped

VisitsInv == VisitsType /\ TableTrue /\ ReaderInv /\ VisitsFollow

LEMMA AskedType ==
  ASSUME VisitsType
  PROVE  \A a \in Asked : a.rowid \in Nat /\ a.nth \in Nat /\ a = Mark(a)
<1>1. \A row \in importer.page : row.rowid \in Nat /\ row.nth \in Nat
  BY DEF VisitsType, TableRows
<1>2. \A line \in Elements(importer.answer) : line.rowid \in Nat /\ line.nth \in Nat
  <2>1. importer.answer \in Seq(Lines)
    BY DEF VisitsType
  <2>2. \A i \in DOMAIN importer.answer : importer.answer[i] \in Lines
    BY <2>1, ElementOfSeq, LenProperties
  <2>. QED BY <2>2 DEF Elements, Lines
<1>3. ASSUME NEW a \in Asked PROVE a.rowid \in Nat /\ a.nth \in Nat /\ a = Mark(a)
  <2>1. PICK x \in importer.page \cup Elements(importer.answer) : a = Mark(x)
    BY DEF Asked
  <2>2. x.rowid \in Nat /\ x.nth \in Nat
    BY <1>1, <1>2
  <2>3. a.rowid = x.rowid /\ a.nth = x.nth
    BY <2>1 DEF Mark
  <2>. QED BY <2>1, <2>2, <2>3 DEF Mark
<1>. QED BY <1>3

LEMMA InsertableTimed == ASSUME VisitsAssumption PROVE \A e \in Insertable : e.ts \in Nat
<1>1. \A e \in Observations : "ts" \in DOMAIN e /\ e.ts \in Nat
  BY DEF VisitsAssumption
<1>2. \A e \in Observations : [e EXCEPT !.hash = None].ts = e.ts
  BY <1>1
<1>. QED BY <1>1, <1>2 DEF Insertable

LEMMA VisitsStart == ASSUME VisitsInit, VisitsAssumption PROVE VisitsInv
<1>1. /\ events = {} /\ inserted = <<>> /\ wiped = 0 /\ visits = <<>> /\ high = 0
      /\ importer = [cursor |-> 0, page |-> {}, answer |-> <<>>, got |-> <<>>]
  BY DEF VisitsInit
<1>2. /\ <<>> \in Seq(Insertable) /\ <<>> \in Seq(Lines) /\ Len(<<>>) = 0 /\ DOMAIN <<>> = {}
  BY EmptySeq
<1>3. VisitsType /\ TableTrue
  BY <1>1, <1>2 DEF VisitsType, TableTrue, InStep
<1>4. Asked = {}
  BY <1>1, <1>2 DEF Asked, Elements
<1>5. ReaderInv
  BY <1>1, <1>2, <1>4
     DEF ReaderInv, PageTrue, InStep, AnswerTrue, GotTrue, LaterIsLater, NothingSkipped
<1>6. Replayed(<<>>, <<>>, 0) = <<>>
  <2>1. Len(<<>>) \in Nat /\ 0 \in 0 .. Len(<<>>)
    BY <1>2
  <2>2. PICK f : Follows(f, <<>>, <<>>, 0, Len(<<>>)) /\ Replayed(<<>>, <<>>, 0) = f[Len(<<>>)]
    BY <2>1, ReplayedIs
  <2>3. 0 \in 0 .. Len(<<>>)
    BY <1>2
  <2>4. f[0] = <<>>
    BY <2>2, <2>3, Zenon DEF Follows
  <2>. QED BY <1>2, <2>2, <2>4, Zenon
<1>7. VisitsFollow
  BY <1>1, <1>6 DEF VisitsFollow
<1>. QED BY <1>3, <1>5, <1>7 DEF VisitsInv

\* The rowid a new row is given is above every row's, but not above every one given.
LEMMA RowidFits ==
  ASSUME VisitsType, TableTrue
  PROVE  NextRowid \in 1 .. high + 1 /\ \A row \in events : row.rowid < NextRowid
<1>. DEFINE Above == {n \in 1 .. high + 1 : \A row \in events : row.rowid < n}
            IsNext(n) == /\ \A row \in events : row.rowid < n
                         /\ n = 1 \/ \E row \in events : row.rowid = n - 1
<1>1. high \in Nat /\ \A row \in events : row.rowid \in 1 .. high
  BY DEF VisitsType, TableTrue, RowTrue
<1>2. Above \subseteq Nat /\ high + 1 \in Above
  BY <1>1
<1>3. PICK x \in Above : \A y \in Above : x <= y
  <2>. HIDE DEF Above
  <2>1. Above # {}
    BY <1>2
  <2>. QED BY <1>2, <2>1, LeastNat
<1>4. x \in 1 .. high + 1 /\ \A row \in events : row.rowid < x
  BY <1>3
<1>5. x = 1 \/ \E row \in events : row.rowid = x - 1
  <2>. SUFFICES ASSUME x # 1, \A row \in events : row.rowid # x - 1 PROVE FALSE
    OBVIOUS
  <2>1. x - 1 \in 1 .. high + 1 /\ ~(x <= x - 1)
    BY <1>1, <1>4
  <2>2. \A row \in events : row.rowid < x - 1
    BY <1>1, <1>4
  <2>3. x - 1 \in Above
    BY <2>1, <2>2
  <2>. QED BY <1>3, <2>1, <2>3
<1>6. IsNext(x)
  BY <1>4, <1>5
<1>7. NextRowid = CHOOSE n \in 1 .. high + 1 : IsNext(n)
  BY DEF NextRowid
<1>. HIDE DEF IsNext
<1>8. IsNext(NextRowid) /\ NextRowid \in 1 .. high + 1
  BY <1>4, <1>6, <1>7
<1>. QED BY <1>8 DEF IsNext

LEMMA InsertionKept ==
  ASSUME VisitsAssumption, VisitsInv, NEW order \in Seq(Insertable), Len(order) > 0, Inserted(order),
         UNCHANGED <<wiped, importer>>
  PROVE  VisitsInv'
<1>. DEFINE new(i) == [rowid |-> NextRowid + i - 1, event |-> order[i], nth |-> Len(inserted) + i,
                       fresh |-> NextRowid + i - 1 > high]
<1>1. VisitsType /\ TableTrue /\ VisitsFollow /\ PageTrue /\ AnswerTrue /\ GotTrue
      /\ LaterIsLater /\ NothingSkipped
  BY DEF VisitsInv, ReaderInv
<1>2. PICK next \in 1 .. high + 1 : next = NextRowid /\ \A row \in events : row.rowid < next
  BY <1>1, RowidFits
<1>3. /\ Len(order) \in Nat /\ DOMAIN order = 1 .. Len(order) /\ \A i \in 1 .. Len(order) : order[i] \in Insertable
      /\ Len(inserted) \in Nat /\ inserted \o order \in Seq(Insertable)
      /\ Len(inserted \o order) = Len(inserted) + Len(order)
      /\ \A i \in 1 .. Len(inserted) : (inserted \o order)[i] = inserted[i]
      /\ \A i \in 1 .. Len(order) : (inserted \o order)[Len(inserted) + i] = order[i]
  <2>1. inserted \in Seq(Insertable)
    BY <1>1 DEF VisitsType
  <2>2. Len(order) \in Nat /\ Len(inserted) \in Nat
    BY <2>1, LenProperties
  <2>. QED BY <2>1, <2>2, LenProperties, ElementOfSeq, ConcatProperties
<1>4. PICK last : last = Len(order) /\ last \in Nat /\ last >= 1 /\ DOMAIN order = 1 .. last
  <2>1. PICK m : m = Len(order)
    OBVIOUS
  <2>2. m \in Nat /\ m > 0 /\ DOMAIN order = 1 .. m
    BY <1>3, <2>1
  <2>3. m >= 1
    BY <2>2
  <2>. QED BY <2>1, <2>2, <2>3, Zenon
<1>5. PICK count \in Nat : count = Len(inserted)
  BY <1>3
<1>6. /\ inserted' = inserted \o order /\ importer' = importer /\ wiped' = wiped
      /\ events' = events \cup {new(i) : i \in 1 .. last}
      /\ high' = IF next + last - 1 > high THEN next + last - 1 ELSE high
      /\ visits' = Replayed(visits, order, 0)
  BY <1>2, <1>4 DEF Inserted
<1>7. high \in Nat /\ high' \in Nat /\ high <= high' /\ next + last - 1 <= high'
  <2>1. high \in Nat
    BY <1>1 DEF VisitsType
  <2>2. next \in Nat /\ next >= 1
    BY <2>1, <1>2
  <2>. QED BY <1>4, <1>6, <2>1, <2>2
<1>8. /\ Len(inserted') = count + last /\ inserted' \in Seq(Insertable)
      /\ \A i \in 1 .. count : inserted'[i] = inserted[i]
      /\ \A i \in 1 .. last : inserted'[count + i] = order[i]
  BY <1>3, <1>4, <1>5, <1>6
<1>9. \A i \in 1 .. last : /\ new(i).rowid = next + i - 1 /\ new(i).nth = count + i
                           /\ new(i).event = order[i] /\ new(i).fresh = (next + i - 1 > high)
                           /\ new(i) \in TableRows
  BY <1>2, <1>3, <1>4, <1>5 DEF TableRows
<1>. HIDE DEF new
<1>10. \A row \in events : row \in TableRows /\ RowTrue(row) /\ row.nth \in 1 .. count /\ row.rowid \in 1 .. high
  BY <1>1, <1>5 DEF VisitsType, TableTrue, RowTrue
<1>11. VisitsType'
  <2>1. wiped \in 0 .. count + last
    BY <1>1, <1>4, <1>5 DEF VisitsType
  <2>2. events' \subseteq TableRows
    BY <1>6, <1>9, <1>10
  <2>3. importer.cursor \in Nat /\ importer.cursor <= high
    BY <1>1 DEF VisitsType
  <2>. QED BY <1>1, <1>6, <1>7, <1>8, <2>1, <2>2, <2>3 DEF VisitsType
<1>12. ASSUME NEW row, RowTrue(row) PROVE RowTrue(row)'
  <2>1. row.rowid \in 1 .. high /\ row.nth \in 1 .. count /\ row.event = inserted[row.nth]
    BY <1>5, <1>12 DEF RowTrue
  <2>2. row.rowid \in 1 .. high' /\ row.nth \in 1 .. count + last
    <3>1. \A n \in 1 .. high : n \in 1 .. high'
      BY <1>7
    <3>2. \A n \in 1 .. count : n \in 1 .. count + last
      BY <1>4, <1>5
    <3>. QED BY <2>1, <3>1, <3>2, Zenon
  <2>3. row.event = inserted'[row.nth]
    BY <1>8, <2>1
  <2>. QED BY <1>8, <2>2, <2>3 DEF RowTrue
<1>13. TableTrue'
  <2>1. \A row \in events' : RowTrue(row)'
    <3>1. ASSUME NEW row, NEW i \in 1 .. last, row = new(i) PROVE RowTrue(row)'
      <4>1. next + i - 1 \in 1 .. high' /\ count + i \in 1 .. count + last
        BY <1>2, <1>4, <1>5, <1>7
      <4>2. row.rowid = next + i - 1 /\ row.nth = count + i /\ row.event = inserted'[count + i]
        BY <1>8, <1>9, <3>1
      <4>. QED BY <1>8, <4>1, <4>2 DEF RowTrue
    <3>. QED BY <1>6, <1>10, <1>12, <3>1
  <2>2. ASSUME NEW r \in events', NEW t \in events'
        PROVE  (r.rowid = t.rowid => r = t) /\ (r.rowid < t.rowid => r.nth < t.nth)
    <3>1. CASE r \in events /\ t \in events
      BY <1>1, <3>1 DEF TableTrue, InStep
    <3>2. CASE r \in events /\ t \notin events
      <4>1. PICK i \in 1 .. last : t = new(i)
        BY <1>6, <3>2
      <4>2. r.rowid < next /\ r.rowid \in Nat /\ r.nth \in 1 .. count
        BY <1>2, <1>10, <3>2
      <4>3. t.rowid = next + i - 1 /\ t.nth = count + i
        BY <1>9, <4>1
      <4>. QED BY <1>2, <1>5, <4>2, <4>3
    <3>3. CASE r \notin events /\ t \in events
      <4>1. PICK i \in 1 .. last : r = new(i)
        BY <1>6, <3>3
      <4>2. t.rowid < next /\ t.rowid \in Nat
        BY <1>2, <1>10, <3>3
      <4>3. r.rowid = next + i - 1
        BY <1>9, <4>1
      <4>. QED BY <1>2, <4>2, <4>3
    <3>4. CASE r \notin events /\ t \notin events
      <4>1. PICK i \in 1 .. last, j \in 1 .. last : r = new(i) /\ t = new(j)
        BY <1>6, <3>4
      <4>2. /\ r.rowid = next + i - 1 /\ r.nth = count + i
            /\ t.rowid = next + j - 1 /\ t.nth = count + j
        BY <1>9, <4>1
      <4>3. r.rowid = t.rowid => i = j
        BY <1>2, <4>2
      <4>. QED BY <1>2, <1>5, <4>1, <4>2, <4>3
    <3>. QED BY <3>1, <3>2, <3>3, <3>4
  <2>. QED BY <2>1, <2>2 DEF TableTrue, InStep
<1>14. Asked' = Asked
  BY <1>6 DEF Asked
<1>15. PageTrue'
  BY <1>1, <1>6, <1>12 DEF PageTrue
<1>16. \A line : LineTrue(line) => LineTrue(line)'
  BY <1>5, <1>6, <1>8 DEF LineTrue
<1>17. AnswerTrue' /\ GotTrue'
  <2>1. \A a \in Asked : a.rowid \in importer.cursor + 1 .. high'
    BY <1>1, <1>7 DEF AnswerTrue, VisitsType
  <2>. QED BY <1>1, <1>6, <1>14, <1>16, <2>1 DEF AnswerTrue, GotTrue
<1>18. \A a \in Asked : a.rowid \in Nat /\ a.rowid <= high /\ a.nth \in 1 .. count
  <2>1. \A i \in DOMAIN importer.answer : importer.answer[i].nth \in 1 .. count
    BY <1>1, <1>5 DEF AnswerTrue, LineTrue
  <2>2. \A row \in importer.page : row.nth \in 1 .. count
    BY <1>1, <1>5 DEF PageTrue, RowTrue
  <2>3. \A a \in Asked : a.nth \in 1 .. count
    BY <2>1, <2>2 DEF Asked, Mark, Elements
  <2>. QED BY <1>1, <2>3 DEF AnswerTrue, VisitsType
<1>19. LaterIsLater'
  <2>1. ASSUME NEW i \in 1 .. last
        PROVE  /\ \A k \in DOMAIN importer.got : importer.got[k].nth < count + i
               /\ \A a \in Asked : a.nth < count + i
    <3>1. \A k \in DOMAIN importer.got : importer.got[k].nth \in 1 .. count
      BY <1>1, <1>5 DEF GotTrue, LineTrue
    <3>. QED BY <1>5, <1>18, <3>1
  <2>2. ASSUME NEW row \in events'
        PROVE  /\ row.rowid > importer.cursor =>
                    \A k \in DOMAIN importer.got : importer.got[k].nth < row.nth
               /\ \A a \in Asked : row.rowid > a.rowid => a.nth < row.nth
    <3>1. CASE row \in events
      BY <1>1, <3>1 DEF LaterIsLater
    <3>2. CASE row \notin events
      <4>1. PICK i \in 1 .. last : row = new(i)
        BY <1>6, <3>2
      <4>. QED BY <1>9, <2>1, <4>1
    <3>. QED BY <3>1, <3>2
  <2>. QED BY <1>6, <1>14, <2>2 DEF LaterIsLater
<1>20. NothingSkipped'
  <2>1. ASSUME NEW row \in events', row \notin events, row.fresh
        PROVE  ~(row.rowid <= importer.cursor) /\ \A a \in Asked : ~(row.rowid <= a.rowid)
    <3>1. PICK i \in 1 .. last : row = new(i)
      BY <1>6, <2>1
    <3>2. row.rowid = next + i - 1 /\ row.rowid > high
      BY <1>9, <2>1, <3>1
    <3>3. importer.cursor \in Nat /\ importer.cursor <= high
      BY <1>1 DEF VisitsType
    <3>. QED BY <1>2, <1>7, <1>18, <3>2, <3>3
  <2>. QED BY <1>1, <1>6, <1>14, <2>1 DEF NothingSkipped
<1>21. VisitsFollow'
  <2>1. visits = Replayed(<<>>, inserted, wiped)
    BY <1>1 DEF VisitsFollow
  <2>2. inserted \in Seq(Insertable) /\ wiped \in 0 .. Len(inserted)
    BY <1>1 DEF VisitsType
  <2>3. Replayed(<<>>, inserted \o order, wiped) = Replayed(Replayed(<<>>, inserted, wiped), order, 0)
    BY <2>2, ReplayedOn
  <2>. QED BY <1>6, <2>1, <2>3, Zenon DEF VisitsFollow
<1>. QED BY <1>11, <1>13, <1>15, <1>17, <1>19, <1>20, <1>21 DEF VisitsInv, ReaderInv

LEMMA AppendKept == ASSUME VisitsAssumption, VisitsInv, AppendBatch PROVE VisitsInv'
<1>1. /\ \E n \in 1 .. VisitBatch, full \in BOOLEAN :
           \E new \in [1 .. n -> Observations] : Inserted(Metadata(new, full))
      /\ UNCHANGED <<wiped, importer, wipes>>
  BY Zenon DEF AppendBatch
<1>2. PICK n \in 1 .. VisitBatch, full \in BOOLEAN :
        \E new \in [1 .. n -> Observations] : Inserted(Metadata(new, full))
  BY <1>1
<1>3. PICK new \in [1 .. n -> Observations] : Inserted(Metadata(new, full))
  BY <1>2
<1>4. PICK order : order = Metadata(new, full)
  OBVIOUS
<1>5. n \in Nat /\ n > 0
  BY DEF VisitsAssumption
<1>6. \A i \in 1 .. n : order[i] \in Insertable
  BY <1>4 DEF Insertable, Metadata
<1>7. order \in [1 .. n -> Insertable]
  BY <1>4, <1>6 DEF Metadata
<1>8. order \in Seq(Insertable) /\ Len(order) = n
  BY <1>5, <1>7, IsASeq
<1>. QED BY <1>1, <1>3, <1>4, <1>5, <1>8, InsertionKept

\* Taking rows out of the table changes nothing for the reader.
LEMMA TrimKept == ASSUME VisitsInv, TrimMetadata PROVE VisitsInv'
<1>1. /\ events' \subseteq events
      /\ UNCHANGED <<inserted, wiped, visits, high, importer, wipes>>
  BY DEF TrimMetadata
<1>2. VisitsType' /\ TableTrue'
  BY <1>1 DEF VisitsInv, VisitsType, TableTrue, InStep, RowTrue
<1>3. Asked' = Asked
  BY <1>1 DEF Asked
<1>4. PageTrue' /\ AnswerTrue' /\ GotTrue'
  BY <1>1, <1>3 DEF VisitsInv, ReaderInv, PageTrue, AnswerTrue, GotTrue, RowTrue, LineTrue
<1>5. LaterIsLater' /\ NothingSkipped'
  BY <1>1, <1>3 DEF VisitsInv, ReaderInv, LaterIsLater, NothingSkipped
<1>. QED BY <1>1, <1>2, <1>4, <1>5 DEF VisitsInv, ReaderInv, VisitsFollow

\* After a wipe every insertion so far is behind it.
LEMMA WipeKept == ASSUME VisitsInv, WipeVisits PROVE VisitsInv'
<1>1. /\ events' = {} /\ visits' = <<>> /\ wiped' = Len(inserted)
      /\ UNCHANGED <<inserted, high, importer>>
  BY DEF WipeVisits
<1>2. inserted \in Seq(Insertable) /\ Len(inserted) \in Nat
  BY LenProperties DEF VisitsInv, VisitsType
<1>3. VisitsType' /\ TableTrue'
  BY <1>1, <1>2 DEF VisitsInv, VisitsType, TableTrue, InStep
<1>4. Asked' = Asked
  BY <1>1 DEF Asked
<1>5. \A line : LineTrue(line) => LineTrue(line)'
  BY <1>1, <1>2 DEF LineTrue
<1>6. PageTrue' /\ AnswerTrue' /\ GotTrue'
  BY <1>1, <1>4, <1>5 DEF VisitsInv, ReaderInv, PageTrue, AnswerTrue, GotTrue, RowTrue
<1>7. LaterIsLater' /\ NothingSkipped'
  BY <1>1 DEF LaterIsLater, NothingSkipped
<1>8. Replayed(<<>>, inserted, Len(inserted)) = <<>>
  <2>1. Len(inserted) \in 0 .. Len(inserted) /\ Len(inserted) \in Len(inserted) .. Len(inserted)
    BY <1>2
  <2>2. PICK f : /\ Follows(f, <<>>, inserted, Len(inserted), Len(inserted))
                 /\ Replayed(<<>>, inserted, Len(inserted)) = f[Len(inserted)]
    BY <1>2, <2>1, ReplayedIs
  <2>. QED BY <2>1, <2>2, Zenon DEF Follows
<1>9. VisitsFollow'
  BY <1>1, <1>8 DEF VisitsFollow
<1>. QED BY <1>3, <1>6, <1>7, <1>9 DEF VisitsInv, ReaderInv

\* What the importer keeps or is told, the table and the visits as they are.
LEMMA TablesRest ==
  ASSUME VisitsInv, UNCHANGED <<events, inserted, wiped, visits, high>>
  PROVE  /\ TableTrue' /\ VisitsFollow'
         /\ \A row : RowTrue(row)' <=> RowTrue(row)
         /\ \A line : LineTrue(line)' <=> LineTrue(line)
BY DEF VisitsInv, TableTrue, VisitsFollow, RowTrue, LineTrue

LEMMA BeginKept == ASSUME VisitsInv, BeginExport PROVE VisitsInv'
<1>1. PICK head \in SUBSET After(importer.cursor) :
        /\ \A row \in head, later \in After(importer.cursor) \ head : row.rowid < later.rowid
        /\ importer' = [importer EXCEPT !.page = head]
        /\ importer.page = {} /\ importer.answer = <<>>
        /\ UNCHANGED <<events, inserted, wiped, visits, high, wipes>>
  BY DEF BeginExport
<1>2. VisitsType /\ TableTrue /\ GotTrue /\ LaterIsLater /\ NothingSkipped
  BY DEF VisitsInv, ReaderInv
<1>3. head \subseteq events /\ \A row \in head : row.event.src = "browser" /\ row.rowid > importer.cursor
  BY <1>1 DEF After
<1>4. /\ importer'.page = head /\ importer'.answer = <<>> /\ importer'.got = importer.got
      /\ importer'.cursor = importer.cursor
      /\ importer' \in [cursor : Nat, page : SUBSET TableRows, answer : Seq(Lines), got : Seq(Lines)]
  BY <1>1, <1>2, <1>3 DEF VisitsType
<1>5. VisitsType'
  BY <1>1, <1>2, <1>4 DEF VisitsType
<1>6. TableTrue' /\ VisitsFollow' /\ (\A row : RowTrue(row)' <=> RowTrue(row))
      /\ (\A line : LineTrue(line)' <=> LineTrue(line))
  BY <1>1, TablesRest
<1>7. DOMAIN importer'.answer = {} /\ Asked' = {Mark(row) : row \in head}
  <2>1. DOMAIN <<>> = {}
    BY EmptySeq
  <2>2. Elements(<<>>) = {}
    BY <2>1 DEF Elements
  <2>. QED BY <1>4, <2>1, <2>2 DEF Asked
<1>8. \A row \in events : RowTrue(row) /\ row.rowid \in Nat /\ row.nth \in Nat
  BY <1>2 DEF TableTrue, VisitsType, TableRows
<1>9. PageTrue'
  BY <1>2, <1>3, <1>4, <1>6, <1>8 DEF PageTrue, TableTrue, InStep
<1>10. AnswerTrue'
  <2>1. InStep({Mark(row) : row \in head})
    BY <1>2, <1>3, <1>8 DEF TableTrue, InStep, Mark
  <2>2. \A row \in head : row.rowid \in importer.cursor + 1 .. high
    BY <1>2, <1>3, <1>8 DEF RowTrue, VisitsType
  <2>3. \A a \in {Mark(row) : row \in head} : a.rowid \in importer.cursor + 1 .. high
    BY <2>2 DEF Mark
  <2>. QED BY <1>1, <1>4, <1>7, <2>1, <2>3 DEF AnswerTrue
<1>11. GotTrue'
  BY <1>2, <1>3, <1>4, <1>6, <1>7 DEF GotTrue, LaterIsLater, Mark
<1>12. LaterIsLater'
  BY <1>1, <1>2, <1>3, <1>4, <1>7, <1>8 DEF LaterIsLater, TableTrue, InStep, Mark
<1>13. NothingSkipped'
  <2>1. ASSUME NEW row \in events, row.event.src = "browser", NEW a \in Asked',
               row.rowid > importer.cursor, row.rowid <= a.rowid
        PROVE  \E b \in Asked' : b.nth = row.nth
    <3>1. PICK p \in head : a.rowid = p.rowid
      BY <1>7 DEF Mark
    <3>2. row \in After(importer.cursor)
      BY <2>1 DEF After
    <3>3. row \notin head => p.rowid < row.rowid
      BY <1>1, <3>1, <3>2
    <3>4. row.rowid \in Nat /\ p.rowid \in Nat /\ row.rowid <= p.rowid
      BY <1>3, <1>8, <2>1, <3>1
    <3>5. row \in head
      BY <3>3, <3>4
    <3>6. Mark(row) \in Asked' /\ Mark(row).nth = row.nth
      BY <1>7, <3>5 DEF Mark
    <3>. QED BY <3>6
  <2>. QED BY <1>1, <1>2, <1>4, <2>1 DEF NothingSkipped
<1>. QED BY <1>5, <1>6, <1>9, <1>10, <1>11, <1>12, <1>13 DEF VisitsInv, ReaderInv

LEMMA LookKept == ASSUME VisitsAssumption, VisitsInv, LookUpVisit PROVE VisitsInv'
<1>1. PICK row \in importer.page :
        /\ \A other \in importer.page : row.rowid <= other.rowid
        /\ importer' = [importer EXCEPT
             !.page = @ \ {row},
             !.answer = Append(@, [rowid |-> row.rowid, nth |-> row.nth,
                                   closed |-> Projection(row.event)])]
        /\ UNCHANGED <<events, inserted, wiped, visits, high, wipes>>
  BY DEF LookUpVisit
<1>2. VisitsType /\ PageTrue /\ AnswerTrue /\ GotTrue /\ LaterIsLater /\ NothingSkipped /\ VisitsFollow
  BY DEF VisitsInv, ReaderInv
<1>3. PICK line : line = [rowid |-> row.rowid, nth |-> row.nth, closed |-> Projection(row.event)]
  OBVIOUS
<1>4. RowTrue(row) /\ row \in TableRows /\ row.event.src = "browser"
  BY <1>2 DEF PageTrue, VisitsType
<1>5. inserted \in Seq(Insertable) /\ Len(inserted) \in Nat /\ wiped \in 0 .. Len(inserted)
      /\ \A i \in 1 .. Len(inserted) : inserted[i].ts \in Nat
  <2>1. inserted \in Seq(Insertable) /\ wiped \in 0 .. Len(inserted)
    BY <1>2 DEF VisitsType
  <2>. QED BY <2>1, LenProperties, ElementOfSeq, InsertableTimed
<1>6. /\ Dated(visits)
      /\ \A i \in wiped + 1 .. Len(inserted) : Dates(visits, inserted[i])
  <2>1. None \notin Nat /\ visits = Replayed(<<>>, inserted, wiped)
    BY <1>2 DEF VisitsAssumption, VisitsFollow
  <2>. QED BY <1>5, <2>1, ClosesAll
<1>7. line \in Lines /\ LineTrue(line)
  <2>1. PICK e, shut : e = row.event /\ shut = Projection(e)
    OBVIOUS
  <2>2. shut \in Nat \cup {None}
    BY <1>6, <2>1 DEF Dated, Projection
  <2>3. row.nth \in 1 .. Len(inserted) /\ e = inserted[row.nth]
    BY <1>4, <2>1 DEF RowTrue
  <2>4. e.kind # "closed" => shut = None
    BY <2>1 DEF Projection
  <2>5. e.kind = "closed" /\ shut = None => row.nth <= wiped
    <3>1. row.nth > wiped => Dates(visits, e)
      BY <1>5, <1>6, <2>3
    <3>2. e.kind = "closed" /\ Dates(visits, e) => shut # None
      BY <1>4, <2>1 DEF Dates, Projection
    <3>. QED BY <1>5, <2>3, <3>1, <3>2
  <2>6. line.rowid = row.rowid /\ line.nth = row.nth /\ line.closed = shut
    BY <1>3, <2>1
  <2>7. row.rowid \in Nat /\ row.nth \in Nat
    BY <1>4 DEF TableRows
  <2>8. line \in Lines
    BY <1>3, <2>2, <2>6, <2>7 DEF Lines
  <2>. QED BY <2>3, <2>4, <2>5, <2>6, <2>8 DEF LineTrue
<1>8. PICK old \in Seq(Lines) : old = importer.answer
  BY <1>2 DEF VisitsType
<1>9. PICK n \in Nat : n = Len(old) /\ DOMAIN old = 1 .. n
  BY LenProperties
<1>10. PICK longer : longer = Append(old, line)
  OBVIOUS
<1>11. /\ longer \in Seq(Lines) /\ DOMAIN longer = 1 .. n + 1 /\ longer[n + 1] = line
       /\ \A i \in 1 .. n : longer[i] = old[i]
  BY <1>7, <1>9, <1>10, AppendProperties
<1>12. /\ importer'.page = importer.page \ {row} /\ importer'.answer = longer
       /\ importer'.got = importer.got /\ importer'.cursor = importer.cursor
       /\ importer' \in [cursor : Nat, page : SUBSET TableRows, answer : Seq(Lines), got : Seq(Lines)]
  BY <1>1, <1>2, <1>3, <1>8, <1>10, <1>11 DEF VisitsType
<1>13. VisitsType'
  BY <1>1, <1>2, <1>12 DEF VisitsType
<1>14. TableTrue' /\ VisitsFollow' /\ (\A r : RowTrue(r)' <=> RowTrue(r))
       /\ (\A l : LineTrue(l)' <=> LineTrue(l))
  BY <1>1, TablesRest
<1>15. Asked' = Asked
  <2>1. Elements(longer) = Elements(old) \cup {line}
    <3>1. 1 .. n + 1 = 1 .. n \cup {n + 1}
      OBVIOUS
    <3>. QED BY <1>9, <1>11, <3>1 DEF Elements
  <2>2. Mark(line) = Mark(row)
    BY <1>3 DEF Mark
  <2>3. Asked = {Mark(r) : r \in importer.page} \cup {Mark(l) : l \in Elements(old)}
    BY <1>8 DEF Asked
  <2>4. Asked' = {Mark(r) : r \in importer.page \ {row}} \cup {Mark(l) : l \in Elements(longer)}
    BY <1>12 DEF Asked
  <2>. QED BY <2>1, <2>2, <2>3, <2>4
<1>16. PageTrue'
  BY <1>2, <1>12, <1>14 DEF PageTrue, InStep
<1>17. AnswerTrue'
  <2>1. InStep(Asked) /\ \A a \in Asked : a.rowid \in importer.cursor + 1 .. high
    BY <1>2 DEF AnswerTrue
  <2>2. \A r \in importer.page \ {row} : line.rowid < r.rowid
    <3>1. ASSUME NEW r \in importer.page \ {row} PROVE line.rowid < r.rowid
      <4>1. row.rowid <= r.rowid /\ row.rowid # r.rowid
        BY <1>1, <1>2 DEF PageTrue, InStep
      <4>2. row.rowid \in Nat /\ r.rowid \in Nat
        BY <1>2 DEF VisitsType, TableRows
      <4>. QED BY <1>3, <4>1, <4>2
    <3>. QED BY <3>1
  <2>3. \A i \in 1 .. n : /\ LineTrue(old[i]) /\ old[i].rowid < line.rowid
                          /\ \A r \in importer.page : old[i].rowid < r.rowid
    BY <1>2, <1>3, <1>8, <1>9 DEF AnswerTrue
  <2>4. \A i \in 1 .. n + 1 : LineTrue(longer[i]) /\ \A r \in importer.page \ {row} : longer[i].rowid < r.rowid
    <3>1. \A i \in 1 .. n + 1 : i \in 1 .. n \/ i = n + 1
      OBVIOUS
    <3>. QED BY <1>7, <1>11, <2>2, <2>3, <3>1
  <2>5. ASSUME NEW i \in 1 .. n + 1, NEW j \in 1 .. n + 1, i < j
        PROVE  longer[i].rowid < longer[j].rowid
    <3>1. i \in 1 .. n
      BY <2>5
    <3>2. CASE j = n + 1
      BY <1>11, <2>3, <3>1, <3>2
    <3>3. CASE j # n + 1
      <4>1. j \in 1 .. n
        BY <3>3
      <4>2. old[i].rowid < old[j].rowid
        BY <1>2, <1>8, <1>9, <2>5, <3>1, <4>1 DEF AnswerTrue
      <4>. QED BY <1>11, <3>1, <4>1, <4>2
    <3>. QED BY <3>2, <3>3
  <2>6. DOMAIN importer'.answer = 1 .. n + 1
    BY <1>11, <1>12
  <2>. QED BY <1>1, <1>12, <1>14, <1>15, <2>1, <2>4, <2>5, <2>6 DEF AnswerTrue
<1>18. GotTrue' /\ LaterIsLater' /\ NothingSkipped'
  BY <1>1, <1>2, <1>12, <1>14, <1>15 DEF GotTrue, LaterIsLater, NothingSkipped
<1>. QED BY <1>13, <1>14, <1>16, <1>17, <1>18 DEF VisitsInv, ReaderInv

LEMMA EndKept == ASSUME VisitsInv, EndExport PROVE VisitsInv'
<1>1. importer.page = {} /\ UNCHANGED <<events, inserted, wiped, visits, high, wipes>>
  BY DEF EndExport
<1>2. VisitsType /\ PageTrue /\ AnswerTrue /\ GotTrue /\ LaterIsLater /\ NothingSkipped
  BY DEF VisitsInv, ReaderInv
<1>3. PICK answer \in Seq(Lines), got \in Seq(Lines) : answer = importer.answer /\ got = importer.got
  BY <1>2 DEF VisitsType
<1>4. PICK m \in Nat, n \in Nat : /\ m = Len(answer) /\ n = Len(got)
                                  /\ DOMAIN answer = 1 .. m /\ DOMAIN got = 1 .. n
  BY LenProperties
<1>5. TableTrue' /\ VisitsFollow' /\ (\A r : RowTrue(r)' <=> RowTrue(r))
      /\ (\A l : LineTrue(l)' <=> LineTrue(l))
  BY <1>1, TablesRest
<1>6. DOMAIN <<>> = {} /\ <<>> \in Seq(Lines) /\ Elements(<<>>) = {}
  <2>1. DOMAIN <<>> = {} /\ <<>> \in Seq(Lines)
    BY EmptySeq
  <2>. QED BY <2>1 DEF Elements
<1>7. \A row \in events : row.rowid \in Nat /\ row.nth \in Nat
  BY <1>2 DEF VisitsType, TableRows
\* The answer is lost.
<1>8. CASE importer' = [importer EXCEPT !.answer = <<>>]
  <2>1. /\ importer'.page = {} /\ importer'.answer = <<>> /\ importer'.got = importer.got
        /\ importer'.cursor = importer.cursor
        /\ importer' \in [cursor : Nat, page : SUBSET TableRows, answer : Seq(Lines), got : Seq(Lines)]
    BY <1>1, <1>2, <1>6, <1>8 DEF VisitsType
  <2>2. VisitsType'
    BY <1>1, <1>2, <2>1 DEF VisitsType
  <2>3. Asked' = {}
    BY <1>6, <2>1 DEF Asked
  <2>4. PageTrue' /\ AnswerTrue' /\ GotTrue'
    BY <1>2, <1>5, <1>6, <2>1, <2>3 DEF PageTrue, AnswerTrue, GotTrue, InStep
  <2>5. LaterIsLater' /\ NothingSkipped'
    BY <1>1, <1>2, <2>1, <2>3 DEF LaterIsLater, NothingSkipped
  <2>. QED BY <1>5, <2>2, <2>4, <2>5 DEF VisitsInv, ReaderInv
\* The importer has it and moves its cursor on.
<1>9. CASE /\ importer.answer # <<>>
           /\ importer' = [cursor |-> importer.answer[Len(importer.answer)].rowid, page |-> {},
                           answer |-> <<>>, got |-> importer.got \o importer.answer]
  <2>1. m >= 1
    BY <1>3, <1>4, <1>9, EmptySeq
  <2>2. \A i \in 1 .. m : answer[i].rowid \in Nat /\ answer[i].nth \in Nat
    <3>1. \A i \in 1 .. m : answer[i] \in Lines
      BY <1>4, ElementOfSeq
    <3>. QED BY <3>1 DEF Lines
  <2>3. \A k \in 1 .. n : got[k].nth \in Nat
    <3>1. \A k \in 1 .. n : got[k] \in Lines
      BY <1>4, ElementOfSeq
    <3>. QED BY <3>1 DEF Lines
  <2>4. PICK cursor \in Nat : cursor = answer[m].rowid
    BY <2>1, <2>2
  <2>5. PICK all : all = got \o answer
    OBVIOUS
  <2>6. /\ all \in Seq(Lines) /\ DOMAIN all = 1 .. n + m
        /\ \A k \in 1 .. n : all[k] = got[k]
        /\ \A i \in 1 .. m : all[n + i] = answer[i]
    <3>1. all \in Seq(Lines) /\ Len(all) = n + m
      BY <1>4, <2>5, ConcatProperties
    <3>2. DOMAIN all = 1 .. n + m
      BY <3>1, LenProperties
    <3>3. \A k \in 1 .. n + m : all[k] = IF k <= n THEN got[k] ELSE answer[k - n]
      BY <1>4, <2>5, ConcatProperties
    <3>4. \A i \in 1 .. m : n + i \in 1 .. n + m /\ ~(n + i <= n) /\ (n + i) - n = i
      OBVIOUS
    <3>5. \A k \in 1 .. n : k \in 1 .. n + m /\ k <= n
      OBVIOUS
    <3>. QED BY <3>1, <3>2, <3>3, <3>4, <3>5
  <2>7. /\ importer'.page = {} /\ importer'.answer = <<>> /\ importer'.got = all
        /\ importer'.cursor = cursor
        /\ importer' \in [cursor : Nat, page : SUBSET TableRows, answer : Seq(Lines), got : Seq(Lines)]
    BY <1>3, <1>4, <1>6, <1>9, <2>4, <2>5, <2>6
  <2>8. Asked = {Mark(answer[i]) : i \in 1 .. m}
    BY <1>1, <1>3, <1>4 DEF Asked, Elements
  <2>9. \A i \in 1 .. m : /\ answer[i].rowid \in importer.cursor + 1 .. high /\ LineTrue(answer[i])
                          /\ answer[i].rowid <= cursor
    <3>1. ASSUME NEW i \in 1 .. m
          PROVE  answer[i].rowid \in importer.cursor + 1 .. high /\ LineTrue(answer[i])
      <4>1. Mark(answer[i]) \in Asked /\ Mark(answer[i]).rowid = answer[i].rowid
        BY <2>8 DEF Mark
      <4>. QED BY <1>2, <1>3, <1>4, <4>1 DEF AnswerTrue
    <3>2. \A i \in 1 .. m : i # m => answer[i].rowid < answer[m].rowid
      BY <1>2, <1>3, <1>4, <2>1 DEF AnswerTrue
    <3>. QED BY <2>2, <2>4, <3>1, <3>2
  <2>10. cursor <= high /\ importer.cursor < cursor /\ importer.cursor \in Nat
    BY <1>2, <2>1, <2>4, <2>9 DEF VisitsType
  <2>11. VisitsType'
    BY <1>1, <1>2, <2>7, <2>10 DEF VisitsType
  <2>12. Asked' = {}
    BY <1>6, <2>7 DEF Asked
  <2>13. PageTrue' /\ AnswerTrue'
    BY <1>6, <2>7, <2>12 DEF PageTrue, AnswerTrue, InStep
  <2>14. \A k \in 1 .. n + m : k \in 1 .. n \/ (k - n \in 1 .. m /\ k = n + (k - n))
    OBVIOUS
  <2>15. ASSUME NEW k \in 1 .. n, NEW i \in 1 .. m PROVE got[k].nth < answer[i].nth
    <3>1. Mark(answer[i]) \in Asked /\ Mark(answer[i]).nth = answer[i].nth
      BY <2>8 DEF Mark
    <3>2. \A a \in Asked : got[k].nth < a.nth
      BY <1>2, <1>3, <1>4 DEF GotTrue
    <3>. QED BY <3>1, <3>2
  <2>16. GotTrue'
    <3>1. \A k \in 1 .. n + m : LineTrue(all[k])
      <4>1. \A k \in 1 .. n : LineTrue(got[k])
        BY <1>2, <1>3, <1>4 DEF GotTrue
      <4>. QED BY <2>6, <2>9, <2>14, <4>1
    <3>2. ASSUME NEW j \in 1 .. n + m, NEW k \in 1 .. n + m, j < k PROVE all[j].nth < all[k].nth
      <4>1. CASE j \in 1 .. n /\ k \in 1 .. n
        <5>1. got[j].nth < got[k].nth
          BY <1>2, <1>3, <1>4, <3>2, <4>1 DEF GotTrue
        <5>. QED BY <2>6, <4>1, <5>1
      <4>2. CASE j \in 1 .. n /\ k - n \in 1 .. m
        <5>1. all[k] = answer[k - n]
          BY <2>6, <2>14, <4>2
        <5>2. all[j] = got[j] /\ got[j].nth < answer[k - n].nth
          BY <2>6, <2>15, <4>2
        <5>. QED BY <5>1, <5>2
      <4>3. CASE j - n \in 1 .. m
        <5>1. k - n \in 1 .. m /\ j - n < k - n
          BY <3>2, <4>3
        <5>2. answer[j - n].rowid < answer[k - n].rowid
          BY <1>2, <1>3, <1>4, <4>3, <5>1 DEF AnswerTrue
        <5>3. Mark(answer[j - n]) \in Asked /\ Mark(answer[k - n]) \in Asked
          BY <2>8, <4>3, <5>1
        <5>4. answer[j - n].nth < answer[k - n].nth
          BY <1>2, <5>2, <5>3 DEF AnswerTrue, InStep, Mark
        <5>. QED BY <2>6, <2>14, <4>3, <5>1, <5>4
      <4>. QED BY <2>14, <3>2, <4>1, <4>2, <4>3
    <3>. QED BY <1>5, <2>6, <2>7, <2>12, <3>1, <3>2 DEF GotTrue
  <2>17. LaterIsLater'
    <3>1. ASSUME NEW row \in events, row.rowid > cursor, NEW k \in 1 .. n + m
          PROVE  all[k].nth < row.nth
      <4>1. CASE k \in 1 .. n
        <5>1. got[k].nth < row.nth
          BY <1>2, <1>3, <1>4, <1>7, <2>10, <3>1, <4>1 DEF LaterIsLater
        <5>. QED BY <2>6, <4>1, <5>1
      <4>2. CASE k - n \in 1 .. m
        <5>1. answer[k - n].rowid <= cursor /\ answer[k - n].rowid \in Nat
          BY <2>2, <2>9, <4>2
        <5>2. Mark(answer[k - n]) \in Asked /\ row.rowid > answer[k - n].rowid
          BY <1>7, <2>8, <3>1, <4>2, <5>1
        <5>3. answer[k - n].nth < row.nth
          BY <1>2, <5>2 DEF LaterIsLater, Mark
        <5>. QED BY <2>6, <2>14, <4>2, <5>3
      <4>. QED BY <2>14, <4>1, <4>2
    <3>. QED BY <1>1, <2>6, <2>7, <2>12, <3>1 DEF LaterIsLater
  <2>18. NothingSkipped'
    <3>1. ASSUME NEW row \in events, row.fresh, row.event.src = "browser", row.rowid <= cursor
          PROVE  \E k \in 1 .. n + m : all[k].nth = row.nth
      <4>1. CASE row.rowid <= importer.cursor
        <5>1. PICK k \in 1 .. n : got[k].nth = row.nth
          BY <1>2, <1>3, <1>4, <3>1, <4>1 DEF NothingSkipped
        <5>. QED BY <2>6, <5>1
      <4>2. CASE ~(row.rowid <= importer.cursor)
        <5>1. row.rowid > importer.cursor
          BY <1>7, <2>10, <4>2
        <5>2. Mark(answer[m]) \in Asked /\ Mark(answer[m]).rowid = cursor
          BY <2>1, <2>4, <2>8 DEF Mark
        <5>3. PICK b \in Asked : b.nth = row.nth
          BY <1>2, <3>1, <5>1, <5>2 DEF NothingSkipped
        <5>4. PICK i \in 1 .. m : b = Mark(answer[i])
          BY <2>8
        <5>5. all[n + i].nth = row.nth /\ n + i \in 1 .. n + m
          BY <2>6, <5>3, <5>4 DEF Mark
        <5>. QED BY <5>5
      <4>. QED BY <4>1, <4>2
    <3>. QED BY <1>1, <2>6, <2>7, <2>12, <3>1 DEF NothingSkipped
  <2>. QED BY <1>5, <2>11, <2>13, <2>16, <2>17, <2>18 DEF VisitsInv, ReaderInv
<1>. QED BY <1>8, <1>9 DEF EndExport

\* Every visit is what the events inserted since the last wipe make of it; and the importer
\* has what its cursor has passed, in order, with the visits that were closed.
THEOREM VisitsTrue == VisitsSpec => []VisitsHold
<1>1. VisitsInit => VisitsInv
  BY VisitsAssumption, VisitsStart
<1>2. VisitsInv /\ [VisitsNext]_visitsVars => VisitsInv'
  <2>1. ASSUME VisitsInv, UNCHANGED visitsVars PROVE VisitsInv'
    <3>1. importer' = importer /\ UNCHANGED <<events, inserted, wiped, visits, high>>
      BY <2>1 DEF visitsVars
    <3>2. VisitsType' /\ Asked' = Asked
      BY <2>1, <3>1 DEF VisitsInv, VisitsType, Asked
    <3>3. TableTrue' /\ VisitsFollow' /\ (\A r : RowTrue(r)' <=> RowTrue(r))
          /\ (\A l : LineTrue(l)' <=> LineTrue(l))
      BY <2>1, <3>1, TablesRest
    <3>4. ReaderInv'
      BY <2>1, <3>1, <3>2, <3>3
         DEF VisitsInv, ReaderInv, PageTrue, AnswerTrue, GotTrue, LaterIsLater, NothingSkipped
    <3>. QED BY <3>2, <3>3, <3>4 DEF VisitsInv
  <2>. QED BY <2>1, VisitsAssumption, AppendKept, TrimKept, WipeKept, BeginKept, LookKept, EndKept
           DEF VisitsNext
<1>3. VisitsInv => VisitsHold
  <2>1. VisitsInv => ExportKeepsUp
    BY DEF VisitsInv, ReaderInv, NothingSkipped, GotTrue, LineTrue, ExportKeepsUp
  <2>. QED BY <2>1 DEF VisitsInv, VisitsHold
<1>. QED BY <1>1, <1>2, <1>3, PTL DEF VisitsSpec

=============================================================================
