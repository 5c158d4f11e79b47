-------------------------- MODULE Projections_proofs --------------------------
(***************************************************************************)
(* What is derived from the store's rows, for every value of the           *)
(* constants: the search index, the time line, the daily roast's claim,    *)
(* the upgrade of the schema, the history cards and what their summarizer  *)
(* is told.                                                                *)
(***************************************************************************)
EXTENDS SearchIndex, ActivityTime, DailyRoast, Migration, HistoryCards, SlotActions, SlotEvidence,
        SequenceTheorems, FiniteSetTheorems, WellFoundedInduction, TLAPS

-----------------------------------------------------------------------------
(***************************************************************************)
(* The search index and the derived rows, for every set of events.         *)
(*                                                                         *)
(* Two facts carry the invariant over the steps that are not atomic: what  *)
(* the desktop's rebuild has read is still so for every event nobody       *)
(* changed meanwhile, and the OCR worker is never busy with an event that  *)
(* has its row.                                                            *)
(***************************************************************************)

SnapshotFresh ==
  snapshot # NoRow => \A e \in Events \ raced : snapshot[e] = derived[e]["ocr.v1"]

OcrUnwritten ==
  engine["ocr.v1"] # NoRow => derived[engine["ocr.v1"]]["ocr.v1"] = NoRow

IndexInv == IndexTypeOK /\ SnapshotFresh /\ OcrUnwritten /\ DocHasSource /\ OcrHasDoc

Rows == [Events -> [Kinds -> Bodies \cup {NoRow}]]

LEMMA BlankRows ==
  ASSUME derived \in Rows, NEW E
  PROVE  /\ Blank(E) \in Rows
         /\ \A e \in Events, k \in Kinds :
              Blank(E)[e][k] = IF e \in E THEN NoRow ELSE derived[e][k]
  BY DEF Blank, Rows

LEMMA IndexInitInv ==
  ASSUME IndexInit, SearchAssumption
  PROVE  IndexInv
  BY DEF IndexInit, SearchAssumption, IndexInv, IndexTypeOK, Unread, SnapshotFresh, OcrUnwritten,
         DocHasSource, OcrHasDoc, Kinds

\* One row of derived, with the text in the index: what a worker's write changes.
LEMMA InsertKept ==
  ASSUME IndexInv, SearchAssumption, NEW k \in Kinds, NEW body \in {TextOf(k), "blank"},
         Insert(k, body)
  PROVE  IndexInv'
<1> DEFINE e == engine[k]
<1>1. /\ e \in Events /\ body \in Bodies
  BY DEF IndexInv, IndexTypeOK, Insert, TextOf, Bodies
<1>2. /\ derived' \in Rows
      /\ derived'[e][k] = body
      /\ \A f \in Events, l \in Kinds : <<f, l>> # <<e, k>> => derived'[f][l] = derived[f][l]
  BY <1>1 DEF IndexInv, IndexTypeOK, Rows, Insert
<1>3. /\ doc' \in [Events -> Bodies \cup {NoRow}]
      /\ doc'[e] = body
      /\ \A f \in Events : f # e => doc'[f] = doc[f]
  BY <1>1 DEF IndexInv, IndexTypeOK, Insert
<1>4. /\ engine' \in [Kinds -> Events \cup {NoRow}]
      /\ engine'[k] = NoRow
      /\ \A l \in Kinds : l # k => engine'[l] = engine[l]
  BY DEF IndexInv, IndexTypeOK, Insert
<1>5. /\ snapshot' = snapshot /\ stage' = stage
      /\ raced \subseteq raced'
      /\ raced' \subseteq Events
      /\ snapshot # NoRow => e \in raced'
  BY <1>1 DEF IndexInv, IndexTypeOK, Insert, Racing
<1>6. IndexTypeOK'
  BY <1>2, <1>3, <1>4, <1>5 DEF IndexInv, IndexTypeOK, Rows
<1>7. SnapshotFresh'
  BY <1>2, <1>5 DEF IndexInv, SnapshotFresh, Kinds
<1>8. OcrUnwritten'
  <2>1. CASE k = "ocr.v1"
    BY <2>1, <1>4 DEF OcrUnwritten
  <2>2. CASE k = "ax.v1"
    BY <2>2, <1>2, <1>4 DEF IndexInv, IndexTypeOK, OcrUnwritten, Kinds
  <2>. QED BY <2>1, <2>2 DEF Kinds
<1>9. DocHasSource'
  <2> SUFFICES ASSUME NEW f \in Events \ raced', doc'[f] # NoRow
               PROVE  \E l \in Kinds : derived'[f][l] = doc'[f]
    BY DEF DocHasSource
  <2>1. CASE f = e
    BY <2>1, <1>2, <1>3
  <2>2. CASE f # e
    BY <2>2, <1>2, <1>3, <1>5 DEF IndexInv, DocHasSource
  <2>. QED BY <2>1, <2>2
<1>10. OcrHasDoc'
  BY <1>1, <1>2, <1>3, <1>5, SearchAssumption DEF IndexInv, OcrHasDoc, Kinds, Bodies, IndexTypeOK
<1>. QED BY <1>6, <1>7, <1>8, <1>9, <1>10 DEF IndexInv

\* The steps that change neither derived nor doc.
LEMMA QuietKept ==
  ASSUME IndexInv, SearchAssumption, UNCHANGED <<derived, doc, raced>>, IndexTypeOK',
         SnapshotFresh', OcrUnwritten'
  PROVE  IndexInv'
  BY DEF IndexInv, DocHasSource, OcrHasDoc

LEMMA BeginKept ==
  ASSUME IndexInv, SearchAssumption, NEW k \in Kinds, NEW e \in Events, Begin(k, e)
  PROVE  IndexInv'
<1>1. IndexTypeOK'
  BY DEF IndexInv, IndexTypeOK, Begin
<1>2. SnapshotFresh'
  BY DEF IndexInv, SnapshotFresh, Begin
<1>3. OcrUnwritten'
  <2>1. CASE k = "ocr.v1"
    BY <2>1 DEF IndexInv, IndexTypeOK, OcrUnwritten, Begin
  <2>2. CASE k # "ocr.v1"
    BY <2>2 DEF IndexInv, IndexTypeOK, OcrUnwritten, Begin
  <2>. QED BY <2>1, <2>2
<1>. QED BY <1>1, <1>2, <1>3, QuietKept DEF Begin

LEMMA AbandonKept ==
  ASSUME IndexInv, SearchAssumption, NEW k \in Kinds, Abandon(k)
  PROVE  IndexInv'
<1>1. IndexTypeOK'
  BY DEF IndexInv, IndexTypeOK, Abandon
<1>2. SnapshotFresh'
  BY DEF IndexInv, SnapshotFresh, Abandon
<1>3. OcrUnwritten'
  BY DEF IndexInv, IndexTypeOK, OcrUnwritten, Abandon, Kinds
<1>. QED BY <1>1, <1>2, <1>3, QuietKept DEF Abandon

LEMMA PersistKept ==
  ASSUME IndexInv, SearchAssumption, NEW e \in Events, Persist(e)
  PROVE  IndexInv'
<1>1. IndexTypeOK'
  BY DEF IndexInv, IndexTypeOK, Persist
<1>2. SnapshotFresh' /\ OcrUnwritten'
  BY DEF IndexInv, SnapshotFresh, OcrUnwritten, Persist
<1>. QED BY <1>1, <1>2, QuietKept DEF Persist

\* A trim and a wipe take an event's bodies and its search row together.
LEMMA DeletionKept ==
  ASSUME IndexInv, SearchAssumption, NEW E \in SUBSET Events,
         derived' = Blank(E),
         doc' = [e \in Events |-> IF e \in E THEN NoRow ELSE doc[e]],
         raced' = Racing(E), stage' \in [Events -> {"unseen", "live", "gone"}],
         UNCHANGED <<engine, snapshot>>
  PROVE  IndexInv'
<1>1. /\ derived' \in Rows
      /\ \A e \in Events, k \in Kinds :
           derived'[e][k] = IF e \in E THEN NoRow ELSE derived[e][k]
  BY BlankRows DEF IndexInv, IndexTypeOK, Rows
<1>2. /\ raced \subseteq raced' /\ raced' \subseteq Events
      /\ snapshot # NoRow => E \subseteq raced'
  BY DEF IndexInv, IndexTypeOK, Racing
<1>3. IndexTypeOK'
  BY <1>1, <1>2 DEF IndexInv, IndexTypeOK, Rows
<1>4. SnapshotFresh'
  BY <1>1, <1>2 DEF IndexInv, SnapshotFresh, Kinds
<1>5. OcrUnwritten'
  BY <1>1 DEF IndexInv, IndexTypeOK, OcrUnwritten, Kinds
<1>6. DocHasSource'
  BY <1>1, <1>2 DEF IndexInv, DocHasSource, Kinds
<1>7. OcrHasDoc'
  BY <1>1, <1>2 DEF IndexInv, OcrHasDoc, Kinds
<1>. QED BY <1>3, <1>4, <1>5, <1>6, <1>7 DEF IndexInv

LEMMA TrimKept ==
  ASSUME IndexInv, SearchAssumption, NEW e \in Events, Trim(e)
  PROVE  IndexInv'
<1>1. doc' = [f \in Events |-> IF f \in {e} THEN NoRow ELSE doc[f]]
  BY DEF IndexInv, IndexTypeOK, Trim
<1>2. stage' \in [Events -> {"unseen", "live", "gone"}]
  BY DEF IndexInv, IndexTypeOK, Trim
<1>. QED BY <1>1, <1>2, DeletionKept DEF Trim

LEMMA IndexWipeKept ==
  ASSUME IndexInv, SearchAssumption, WipeIndex
  PROVE  IndexInv'
<1>1. doc' = [f \in Events |-> IF f \in Events THEN NoRow ELSE doc[f]]
  BY DEF WipeIndex, Unread
<1>2. stage' \in [Events -> {"unseen", "live", "gone"}]
  BY DEF IndexInv, IndexTypeOK, WipeIndex
<1>. QED BY <1>1, <1>2, DeletionKept DEF WipeIndex

LEMMA RebuiltType ==
  ASSUME IndexTypeOK
  PROVE  Rebuilt \in [Events -> Bodies \cup {NoRow}]
  BY DEF IndexTypeOK, Rebuilt, Kinds

LEMMA RebuildKept ==
  ASSUME IndexInv, SearchAssumption, Reindex \/ BeginReindex \/ EndReindex
  PROVE  IndexInv'
<1>1. CASE Reindex
  <2>1. IndexTypeOK'
    BY <1>1, RebuiltType DEF IndexInv, IndexTypeOK, Reindex
  <2>2. SnapshotFresh' /\ OcrUnwritten'
    BY <1>1 DEF IndexInv, SnapshotFresh, OcrUnwritten, Reindex
  <2>3. DocHasSource' /\ OcrHasDoc'
    BY <1>1 DEF IndexInv, DocHasSource, OcrHasDoc, Reindex, Rebuilt, Kinds
  <2>. QED BY <2>1, <2>2, <2>3 DEF IndexInv
<1>2. CASE BeginReindex
  <2>1. IndexTypeOK'
    BY <1>2, RebuiltType DEF IndexInv, IndexTypeOK, BeginReindex
  <2>2. SnapshotFresh' /\ OcrUnwritten'
    BY <1>2 DEF IndexInv, SnapshotFresh, OcrUnwritten, BeginReindex, Rebuilt
  <2>. QED BY <1>2, <2>1, <2>2, QuietKept DEF BeginReindex
<1>3. CASE EndReindex
  <2>1. IndexTypeOK'
    BY <1>3 DEF IndexInv, IndexTypeOK, EndReindex
  <2>2. SnapshotFresh' /\ OcrUnwritten'
    BY <1>3 DEF IndexInv, SnapshotFresh, OcrUnwritten, EndReindex
  <2>3. \A e \in Events \ raced' : doc'[e] = derived'[e]["ocr.v1"]
    BY <1>3 DEF IndexInv, SnapshotFresh, EndReindex
  <2>4. DocHasSource' /\ OcrHasDoc'
    BY <2>3 DEF DocHasSource, OcrHasDoc, Kinds
  <2>. QED BY <2>1, <2>2, <2>4 DEF IndexInv
<1>. QED BY <1>1, <1>2, <1>3

LEMMA IndexNextKept ==
  ASSUME IndexInv, SearchAssumption, [IndexNext]_indexVars
  PROVE  IndexInv'
<1>1. CASE UNCHANGED indexVars
  BY <1>1 DEF indexVars, IndexInv, IndexTypeOK, SnapshotFresh, OcrUnwritten, DocHasSource, OcrHasDoc
<1>2. CASE IndexNext
  BY <1>2, InsertKept, BeginKept, AbandonKept, PersistKept, TrimKept, IndexWipeKept, RebuildKept
  DEF IndexNext, IndexDaemonNext
<1>. QED BY <1>1, <1>2

\* IndexInv holds in every state.
THEOREM IndexInductive == IndexSpec => []IndexInv
<1>1. IndexInit => IndexInv
  BY IndexInitInv, SearchAssumption
<1>2. IndexInv /\ [IndexNext]_indexVars => IndexInv'
  BY IndexNextKept, SearchAssumption
<1>. QED BY <1>1, <1>2, PTL DEF IndexSpec

\* A search hit is backed by a derived row of its event, and an event with an
\* ocr.v1 row is in the index, unless a rebuild by the desktop raced with it.
THEOREM IndexFollowsDerived == IndexSpec => []IndexTrue
<1>1. IndexInv => IndexTrue
  BY DEF IndexInv, IndexTrue
<1>. QED BY <1>1, IndexInductive, PTL

\* A frame's text is written once, however often its job is redone.
THEOREM TextWrittenOnce == IndexSpec => OcrWrittenOnce
<1> DEFINE Once ==
      \A e \in Events :
        derived[e]["ocr.v1"] # NoRow /\ derived'[e]["ocr.v1"] # derived[e]["ocr.v1"]
          => derived'[e]["ocr.v1"] = NoRow
<1>1. ASSUME IndexInv, IndexNext
      PROVE  Once
  <2>1. ASSUME NEW k \in Kinds, NEW body, Insert(k, body)
        PROVE  Once
    BY <1>1, <2>1 DEF IndexInv, IndexTypeOK, OcrUnwritten, Insert, Kinds
  <2>2. ASSUME NEW E, derived' = Blank(E)
        PROVE  Once
    BY <1>1, <2>2, BlankRows DEF IndexInv, IndexTypeOK, Rows, Kinds
  <2>3. CASE UNCHANGED derived
    BY <2>3
  <2>. QED
    BY <1>1, <2>1, <2>2, <2>3
    DEF IndexNext, IndexDaemonNext, Persist, Begin, Abandon, Trim, WipeIndex, Reindex, BeginReindex, EndReindex
<1>2. IndexInv /\ [IndexNext]_indexVars => [Once]_indexVars
  BY <1>1
<1>. QED BY <1>2, IndexInductive, PTL DEF IndexSpec, OcrWrittenOnce

-----------------------------------------------------------------------------
(***************************************************************************)
(* Time accounting, for every set of windows, heartbeat, gap and bound.    *)
(*                                                                         *)
(* The store's half needs nothing of the producer: a projection that       *)
(* touches two rows keeps every row a function of the samples.  That a     *)
(* duration is time really spent rests on the producer: its timestamps     *)
(* grow within a lifetime, and no lifetime outlives a gate.                *)
(***************************************************************************)

\* The table holds what was sent.
SamplesWereSent ==
  \A p \in Points : samples[p] # None => samples[p] = sent[p]

\* Samples are numbered in order: nothing is sent beyond the producer's mark.
NumberedInOrder ==
  /\ producer.last = None => producer.seq = 0
  /\ \A p \in Points : sent[p] # None =>
       /\ p[1] <= producer.stream
       /\ p[1] = producer.stream => p[2] <= producer.seq

\* Timestamps grow within a lifetime, the latest is the producer's.
LifetimeOrdered ==
  /\ \A p, q \in Points :
       p[1] = q[1] /\ p[2] < q[2] /\ sent[p] # None /\ sent[q] # None => sent[p].ts < sent[q].ts
  /\ \A p \in Points :
       sent[p] # None /\ p[1] = producer.stream => sent[p].ts <= producer.last

\* A gate found closed is in no interval, and before all of the current lifetime.
GatesOutside ==
  /\ \A t \in gated : t <= real
  /\ \A p \in Points : After(p) \in Points /\ sent[p] # None /\ sent[After(p)] # None =>
       \A t \in gated : t <= sent[p].at \/ t >= sent[After(p)].at
  /\ \A p \in Points : sent[p] # None =>
       /\ sent[p].at <= real
       /\ p[1] = producer.stream => \A t \in gated : t <= sent[p].at

SendInv == NumberedInOrder /\ LifetimeOrdered /\ GatesOutside

TimeInv == TypeOK /\ ProjectionIsFunction /\ SamplesWereSent /\ SendInv

-----------------------------------------------------------------------------
(* Points. *)

LEMMA PointFacts ==
  ASSUME TimeAssumption, NEW p \in Points
  PROVE  /\ p = <<p[1], p[2]>> /\ p[1] \in Streams /\ p[2] \in 1 .. MaxSeq
         /\ p[1] \in Nat /\ p[2] \in Nat
  BY DEF Points, Streams, TimeAssumption

LEMMA AfterFacts ==
  ASSUME TimeAssumption, NEW p \in Points
  PROVE  /\ After(p)[1] = p[1] /\ After(p)[2] = p[2] + 1
         /\ After(p) # p
         /\ \A q \in Points : After(q) = After(p) => q = p
         /\ \A q \in Points : q[1] = p[1] /\ q[2] = p[2] => q = p
         /\ \A q \in Points : q[1] = p[1] /\ p[2] < q[2] => After(p) \in Points
<1>1. \A q \in Points : q = <<q[1], q[2]>> /\ q[1] \in 1 .. MaxStreams /\ q[2] \in 1 .. MaxSeq
  BY PointFacts DEF Streams
<1>2. After(p) = <<p[1], p[2] + 1>>
  BY DEF After
<1>3. /\ After(p)[1] = p[1] /\ After(p)[2] = p[2] + 1
      /\ After(p) # p
  BY <1>1, <1>2 DEF TimeAssumption
<1>4. ASSUME NEW q \in Points, After(q) = After(p) PROVE q = p
  <2>1. After(q) = <<q[1], q[2] + 1>> BY DEF After
  <2>2. q[1] = p[1] /\ q[2] + 1 = p[2] + 1 BY <2>1, <1>2, <1>4
  <2>3. q[2] = p[2] BY <2>2, <1>1 DEF TimeAssumption
  <2>4. QED BY <2>2, <2>3, <1>1
<1>5. ASSUME NEW q \in Points, q[1] = p[1], q[2] = p[2] PROVE q = p
  BY <1>5, <1>1
<1>6. ASSUME NEW q \in Points, q[1] = p[1], p[2] < q[2] PROVE After(p) \in Points
  <2>1. p[2] + 1 \in 1 .. MaxSeq BY <1>6, <1>1 DEF TimeAssumption
  <2>2. QED BY <2>1, <1>1, <1>2 DEF Points, Streams
<1>7. QED BY <1>3, <1>4, <1>5, <1>6

\* A segment is well-typed, whatever two samples it is drawn from.
LEMMA SegmentType ==
  ASSUME TimeAssumption, NEW S \in [Points -> Samples \cup {None}],
         NEW p \in Points, S[p] # None
  PROVE  Segment(S, p) \in Segments
<1> DEFINE b == IF After(p) \in Points THEN S[After(p)] ELSE None
<1>1. S[p] \in Samples BY DEF Samples
<1>2. Duration(S[p], b) \in 0 .. (Gap - 1)
  BY <1>1 DEF Duration, TimeAssumption
<1>3. QED BY <1>1, <1>2 DEF Segment, Segments, Samples

\* A duration that is not zero is the step to the next sample.
LEMMA DurationFacts ==
  ASSUME TimeAssumption, NEW S \in [Points -> Samples \cup {None}],
         NEW p \in Points, S[p] # None
  PROVE  \/ Segment(S, p).duration = 0
         \/ /\ After(p) \in Points /\ S[After(p)] # None
            /\ Segment(S, p).duration = S[After(p)].ts - S[p].ts
  BY DEF Segment, Duration

-----------------------------------------------------------------------------
(* The initial state and the steps of time. *)

LEMMA TimeInit ==
  ASSUME Init, TimeAssumption
  PROVE  TimeInv
  BY DEF Init, TimeAssumption, TimeInv, TypeOK, Fresh, Nothing, Times, Streams,
         ProjectionIsFunction, SamplesWereSent, SendInv, NumberedInOrder,
         LifetimeOrdered, GatesOutside

LEMMA TimeKept ==
  ASSUME TimeInv, TimeAssumption, Tick \/ SetClock
  PROVE  TimeInv'
<1>1. /\ UNCHANGED <<producer, sent, samples, segments, gated>>
      /\ now' \in Times /\ real' \in Times /\ steps' \in 0 .. MaxSteps
      /\ real \in Times /\ real <= real'
  BY DEF Tick, SetClock, TimeInv, TypeOK, Times, TimeAssumption
<1>2. TypeOK' BY <1>1 DEF TimeInv, TypeOK
<1>3. (ProjectionIsFunction /\ SamplesWereSent /\ NumberedInOrder /\ LifetimeOrdered)'
  BY <1>1 DEF TimeInv, SendInv, ProjectionIsFunction, SamplesWereSent, NumberedInOrder, LifetimeOrdered,
     Segment
<1>4. /\ \A p \in Points : sent[p] # None => sent[p].at \in Nat
      /\ \A t \in gated : t \in Nat
      /\ real \in Nat /\ real' \in Nat
  BY <1>1 DEF TimeInv, TypeOK, Samples, Times, TimeAssumption
<1>5. GatesOutside'
  <2>1. (\A t \in gated : t <= real)'
    BY <1>1, <1>4 DEF TimeInv, SendInv, GatesOutside
  <2>2. \A p \in Points : sent[p] # None => sent[p].at <= real'
    BY <1>1, <1>4 DEF TimeInv, SendInv, GatesOutside
  <2>3. QED BY <1>1, <2>1, <2>2 DEF TimeInv, SendInv, GatesOutside
<1>6. QED BY <1>2, <1>3, <1>5 DEF TimeInv, SendInv

LEMMA TimeWipeKept ==
  ASSUME TimeInv, TimeAssumption, Wipe
  PROVE  TimeInv'
<1>1. TypeOK' BY DEF TimeInv, TypeOK, Wipe, Nothing
<1>2. ProjectionIsFunction' /\ SamplesWereSent'
  BY DEF Wipe, Nothing, ProjectionIsFunction, SamplesWereSent
<1>3. SendInv'
  BY DEF TimeInv, SendInv, Wipe, NumberedInOrder, LifetimeOrdered, GatesOutside
<1>4. QED BY <1>1, <1>2, <1>3 DEF TimeInv

-----------------------------------------------------------------------------
(* The store. *)

LEMMA DeliverKept ==
  ASSUME TimeInv, TimeAssumption, NEW p \in Points, Deliver(p)
  PROVE  TimeInv'
<1>1. /\ UNCHANGED <<now, real, steps, producer, sent, gated>>
      /\ sent[p] \in Samples
  BY DEF Deliver, TimeInv, TypeOK
<1>2. SendInv'
  BY <1>1 DEF TimeInv, SendInv, NumberedInOrder, LifetimeOrdered, GatesOutside
<1>3. CASE samples[p] # None
  <2>1. UNCHANGED <<samples, segments>> BY <1>3 DEF Deliver
  <2>2. TypeOK' /\ ProjectionIsFunction' /\ SamplesWereSent'
    BY <1>1, <2>1 DEF TimeInv, TypeOK, ProjectionIsFunction, SamplesWereSent, Segment
  <2>3. QED BY <1>2, <2>2 DEF TimeInv
<1>4. CASE samples[p] = None
  <2> DEFINE S == [samples EXCEPT ![p] = sent[p]]
  <2>1. /\ samples' = S
        /\ segments' = [q \in Points |->
             IF q = p \/ (After(q) = p /\ S[q] # None) THEN Segment(S, q) ELSE segments[q]]
    BY <1>4 DEF Deliver, Project
  <2>2. S \in [Points -> Samples \cup {None}] BY <1>1 DEF TimeInv, TypeOK
  <2>3. S[p] = sent[p] /\ \A q \in Points : q # p => S[q] = samples[q]
    BY DEF TimeInv, TypeOK
  <2>4. TypeOK'
    <3>1. \A q \in Points : S[q] # None => Segment(S, q) \in Segments
      BY <2>2, SegmentType
    <3>2. segments' \in [Points -> Segments \cup {None}]
      BY <2>1, <2>3, <3>1, <1>1, <1>4 DEF TimeInv, TypeOK, Deliver
    <3>3. QED BY <1>1, <2>1, <2>2, <3>2 DEF TimeInv, TypeOK
  <2>5. SamplesWereSent'
    BY <1>1, <2>1, <2>3 DEF TimeInv, SamplesWereSent
  <2>6. ASSUME NEW q \in Points
        PROVE  segments'[q] = IF S[q] = None THEN None ELSE Segment(S, q)
    <3>1. CASE q = p
      BY <3>1, <2>1, <2>3 DEF Deliver
    <3>2. CASE q # p /\ After(q) = p
      <4>1. S[q] = None => samples[q] = None BY <3>2, <2>3
      <4>2. segments[q] = IF samples[q] = None THEN None ELSE Segment(samples, q)
        BY DEF TimeInv, ProjectionIsFunction
      <4>3. QED BY <3>2, <4>1, <4>2, <2>1
    <3>3. CASE q # p /\ After(q) # p
      <4>1. S[q] = samples[q] BY <3>3, <2>3
      <4>2. After(q) \in Points => S[After(q)] = samples[After(q)] BY <3>3, <2>3
      <4>3. Segment(S, q) = Segment(samples, q) BY <4>1, <4>2 DEF Segment
      <4>4. segments[q] = IF samples[q] = None THEN None ELSE Segment(samples, q)
        BY DEF TimeInv, ProjectionIsFunction
      <4>5. segments'[q] = segments[q] BY <3>3, <2>1
      <4>6. QED BY <4>1, <4>3, <4>4, <4>5
    <3>4. QED BY <3>1, <3>2, <3>3
  <2>7. ProjectionIsFunction' BY <2>1, <2>6 DEF ProjectionIsFunction
  <2>8. QED BY <1>2, <2>4, <2>5, <2>7 DEF TimeInv
<1>5. QED BY <1>3, <1>4

-----------------------------------------------------------------------------
(* The producer. *)

\* What SendInv speaks of, in the types it needs.
LEMMA SentTypes ==
  ASSUME TypeOK, TimeAssumption
  PROVE  /\ producer.stream \in Nat /\ producer.seq \in Nat
         /\ producer.last # None => producer.last \in Nat
         /\ now \in Nat /\ real \in Nat
         /\ \A p \in Points : sent[p] # None => sent[p].ts \in Nat /\ sent[p].at \in Nat
         /\ \A t \in gated : t \in Nat
<1>1. \A t \in Times : t \in Nat BY DEF Times, TimeAssumption
<1>2. /\ producer.stream \in Nat /\ producer.seq \in Nat
      /\ producer.last # None => producer.last \in Nat
  BY <1>1 DEF TypeOK, TimeAssumption, Streams
<1>3. \A p \in Points : sent[p] # None => sent[p].ts \in Nat /\ sent[p].at \in Nat
  BY <1>1 DEF TypeOK, Samples
<1>4. QED BY <1>1, <1>2, <1>3 DEF TypeOK

\* A new lifetime has no samples, so it has none out of order.
LEMMA BrokenKept ==
  ASSUME TimeInv, TimeAssumption, producer.seq = 0 \/ Room, producer' = Broken,
         UNCHANGED <<now, real, steps, sent, samples, segments>>,
         gated' = gated \/ gated' = gated \cup {real}
  PROVE  TimeInv'
<1>1. producer' \in [stream : Streams, seq : 0 .. MaxSeq, key : Keys \cup {None},
                     last : Times \cup {None}]
  BY DEF TimeInv, TypeOK, Broken, Fresh, Room, Streams, TimeAssumption
<1>2. TypeOK' BY <1>1 DEF TimeInv, TypeOK
<1>3. (ProjectionIsFunction /\ SamplesWereSent)'
  BY DEF TimeInv, ProjectionIsFunction, SamplesWereSent, Segment
<1>4. \A p \in Points : p[1] \in Nat /\ p[2] \in Nat /\ p[2] > 0
  BY PointFacts DEF TimeAssumption
<1>5. \A p \in Points : sent[p] # None => p[1] <= producer'.stream /\ p[1] # producer'.stream
  <2>1. CASE producer.seq = 0
    BY <2>1, <1>4, SentTypes DEF Broken, TimeInv, SendInv, NumberedInOrder
  <2>2. CASE producer.seq # 0
    BY <2>2, <1>4, SentTypes DEF Broken, Fresh, TimeInv, SendInv, NumberedInOrder
  <2>3. QED BY <2>1, <2>2
<1>6. producer'.seq = 0 BY DEF Broken, Fresh
<1>7. NumberedInOrder' BY <1>5, <1>6 DEF NumberedInOrder
<1>8. LifetimeOrdered' BY <1>5 DEF TimeInv, SendInv, LifetimeOrdered
<1>9. GatesOutside'
  <2>1. \A p \in Points : sent[p] # None => sent[p].at <= real
    BY DEF TimeInv, SendInv, GatesOutside
  <2>2. QED BY <1>4, <1>5, <2>1, SentTypes DEF TimeInv, SendInv, GatesOutside
<1>10. QED BY <1>2, <1>3, <1>7, <1>8, <1>9 DEF TimeInv, SendInv

\* The lifetime the next sample belongs to has nothing at or after now.
LEMMA CurrentFacts ==
  ASSUME TimeInv, TimeAssumption, Current = producer \/ Room
  PROVE  /\ Current \in [stream : Streams, seq : 0 .. MaxSeq, key : Keys \cup {None},
                         last : Times \cup {None}]
         /\ Current.last = None => Current.seq = 0
         /\ \A p \in Points : sent[p] # None =>
              /\ p[1] <= Current.stream
              /\ p[1] = Current.stream =>
                   /\ Current = producer
                   /\ p[2] <= Current.seq /\ sent[p].ts < now
                   /\ \A t \in gated : t <= sent[p].at
<1>1. TypeOK /\ NumberedInOrder /\ LifetimeOrdered /\ GatesOutside BY DEF TimeInv, SendInv
<1>2. \A p \in Points : p[1] \in Nat /\ p[2] \in Nat /\ p[2] > 0
  BY PointFacts DEF TimeAssumption
<1>3. CASE Current = producer
  <2>1. ASSUME NEW p \in Points, sent[p] # None, p[1] = producer.stream
        PROVE  sent[p].ts < now
    <3>1. producer.seq # 0 BY <2>1, <1>1, <1>2, SentTypes DEF NumberedInOrder
    <3>2. producer.last # None /\ producer.last \in Nat
      BY <3>1, <1>1, SentTypes DEF NumberedInOrder
    <3>3. ~(now <= producer.last)
      <4>1. producer.stream + 1 # producer.stream BY <1>1, SentTypes
      <4>2. Fresh(producer.stream + 1) # producer BY <4>1 DEF Fresh
      <4>3. QED BY <1>3, <3>1, <3>2, <4>2 DEF Current, Broken
    <3>4. sent[p].ts <= producer.last BY <2>1, <1>1 DEF LifetimeOrdered
    <3>5. QED BY <2>1, <3>2, <3>3, <3>4, <1>1, SentTypes
  <2>2. QED BY <1>3, <2>1, <1>1 DEF TypeOK, NumberedInOrder, GatesOutside
<1>4. CASE Current # producer
  <2>1. Current = Fresh(producer.stream + 1) /\ Room
    BY <1>4 DEF Current, Broken
  <2>2. Current.stream = producer.stream + 1 /\ Current.seq = 0 BY <2>1 DEF Fresh
  <2>3. Current \in [stream : Streams, seq : 0 .. MaxSeq, key : Keys \cup {None},
                     last : Times \cup {None}]
    BY <2>1, <1>1 DEF Fresh, Room, TypeOK, Streams, TimeAssumption
  <2>4. \A p \in Points : sent[p] # None => p[1] <= Current.stream /\ p[1] # Current.stream
    BY <2>2, <1>1, <1>2, SentTypes DEF NumberedInOrder
  <2>5. QED BY <2>2, <2>3, <2>4
<1>5. QED BY <1>3, <1>4

LEMMA PollOpenKept ==
  ASSUME TimeInv, TimeAssumption, NEW key \in Keys, PollOpen(key)
  PROVE  TimeInv'
<1> DEFINE n == <<Current.stream, Current.seq + 1>>
           x == [ts |-> now, key |-> key, at |-> real]
<1>1. UNCHANGED <<now, real, steps, samples, segments, gated>> BY DEF PollOpen
<1>2. CASE ~Due(Current, key)
  BY <1>1, <1>2 DEF PollOpen, TimeInv, TypeOK, ProjectionIsFunction, SamplesWereSent, Segment,
     SendInv, NumberedInOrder, LifetimeOrdered, GatesOutside
<1>3. CASE Due(Current, key)
  <2>1. /\ Current.seq < MaxSeq
        /\ producer' = [stream |-> Current.stream, seq |-> Current.seq + 1, key |-> key, last |-> now]
        /\ sent' = [sent EXCEPT ![n] = x]
        /\ Current = producer \/ Room
    BY <1>3 DEF PollOpen
  <2>2. /\ Current \in [stream : Streams, seq : 0 .. MaxSeq, key : Keys \cup {None},
                        last : Times \cup {None}]
        /\ \A p \in Points : sent[p] # None =>
             /\ p[1] <= Current.stream
             /\ p[1] = Current.stream =>
                  /\ p[2] <= Current.seq /\ sent[p].ts < now
                  /\ \A t \in gated : t <= sent[p].at
    BY <2>1, CurrentFacts
  <2>3. /\ Current.stream \in Nat /\ Current.seq \in Nat
        /\ n \in Points /\ n[1] = Current.stream /\ n[2] = Current.seq + 1
    BY <2>1, <2>2 DEF Points, Streams, TimeAssumption
  <2>4. x \in Samples /\ now \in Nat /\ real \in Nat
    BY DEF TimeInv, TypeOK, Samples, Times
  <2>5. /\ sent'[n] = x
        /\ \A p \in Points : p # n => sent'[p] = sent[p]
    BY <2>1, <2>3 DEF TimeInv, TypeOK
  <2>6. sent[n] = None BY <2>2, <2>3
  <2>7. TypeOK'
    BY <1>1, <2>1, <2>2, <2>3, <2>4 DEF TimeInv, TypeOK, Streams, Times, TimeAssumption
  <2>8. ProjectionIsFunction' BY <1>1 DEF TimeInv, ProjectionIsFunction, Segment
  <2>9. SamplesWereSent' BY <1>1, <2>5, <2>6 DEF TimeInv, SamplesWereSent
  <2>10. \A p \in Points : p[1] \in Nat /\ p[2] \in Nat
    BY PointFacts
  <2>11. now # None BY <2>4 DEF TimeAssumption
  <2>12. NumberedInOrder'
    <3>1. producer'.last # None /\ producer'.stream = Current.stream
          /\ producer'.seq = Current.seq + 1
      BY <2>1, <2>11
    <3>2. QED BY <3>1, <2>2, <2>3, <2>5, <2>10 DEF NumberedInOrder
  <2>13. LifetimeOrdered'
    <3>1. ASSUME NEW p \in Points, NEW q \in Points, p[1] = q[1], p[2] < q[2],
                 sent'[p] # None, sent'[q] # None
          PROVE  sent'[p].ts < sent'[q].ts
      <4>1. CASE q = n
        <5>1. p # n BY <4>1, <3>1, <2>3
        <5>2. sent'[p] = sent[p] BY <5>1, <2>5
        <5>3. sent[p].ts < now BY <3>1, <4>1, <5>2, <2>2, <2>3
        <5>4. sent'[q].ts = now BY <4>1, <2>5
        <5>5. QED BY <5>2, <5>3, <5>4
      <4>2. CASE p = n
        <5>1. q # n BY <4>2, <3>1, <2>3
        <5>2. sent[q] # None BY <5>1, <2>5, <3>1
        <5>3. q[2] <= Current.seq BY <5>2, <2>2, <4>2, <3>1, <2>3
        <5>4. QED BY <5>3, <4>2, <3>1, <2>3, <2>10
      <4>3. CASE p # n /\ q # n
        BY <4>3, <3>1, <2>5 DEF TimeInv, SendInv, LifetimeOrdered
      <4>4. QED BY <4>1, <4>2, <4>3
    <3>2. ASSUME NEW p \in Points, sent'[p] # None, p[1] = producer'.stream
          PROVE  sent'[p].ts <= producer'.last
      <4>1. producer'.last = now /\ producer'.stream = Current.stream BY <2>1
      <4>2. CASE p = n BY <4>1, <4>2, <2>4, <2>5
      <4>3. CASE p # n
        <5>1. sent'[p] = sent[p] /\ sent[p].ts < now BY <4>1, <4>3, <3>2, <2>2, <2>5
        <5>2. sent[p].ts \in Nat BY <5>1, <3>2, SentTypes DEF TimeInv
        <5>3. QED BY <5>1, <5>2, <4>1, <2>4
      <4>4. QED BY <4>2, <4>3
    <3>3. QED BY <3>1, <3>2 DEF LifetimeOrdered
  <2>14. GatesOutside'
    <3>1. ASSUME NEW p \in Points, After(p) \in Points, sent'[p] # None, sent'[After(p)] # None,
                 NEW t \in gated
          PROVE  t <= sent'[p].at \/ t >= sent'[After(p)].at
      <4>0. After(p)[1] = p[1] /\ After(p)[2] = p[2] + 1 /\ After(p) # p BY AfterFacts
      <4>1. CASE After(p) = n
        <5>1. p # n BY <4>1, <4>0
        <5>2. sent'[p] = sent[p] BY <5>1, <2>5
        <5>3. t <= sent[p].at BY <5>2, <4>0, <4>1, <3>1, <2>2, <2>3
        <5>4. QED BY <5>2, <5>3
      <4>2. CASE p = n
        <5>1. sent[After(p)] # None BY <4>0, <4>2, <3>1, <2>5
        <5>2. After(p)[2] <= Current.seq BY <5>1, <4>0, <4>2, <3>1, <2>2, <2>3
        <5>3. QED BY <5>2, <4>0, <4>2, <2>3
      <4>3. CASE p # n /\ After(p) # n
        BY <4>3, <3>1, <2>5 DEF TimeInv, SendInv, GatesOutside
      <4>4. QED BY <4>1, <4>2, <4>3
    <3>2. ASSUME NEW p \in Points, sent'[p] # None
          PROVE  /\ sent'[p].at <= real
                 /\ p[1] = producer'.stream => \A t \in gated : t <= sent'[p].at
      <4>1. CASE p = n
        <5>1. sent'[p].at = real BY <4>1, <2>5
        <5>2. \A t \in gated : t <= real
          BY DEF TimeInv, SendInv, GatesOutside
        <5>3. QED BY <5>1, <5>2, <2>4
      <4>2. CASE p # n
        <5>1. sent'[p] = sent[p] /\ producer'.stream = Current.stream BY <4>2, <2>1, <2>5
        <5>2. QED BY <5>1, <3>2, <2>2 DEF TimeInv, SendInv, GatesOutside
      <4>3. QED BY <4>1, <4>2
    <3>3. QED BY <1>1, <3>1, <3>2 DEF TimeInv, SendInv, GatesOutside
  <2>15. QED BY <2>7, <2>8, <2>9, <2>12, <2>13, <2>14 DEF TimeInv, SendInv
<1>4. QED BY <1>2, <1>3

-----------------------------------------------------------------------------
(* The theorems. *)

LEMMA TimeStepKept ==
  ASSUME TimeInv, TimeAssumption, [Next]_vars
  PROVE  TimeInv'
<1>1. CASE \E key \in Keys : PollOpen(key) BY <1>1, PollOpenKept
<1>2. CASE PollGated BY <1>2, BrokenKept DEF PollGated
<1>3. CASE Restart BY <1>3, BrokenKept DEF Restart
<1>4. CASE \E p \in Points : Deliver(p) BY <1>4, DeliverKept
<1>5. CASE Wipe BY <1>5, TimeWipeKept
<1>6. CASE Tick \/ SetClock BY <1>6, TimeKept
<1>7. CASE UNCHANGED vars
  BY <1>7 DEF vars, TimeInv, TypeOK, ProjectionIsFunction, SamplesWereSent, Segment,
     SendInv, NumberedInOrder, LifetimeOrdered, GatesOutside
<1>8. QED BY <1>1, <1>2, <1>3, <1>4, <1>5, <1>6, <1>7 DEF Next

\* TimeInv is an inductive invariant: the producer's ordering and the store's
\* projection are kept by every poll, delivery, gate, restart and clock change.
THEOREM TimeInductive == Spec => []TimeInv
<1>1. Init => TimeInv BY TimeInit, TimeAssumption
<1>2. TimeInv /\ [Next]_vars => TimeInv' BY TimeStepKept, TimeAssumption
<1>3. QED BY <1>1, <1>2, PTL DEF Spec

\* The time accounted for is a function of the samples in the table, however
\* late, often or disordered they arrived (project_activity_event).
THEOREM OrderIrrelevant == Spec => []ProjectionIsFunction
<1>1. TimeInv => ProjectionIsFunction BY DEF TimeInv
<1>2. QED BY <1>1, TimeInductive, PTL

LEMMA Disjoint ==
  ASSUME TimeInv, TimeAssumption
  PROVE  LifetimeSegmentsDisjoint
<1> SUFFICES ASSUME NEW p \in Points, NEW q \in Points, p[1] = q[1], p[2] < q[2],
                    segments[p] # None, segments[q] # None
             PROVE  segments[p].start + segments[p].duration <= segments[q].start
  BY DEF LifetimeSegmentsDisjoint
<1>1. /\ samples[p] # None /\ segments[p] = Segment(samples, p)
      /\ samples[q] # None /\ segments[q] = Segment(samples, q)
  BY DEF TimeInv, ProjectionIsFunction
<1>2. /\ samples[p] = sent[p] /\ samples[q] = sent[q]
  BY <1>1 DEF TimeInv, SamplesWereSent
<1>3. /\ segments[p].start = sent[p].ts /\ segments[q].start = sent[q].ts
      /\ sent[p].ts < sent[q].ts
      /\ sent[p].ts \in Nat /\ sent[q].ts \in Nat
  BY <1>1, <1>2, SentTypes DEF Segment, TimeInv, SendInv, LifetimeOrdered
<1>4. samples \in [Points -> Samples \cup {None}] BY DEF TimeInv, TypeOK
<1>5. CASE segments[p].duration = 0 BY <1>3, <1>5
<1>6. CASE segments[p].duration # 0
  <2>1. /\ After(p) \in Points /\ samples[After(p)] # None
        /\ segments[p].duration = samples[After(p)].ts - sent[p].ts
    BY <1>1, <1>2, <1>4, <1>6, DurationFacts
  <2>2. samples[After(p)] = sent[After(p)] BY <2>1 DEF TimeInv, SamplesWereSent
  <2>3. sent[After(p)].ts \in Nat BY <2>1, <2>2, SentTypes DEF TimeInv
  <2>4. sent[After(p)].ts <= sent[q].ts
    <3>1. After(p)[1] = p[1] /\ After(p)[2] = p[2] + 1 BY AfterFacts
    <3>2. p[2] \in Nat /\ q[2] \in Nat BY PointFacts
    <3>3. CASE After(p)[2] = q[2]
      <4>1. After(p) = q BY <3>1, <3>3, <2>1, AfterFacts
      <4>2. QED BY <4>1, <1>3
    <3>4. CASE After(p)[2] < q[2]
      BY <3>1, <3>4, <2>1, <2>2, <2>3, <1>1, <1>2, <1>3 DEF TimeInv, SendInv, LifetimeOrdered
    <3>5. QED BY <3>1, <3>2, <3>3, <3>4
  <2>5. QED BY <1>3, <2>1, <2>2, <2>3, <2>4
<1>7. QED BY <1>5, <1>6

\* No moment of a lifetime is counted twice.
THEOREM CountedOnce == Spec => []LifetimeSegmentsDisjoint
<1>1. TimeInv => LifetimeSegmentsDisjoint BY Disjoint, TimeAssumption
<1>2. QED BY <1>1, TimeInductive, PTL

LEMMA NotGated ==
  ASSUME TimeInv, TimeAssumption
  PROVE  NoTimeWhileGated
<1> SUFFICES ASSUME NEW p \in Points, segments[p] # None, segments[p].duration > 0,
                    NEW t \in gated
             PROVE  t <= sent[p].at \/ t >= sent[After(p)].at
  BY DEF NoTimeWhileGated
<1>1. samples[p] # None /\ segments[p] = Segment(samples, p)
  BY DEF TimeInv, ProjectionIsFunction
<1>2. samples \in [Points -> Samples \cup {None}] BY DEF TimeInv, TypeOK
<1>3. After(p) \in Points /\ samples[After(p)] # None
  BY <1>1, <1>2, DurationFacts
<1>4. samples[p] = sent[p] /\ samples[After(p)] = sent[After(p)]
  BY <1>1, <1>3 DEF TimeInv, SamplesWereSent
<1>5. QED BY <1>1, <1>3, <1>4 DEF TimeInv, SendInv, GatesOutside

\* No time is accounted for across a closed gate.
THEOREM GatesUncounted == Spec => []NoTimeWhileGated
<1>1. TimeInv => NoTimeWhileGated BY NotGated, TimeAssumption
<1>2. QED BY <1>1, TimeInductive, PTL

\* No moment is counted twice or while nothing was to be recorded.
THEOREM CountedTrue == Spec => []TimeCountedOnce
BY CountedOnce, GatesUncounted, PTL DEF TimeCountedOnce

-----------------------------------------------------------------------------
(***************************************************************************)
(* The daily roast.  A claim is spent before the model is asked, so that a *)
(* crash can only lose the roast, never repeat it; what the claims allow   *)
(* is counted in wipes.                                                    *)
(***************************************************************************)

Asking(d) == auto.at = "ask" /\ auto.day = d

\* What was asked, and is about to be, was claimed; an unclaimed day owes it to a wipe.
ClaimsCover ==
  \A d \in Days :
    attempts[d] + (IF Asking(d) THEN 1 ELSE 0) <= wiped + (IF d \in claims THEN 1 ELSE 0)

RoastType ==
  /\ today \in Int /\ wiped \in Nat /\ attempts \in [Days -> Nat]
  /\ auto \in [at : {"idle", "claim", "ask", "save"}, day : Int]

RoastInv == RoastType /\ ClaimsCover

\* The model is asked for a day of its own accord once, but for wipes.
THEOREM RoastedOnce == RoastSpec => []AttemptedOnce
<1>1. RoastInit => RoastInv
  BY DEF RoastInit, RoastInv, RoastType, ClaimsCover, Asking
<1>2. RoastInv /\ [RoastNext]_roastVars => RoastInv'
  <2>. SUFFICES ASSUME RoastInv, [RoastNext]_roastVars PROVE RoastInv'
    OBVIOUS
  <2>. USE DEF RoastInv, RoastType, ClaimsCover, Asking, AutoGoes
  <2>1. CASE LooksUp
    BY <2>1 DEF LooksUp
  <2>2. CASE Claims
    BY <2>2 DEF Claims
  <2>3. CASE Asks
    <3>1. auto.at = "ask" /\ auto'.at \in {"idle", "save"} /\ UNCHANGED <<today, claims, wiped>>
          /\ (attempts' = attempts \/ attempts' = [attempts EXCEPT ![auto.day] = @ + 1])
      BY <2>3 DEF Asks
    <3>2. RoastType'
      BY <2>3, <3>1 DEF Asks
    <3>. QED BY <3>1, <3>2
  <2>4. CASE Saves \/ RoasterDies
    <3>1. auto' = [auto EXCEPT !.at = "idle"] /\ UNCHANGED <<today, claims, wiped, attempts>>
      BY <2>4 DEF Saves, RoasterDies
    <3>. QED BY <3>1
  <2>5. CASE UserGets \/ DayTurns \/ \E d \in Days : UserAsks(d)
    BY <2>5 DEF UserGets, DayTurns, UserAsks
  <2>6. CASE WipesClaims
    BY <2>6 DEF WipesClaims
  <2>7. CASE UNCHANGED roastVars
    BY <2>7 DEF roastVars
  <2>. QED BY <2>1, <2>2, <2>3, <2>4, <2>5, <2>6, <2>7 DEF RoastNext
<1>3. RoastInv => AttemptedOnce
  BY DEF RoastInv, RoastType, ClaimsCover, AttemptedOnce
<1>. QED BY <1>1, <1>2, <1>3, PTL DEF RoastSpec

-----------------------------------------------------------------------------
(***************************************************************************)
(* The upgrade of the schema.  The version may be set back by a slower     *)
(* opening, but statements are never undone: what a version, or a place in *)
(* a script, stands for is in the schema for good.                         *)
(***************************************************************************)

\* What a place in an opening stands for.
NeedsAt(pc, v, i) ==
  CASE pc \in {"version", "fresh"} -> Made(1)
    [] pc = "script" -> MadeUpTo(v) \cup {<<v + 1, k>> : k \in 1 .. i - 1}
    [] pc = "open" -> MadeUpTo(Latest)
    [] OTHER -> {}

Needs(o) == NeedsAt(o.pc, o.v, o.i)

OpenerState ==
  [pc : {"closed", "failed", "version", "fresh", "script", "open"}, v : Nat, i : Nat]

\* A place in a script is one of its statements, or its end.
Placed(o) ==
  o.pc = "script" => o.v \in 1 .. Latest - 1 /\ o.i \in 1 .. Len(Scripts[o.v + 1]) + 1

MigrationType ==
  /\ version \in Nat /\ twins \in BOOLEAN /\ skipped \in BOOLEAN
  /\ opener \in [Openers -> OpenerState]
  /\ \A p \in Openers : Placed(opener[p])

\* Nothing but statements of the scripts was made, the unique index stands for an
\* end of the twins, and the version and every opening are vouched for.
SchemaSound ==
  /\ schema \subseteq MadeUpTo(Latest)
  /\ <<3, 4>> \in schema => ~twins
  /\ MadeUpTo(version) \subseteq schema
  /\ \A p \in Openers : Needs(opener[p]) \subseteq schema

MigrationInv == MigrationType /\ (~skipped => SchemaSound)

LEMMA ScriptFacts ==
  /\ DOMAIN Scripts = 1 .. Latest
  /\ \A k \in 1 .. Latest : Len(Scripts[k]) \in Nat \ {0} /\ DOMAIN Scripts[k] = 1 .. Len(Scripts[k])
  /\ Scripts[3] = <<"try", "try", "merge", "unique">>
  /\ Len(Scripts[1]) = 1
BY DEF Scripts, BaseScripts, BrowserScripts, SegmentScripts, LibraryScripts, SampleScript, Latest

LEMMA LengthFacts ==
  ASSUME NEW v \in 1 .. Latest - 1
  PROVE  /\ v \in Nat /\ v + 1 \in 1 .. Latest /\ v + 1 \in Nat
         /\ Len(Scripts[v + 1]) \in Nat \ {0}
<1>1. v \in Nat /\ v + 1 \in 1 .. Latest /\ v + 1 \in Nat
  BY DEF Latest
<1>2. \A k \in 1 .. Latest : Len(Scripts[k]) \in Nat \ {0}
  BY ScriptFacts
<1>. QED BY <1>1, <1>2

LEMMA MadeFacts ==
  /\ \A n \in Nat : MadeUpTo(n) \subseteq MadeUpTo(Latest)
  /\ MadeUpTo(0) = {} /\ MadeUpTo(1) = Made(1)
  /\ \A n \in 1 .. Latest - 1 : MadeUpTo(n + 1) = MadeUpTo(n) \cup Made(n + 1)
  /\ \A n \in 1 .. Latest : Made(n) = {<<n, k>> : k \in 1 .. Len(Scripts[n])}
  /\ \A n \in Nat : <<3, 4>> \in MadeUpTo(n) => n >= 3
<1>. DEFINE D == 1 .. Latest
<1>1. DOMAIN Scripts = D
  BY ScriptFacts
<1>2. \A n \in Nat : MadeUpTo(n) = UNION {Made(j) : j \in {j \in D : j <= n}}
  BY <1>1 DEF MadeUpTo
<1>3. \A n \in Nat : \A x : x \in MadeUpTo(n) <=> \E j \in D : j <= n /\ x \in Made(j)
  BY <1>2
<1>4. \A n \in 1 .. Latest : Made(n) = {<<n, k>> : k \in 1 .. Len(Scripts[n])}
  BY ScriptFacts DEF Made
<1>5. \A n \in Nat : MadeUpTo(n) \subseteq MadeUpTo(Latest)
  BY <1>3 DEF Latest
<1>6. MadeUpTo(0) = {} /\ MadeUpTo(1) = Made(1)
  BY <1>3 DEF Latest
<1>7. \A n \in 1 .. Latest - 1 : MadeUpTo(n + 1) = MadeUpTo(n) \cup Made(n + 1)
  <2>. SUFFICES ASSUME NEW n \in 1 .. Latest - 1, NEW x
                PROVE  x \in MadeUpTo(n + 1) <=> x \in MadeUpTo(n) \cup Made(n + 1)
    OBVIOUS
  <2>1. n \in Nat /\ n + 1 \in D /\ \A j \in D : j <= n + 1 <=> j <= n \/ j = n + 1
    BY DEF Latest
  <2>. QED BY <1>3, <2>1
<1>8. \A n \in Nat : <<3, 4>> \in MadeUpTo(n) => n >= 3
  BY <1>3, <1>4
<1>. QED BY <1>4, <1>5, <1>6, <1>7, <1>8

LEMMA NextMade ==
  ASSUME NEW v \in 1 .. Latest - 1
  PROVE  /\ MadeUpTo(v + 1) = MadeUpTo(v) \cup Made(v + 1)
         /\ Made(v + 1) = {<<v + 1, k>> : k \in 1 .. Len(Scripts[v + 1])}
         /\ MadeUpTo(v + 1) \subseteq MadeUpTo(Latest)
<1>1. v + 1 \in 1 .. Latest /\ v + 1 \in Nat
  BY LengthFacts
<1>2. \A n \in 1 .. Latest : Made(n) = {<<n, k>> : k \in 1 .. Len(Scripts[n])}
  BY MadeFacts
<1>3. \A n \in 1 .. Latest - 1 : MadeUpTo(n + 1) = MadeUpTo(n) \cup Made(n + 1)
  BY MadeFacts
<1>4. \A n \in Nat : MadeUpTo(n) \subseteq MadeUpTo(Latest)
  BY MadeFacts
<1>. QED BY <1>1, <1>2, <1>3, <1>4

\* A statement further on, a statement more.
LEMMA NextNeeds ==
  ASSUME NEW v, NEW i \in Int, i >= 1
  PROVE  NeedsAt("script", v, i + 1) \subseteq NeedsAt("script", v, i) \cup {<<v + 1, i>>}
<1>1. \A j : NeedsAt("script", v, j) = MadeUpTo(v) \cup {<<v + 1, k>> : k \in 1 .. j - 1}
  BY DEF NeedsAt
<1>2. \A k \in 1 .. (i + 1) - 1 : k = i \/ k \in 1 .. i - 1
  OBVIOUS
<1>. QED BY <1>1, <1>2

\* One opening takes a turn, the schema grows at most.
LEMMA TurnKept ==
  ASSUME MigrationType, ~skipped => SchemaSound, NEW p \in Openers,
         NEW st \in OpenerState, Placed(st), opener' = [opener EXCEPT ![p] = st],
         version' \in Nat, twins' \in BOOLEAN, skipped' \in BOOLEAN,
         ~skipped' => /\ ~skipped /\ schema \subseteq schema' /\ schema' \subseteq MadeUpTo(Latest)
                      /\ <<3, 4>> \in schema' => ~twins'
                      /\ MadeUpTo(version') \subseteq schema'
                      /\ Needs(st) \subseteq schema'
  PROVE  MigrationInv'
<1>1. \A q \in Openers : opener'[q] = IF q = p THEN st ELSE opener[q]
  BY DEF MigrationType
<1>2. MigrationType'
  BY <1>1 DEF MigrationType, Placed
<1>3. ASSUME ~skipped' PROVE SchemaSound'
  <2>1. \A q \in Openers : Needs(opener'[q]) \subseteq schema'
    BY <1>1, <1>3 DEF SchemaSound
  <2>. QED BY <1>3, <2>1 DEF SchemaSound, Needs, NeedsAt, MadeUpTo
<1>. QED BY <1>2, <1>3 DEF MigrationInv

\* The turns that leave the schema as it is.
LEMMA QuietTurnKept ==
  ASSUME MigrationInv, NEW p \in Openers,
         \/ ReadsVersion(p) \/ StampsFresh(p) \/ Stamps(p) \/ MeetsLock(p) \/ Killed(p) \/ Quits(p)
  PROVE  MigrationInv'
<1>. DEFINE failed == [NotOpen EXCEPT !.pc = "failed"]
            ran(v) == [pc |-> IF v = Latest THEN "open" ELSE "script", v |-> v, i |-> 1]
<1>1. \A x \in {NotOpen, failed} : x \in OpenerState /\ Placed(x) /\ Needs(x) = {}
  BY DEF NotOpen, OpenerState, Placed, Needs, NeedsAt
<1>2. ASSUME NEW v \in 1 .. Latest
      PROVE  ran(v) \in OpenerState /\ Placed(ran(v)) /\ Needs(ran(v)) = MadeUpTo(v)
  <2>1. ran(v) \in OpenerState /\ ran(v).v = v /\ ran(v).i = 1
        /\ ran(v).pc = IF v = Latest THEN "open" ELSE "script"
    BY DEF OpenerState, Latest
  <2>. HIDE DEF ran
  <2>2. v # Latest => v \in 1 .. Latest - 1 /\ Len(Scripts[v + 1]) \in Nat
    <3>1. v # Latest => v \in 1 .. Latest - 1
      BY DEF Latest
    <3>. QED BY <3>1, LengthFacts
  <2>3. {<<v + 1, k>> : k \in 1 .. 1 - 1} = {}
    OBVIOUS
  <2>. QED BY <2>1, <2>2, <2>3 DEF Placed, Needs, NeedsAt
<1>. HIDE DEF failed, ran
<1>3. MigrationType /\ (~skipped => SchemaSound) /\ opener[p] \in OpenerState /\ Placed(opener[p])
  BY DEF MigrationInv, MigrationType
<1>4. ~skipped => Needs(opener[p]) \subseteq schema
  BY DEF MigrationInv, SchemaSound
<1>5. CASE ReadsVersion(p)
  <2>0. UNCHANGED <<version, schema, twins, skipped>> /\ opener[p].pc = "version"
    BY <1>5 DEF ReadsVersion
  <2>1. CASE version = 0
    <3>. DEFINE fresh == [NotOpen EXCEPT !.pc = "fresh"]
    <3>1. fresh \in OpenerState /\ Placed(fresh) /\ Needs(fresh) = Needs(opener[p])
      BY <2>0 DEF NotOpen, OpenerState, Placed, Needs, NeedsAt
    <3>2. Turns(p, fresh)
      <4>. HIDE DEF fresh
      <4>1. (CASE version = 0 -> Turns(p, fresh)
               [] version > Latest -> Fails(p)
               [] OTHER -> Runs(p, version))
        BY <1>5 DEF ReadsVersion, fresh
      <4>. QED BY <4>1, <2>1 DEF Latest
    <3>. HIDE DEF fresh
    <3>3. opener' = [opener EXCEPT ![p] = fresh]
      BY <3>2 DEF Turns
    <3>. QED BY <1>3, <1>4, <2>0, <3>1, <3>3, TurnKept DEF MigrationType, SchemaSound
  <2>2. CASE version > Latest
    <3>1. opener' = [opener EXCEPT ![p] = failed]
      BY <1>5, <2>2 DEF ReadsVersion, Turns, Fails, failed, Latest
    <3>. QED BY <1>1, <1>3, <2>0, <3>1, TurnKept DEF MigrationType, SchemaSound
  <2>3. CASE version \in 1 .. Latest
    <3>1. opener' = [opener EXCEPT ![p] = ran(version)]
      BY <1>5, <2>3 DEF ReadsVersion, Turns, Runs, ran, Latest
    <3>. QED BY <1>2, <1>3, <2>0, <2>3, <3>1, TurnKept DEF MigrationType, SchemaSound
  <2>. QED BY <2>1, <2>2, <2>3, <1>3 DEF MigrationType, Latest
<1>6. CASE StampsFresh(p)
  <2>0. UNCHANGED <<schema, twins, skipped>> /\ opener[p].pc = "fresh"
    BY <1>6 DEF StampsFresh
  <2>1. CASE version = 0
    <3>1. opener' = [opener EXCEPT ![p] = ran(1)] /\ version' = 1
      BY <1>6, <2>1 DEF StampsFresh, Turns, Runs, ran
    <3>2. ~skipped => MadeUpTo(1) \subseteq schema
      BY <1>4, <2>0, MadeFacts DEF Needs, NeedsAt
    <3>3. 1 \in 1 .. Latest
      BY DEF Latest
    <3>. QED BY <1>2, <1>3, <2>0, <3>1, <3>2, <3>3, TurnKept DEF MigrationType, SchemaSound
  <2>2. CASE version # 0
    <3>1. opener' = [opener EXCEPT ![p] = failed] /\ version' = version
      BY <1>6, <2>2 DEF StampsFresh, Turns, Fails, failed
    <3>. QED BY <1>1, <1>3, <2>0, <3>1, TurnKept DEF MigrationType, SchemaSound
  <2>. QED BY <2>1, <2>2
<1>7. CASE Stamps(p)
  <2>. DEFINE n == opener[p].v + 1
  <2>0. UNCHANGED <<schema, twins, skipped>> /\ opener[p].pc = "script"
        /\ opener[p].i = Len(Scripts[n]) + 1 /\ version' = n /\ opener' = [opener EXCEPT ![p] = ran(n)]
    BY <1>7 DEF Stamps, InScript, Script, Turns, Runs, ran
  <2>1. opener[p].v \in 1 .. Latest - 1 /\ n \in 1 .. Latest /\ n \in Nat
        /\ opener[p].i - 1 = Len(Scripts[n])
    <3>1. opener[p].v \in 1 .. Latest - 1
      BY <1>3, <2>0 DEF Placed
    <3>2. n \in 1 .. Latest /\ n \in Nat /\ Len(Scripts[n]) \in Nat
      BY <3>1, LengthFacts
    <3>. HIDE DEF n
    <3>. QED BY <3>1, <3>2, <2>0
  <2>2. ~skipped => MadeUpTo(n) \subseteq schema
    <3>1. Needs(opener[p]) = MadeUpTo(opener[p].v) \cup {<<n, k>> : k \in 1 .. Len(Scripts[n])}
      BY <2>0, <2>1 DEF Needs, NeedsAt
    <3>2. MadeUpTo(n) = MadeUpTo(opener[p].v) \cup {<<n, k>> : k \in 1 .. Len(Scripts[n])}
      BY <2>1, NextMade
    <3>. QED BY <1>4, <3>1, <3>2
  <2>. HIDE DEF n
  <2>. QED BY <1>2, <1>3, <2>0, <2>1, <2>2, TurnKept DEF MigrationType, SchemaSound
<1>8. CASE MeetsLock(p)
  <2>0. UNCHANGED <<version, schema, twins>> /\ InScript(p) /\ opener[p].i <= Len(Scripts[Script(p)])
    BY <1>8 DEF MeetsLock
  <2>1. CASE opener' = [opener EXCEPT ![p] = failed] /\ skipped' = skipped
    BY <1>1, <1>3, <2>0, <2>1, TurnKept DEF MigrationType, SchemaSound
  <2>2. CASE opener' = [opener EXCEPT ![p].i = @ + 1] /\ skipped' = TRUE
    <3>. DEFINE st == [opener[p] EXCEPT !.i = @ + 1]
    <3>1. st \in OpenerState /\ st.pc = opener[p].pc /\ st.v = opener[p].v /\ st.i = opener[p].i + 1
      BY <1>3 DEF OpenerState
    <3>. HIDE DEF st
    <3>2. opener' = [opener EXCEPT ![p] = st]
      BY <2>2 DEF st, MigrationType
    <3>3. opener[p].v \in 1 .. Latest - 1 /\ opener[p].i \in Nat /\ Len(Scripts[opener[p].v + 1]) \in Nat
      <4>1. opener[p].v \in 1 .. Latest - 1 /\ opener[p].i \in Nat
        BY <1>3, <2>0 DEF InScript, Placed, OpenerState
      <4>. QED BY <4>1, LengthFacts
    <3>4. Placed(st)
      BY <1>3, <2>0, <3>1, <3>3 DEF InScript, Script, Placed
    <3>. QED BY <1>3, <2>0, <2>2, <3>1, <3>2, <3>4, TurnKept DEF MigrationType
  <2>. QED BY <1>8, <2>1, <2>2 DEF MeetsLock, NextStatement, Fails, Turns, failed
<1>9. CASE Killed(p) \/ Quits(p)
  <2>1. opener' = [opener EXCEPT ![p] = NotOpen] /\ UNCHANGED <<version, schema, twins, skipped>>
    BY <1>9 DEF Killed, Quits, Turns
  <2>. QED BY <1>1, <1>3, <2>1, TurnKept DEF MigrationType, SchemaSound
<1>. QED BY <1>5, <1>6, <1>7, <1>8, <1>9

\* The turns that make something.
LEMMA MakingTurnKept ==
  ASSUME MigrationInv, NEW p \in Openers, Begins(p) \/ Executes(p) \/ RunsLast(p)
  PROVE  MigrationInv'
<1>. DEFINE failed == [NotOpen EXCEPT !.pc = "failed"]
<1>1. failed \in OpenerState /\ Placed(failed) /\ Needs(failed) = {}
  BY DEF NotOpen, OpenerState, Placed, Needs, NeedsAt
<1>. HIDE DEF failed
<1>2. MigrationType /\ (~skipped => SchemaSound) /\ opener[p] \in OpenerState /\ Placed(opener[p])
  BY DEF MigrationInv, MigrationType
<1>3. ~skipped => Needs(opener[p]) \subseteq schema
  BY DEF MigrationInv, SchemaSound
<1>4. CASE Begins(p)
  <2>. DEFINE st == [NotOpen EXCEPT !.pc = "version"]
  <2>1. opener' = [opener EXCEPT ![p] = st] /\ schema' = schema \cup Made(1)
        /\ UNCHANGED <<version, twins, skipped>>
    BY <1>4 DEF Begins, Turns
  <2>2. st \in OpenerState /\ Placed(st) /\ Needs(st) = Made(1)
    BY DEF NotOpen, OpenerState, Placed, Needs, NeedsAt
  <2>3. Made(1) \subseteq MadeUpTo(Latest) /\ <<3, 4>> \notin Made(1)
    BY MadeFacts DEF Latest
  <2>. HIDE DEF st
  <2>. QED BY <1>2, <2>1, <2>2, <2>3, TurnKept DEF MigrationType, SchemaSound
<1>5. CASE Executes(p)
  <2>. DEFINE n == opener[p].v + 1
              object == <<n, opener[p].i>>
              statement == Scripts[n][opener[p].i]
              st == [opener[p] EXCEPT !.i = @ + 1]
  <2>0. opener[p].pc = "script" /\ opener[p].i <= Len(Scripts[n]) /\ n < Latest
        /\ UNCHANGED <<version, skipped>> /\ twins' = (twins /\ statement # "merge")
    BY <1>5 DEF Executes, InScript, Script
  <2>1. n \in 1 .. Latest /\ opener[p].i \in 1 .. Len(Scripts[n]) /\ Len(Scripts[n]) \in Nat
        /\ opener[p].v \in 1 .. Latest - 1
    <3>1. opener[p].v \in 1 .. Latest - 1 /\ opener[p].i \in 1 .. Len(Scripts[n]) + 1
      BY <1>2, <2>0 DEF Placed
    <3>2. n \in 1 .. Latest /\ Len(Scripts[n]) \in Nat
      BY <3>1, LengthFacts
    <3>. HIDE DEF n
    <3>. QED BY <3>1, <3>2, <2>0
  <2>2. st \in OpenerState /\ st.pc = "script" /\ st.v = opener[p].v /\ st.i = opener[p].i + 1
    BY <1>2, <2>0 DEF OpenerState
  <2>3. Placed(st)
    BY <2>1, <2>2 DEF Placed
  <2>4. Needs(st) \subseteq Needs(opener[p]) \cup {object}
    <3>. HIDE DEF st
    <3>1. Needs(st) = NeedsAt("script", opener[p].v, opener[p].i + 1)
          /\ Needs(opener[p]) = NeedsAt("script", opener[p].v, opener[p].i)
      BY <2>0, <2>2 DEF Needs
    <3>2. opener[p].i \in Int /\ opener[p].i >= 1
      BY <2>1
    <3>. QED BY <3>1, <3>2, NextNeeds
  <2>5. object \in MadeUpTo(Latest)
    <3>1. /\ Made(n) = {<<n, k>> : k \in 1 .. Len(Scripts[n])}
          /\ MadeUpTo(n) = MadeUpTo(opener[p].v) \cup Made(n)
          /\ MadeUpTo(n) \subseteq MadeUpTo(Latest)
      BY <2>1, NextMade
    <3>. QED BY <3>1, <2>1
  <2>6. \/ opener' = [opener EXCEPT ![p] = failed] /\ schema' = schema
        \/ /\ opener' = [opener EXCEPT ![p] = st] /\ schema' = schema \cup {object}
           /\ statement = "unique" /\ object \notin schema => ~twins
    BY <1>5 DEF Executes, Script, Fails, Turns, failed, NextStatement, MigrationType
  <2>7. object = <<3, 4>> => statement = "unique"
    BY ScriptFacts
  <2>. HIDE DEF st, n, object, statement
  <2>8. CASE opener' = [opener EXCEPT ![p] = failed] /\ schema' = schema
    BY <1>1, <1>2, <2>0, <2>8, TurnKept DEF MigrationType, SchemaSound
  <2>9. CASE /\ opener' = [opener EXCEPT ![p] = st] /\ schema' = schema \cup {object}
             /\ statement = "unique" /\ object \notin schema => ~twins
    <3>1. ~skipped => (<<3, 4>> \in schema' => ~twins')
      BY <1>2, <2>0, <2>7, <2>9 DEF SchemaSound
    <3>. QED BY <1>2, <1>3, <2>0, <2>2, <2>3, <2>4, <2>5, <2>9, <3>1, TurnKept DEF MigrationType, SchemaSound
  <2>. QED BY <2>6, <2>8, <2>9
<1>6. CASE RunsLast(p)
  <2>. DEFINE st == [pc |-> "open", v |-> Latest, i |-> 1]
  <2>0. opener[p].pc = "script" /\ opener[p].v + 1 = Latest /\ UNCHANGED <<twins, skipped>>
        /\ \/ /\ opener' = [opener EXCEPT ![p] = st]
              /\ schema' = schema \cup Made(Latest) /\ version' = Latest
           \/ opener' = [opener EXCEPT ![p] = failed] /\ UNCHANGED <<schema, version>>
    BY <1>6 DEF RunsLast, Script, Turns, Runs, Fails, failed
  <2>1. st \in OpenerState /\ Placed(st) /\ Needs(st) = MadeUpTo(Latest)
    BY DEF OpenerState, Placed, Needs, NeedsAt, Latest
  <2>. HIDE DEF st
  <2>2. opener[p].v = Latest - 1 /\ Latest - 1 \in 1 .. Latest - 1 /\ Latest \in Nat
    BY <1>2, <2>0 DEF OpenerState, Latest
  <2>3. MadeUpTo(Latest) = MadeUpTo(opener[p].v) \cup Made(Latest) /\ <<3, 4>> \notin Made(Latest)
    BY <2>2, MadeFacts DEF Latest
  <2>4. ~skipped => MadeUpTo(Latest) \subseteq schema \cup Made(Latest)
    BY <1>3, <2>0, <2>3 DEF Needs, NeedsAt
  <2>5. CASE /\ opener' = [opener EXCEPT ![p] = st]
             /\ schema' = schema \cup Made(Latest) /\ version' = Latest
    BY <1>2, <2>0, <2>1, <2>2, <2>3, <2>4, <2>5, TurnKept DEF MigrationType, SchemaSound
  <2>6. CASE opener' = [opener EXCEPT ![p] = failed] /\ UNCHANGED <<schema, version>>
    BY <1>1, <1>2, <2>0, <2>6, TurnKept DEF MigrationType, SchemaSound
  <2>. QED BY <2>0, <2>5, <2>6
<1>. QED BY <1>4, <1>5, <1>6

\* Whoever was let in has the whole schema, and no twins, however openings overlap
\* and whatever was killed on the way.
THEOREM ServedComplete == MigrationSpec => []ServedSchemaComplete
<1>1. MigrationInit => MigrationInv
  <2>. SUFFICES ASSUME MigrationInit PROVE MigrationInv
    OBVIOUS
  <2>1. \A p \in Openers : opener[p] = NotOpen
    BY DEF MigrationInit
  <2>2. NotOpen \in OpenerState /\ Placed(NotOpen) /\ Needs(NotOpen) = {}
    BY DEF NotOpen, OpenerState, Placed, Needs, NeedsAt
  <2>3. version \in Nat /\ schema = MadeUpTo(version) /\ (twins => version = 2) /\ twins \in BOOLEAN
    BY MigrationAssumption DEF MigrationInit, MigrationAssumption
  <2>4. MigrationType
    BY <2>2, <2>3 DEF MigrationInit, MigrationType
  <2>. QED BY <2>1, <2>2, <2>3, <2>4, MadeFacts DEF MigrationInv, SchemaSound
<1>2. MigrationInv /\ [MigrationNext]_migrationVars => MigrationInv'
  <2>1. ASSUME MigrationInv, UNCHANGED migrationVars PROVE MigrationInv'
    BY <2>1 DEF migrationVars, MigrationInv, MigrationType, SchemaSound
  <2>. QED BY <2>1, QuietTurnKept, MakingTurnKept DEF MigrationNext
<1>3. MigrationInv => ServedSchemaComplete
  <2>. SUFFICES ASSUME MigrationInv, NEW p \in Openers, opener[p].pc = "open", ~skipped
                PROVE  schema = MadeUpTo(Latest) /\ ~twins
    BY DEF ServedSchemaComplete
  <2>1. schema = MadeUpTo(Latest) /\ (<<3, 4>> \in schema => ~twins)
    BY DEF MigrationInv, SchemaSound, Needs, NeedsAt
  <2>2. <<3, 4>> \in MadeUpTo(Latest)
    <3>1. 2 \in 1 .. Latest - 1 /\ Len(Scripts[3]) = 4
      BY ScriptFacts DEF Latest
    <3>2. /\ MadeUpTo(2 + 1) = MadeUpTo(2) \cup Made(2 + 1)
          /\ MadeUpTo(2 + 1) \subseteq MadeUpTo(Latest)
          /\ Made(2 + 1) = {<<2 + 1, k>> : k \in 1 .. Len(Scripts[2 + 1])}
      BY <3>1, NextMade
    <3>3. 2 + 1 = 3 /\ 4 \in 1 .. 4
      OBVIOUS
    <3>. QED BY <3>1, <3>2, <3>3
  <2>. QED BY <2>1, <2>2
<1>. QED BY <1>1, <1>2, <1>3, PTL DEF MigrationSpec

-----------------------------------------------------------------------------
(***************************************************************************)
(* The history cards.  What the task holds of the cards while the mutex is *)
(* free stays true of the ready ones, as nothing but the task makes a card *)
(* ready; and every answer that is lost leaves a slot the next fold gives   *)
(* a card.                                                                 *)
(***************************************************************************)

Places == {"idle", "overlay", "digest", "write", "list", "narrate", "check"}

CardsType ==
  /\ slot \in Int /\ folded \subseteq Slots /\ texts \subseteq Slots
  /\ card \in [Slots -> StoredCards \cup {NoCard}]
  /\ job = [at |-> job.at, batch |-> job.batch]
  /\ job.at \in Places
  /\ DOMAIN job.batch \subseteq Slots
  /\ \A s \in DOMAIN job.batch : job.batch[s] \in StoredCards
  /\ answers \in [Slots -> Nat] /\ wipes \in Nat /\ crashes \in Nat

\* What the task read of a ready card is still so; what it is to tell is not ready.
FreshAt(at, batch) ==
  /\ at = "overlay" => \A s \in DOMAIN batch : batch[s] = FoldCard
  /\ at \in {"digest", "write"} =>
       \A s \in DOMAIN batch \cap Stored : card[s].status = "ready" => batch[s] = card[s]
  /\ at = "narrate" => \A s \in DOMAIN batch \cap Stored : card[s].status # "ready"
  /\ at = "check" => \A s \in DOMAIN batch \cap Stored :
       card[s] = batch[s] /\ card[s].status = "ready" /\ ~card[s].checked

BatchFresh == FreshAt(job.at, job.batch)

\* Slots that get a card by the next writing back.
DueAt(at, batch) ==
  IF at = "idle" THEN folded
  ELSE IF at \in {"overlay", "digest", "write"} THEN DOMAIN batch ELSE {}

\* How often the model may still be paid for a text of a slot, unless something
\* is wiped or dies.
ToPay(s) == IF card[s] # NoCard
            THEN IF card[s].status = "ready" THEN 0 ELSE 1
            ELSE IF s \in DueAt(job.at, job.batch) THEN 1 ELSE 2

Allowed == 2 * (1 + wipes) + crashes

\* A slot that was wiped while the task was to tell it is paid for once more.
PaidFor ==
  \A s \in Slots :
    /\ answers[s] + ToPay(s) <= Allowed
    /\ At("narrate") /\ s \in DOMAIN job.batch \ folded => answers[s] + ToPay(s) + 1 <= Allowed

\* The library has the workflows of the stored cards, and of those being written.
SkillsAt(at, batch) ==
  at \in {"overlay", "digest", "write"} =>
    \A s \in DOMAIN batch : batch[s].skills \subseteq (IF card[s] # NoCard THEN card[s].skills ELSE {})

SkillsKnown ==
  crashes = 0 /\ wipes = 0 =>
    /\ backfilled = ~starting
    /\ ~starting => \A s \in Stored : card[s].skills \subseteq promoted
    /\ SkillsAt(job.at, job.batch)

CardsInv == CardsType /\ BatchFresh /\ PaidFor /\ SkillsKnown

-----------------------------------------------------------------------------
(* What the cards are made of. *)

LEMMA CardFacts ==
  /\ NoCard \notin StoredCards /\ FoldCard \in StoredCards
  /\ FoldCard.status = "none" /\ FoldCard.skills = {}
  /\ ReadyCards \subseteq StoredCards
<1>2. FoldCard \in StoredCards /\ FoldCard.status = "none" /\ FoldCard.skills = {}
  BY DEF StoredCards, FoldCard
<1>3. ReadyCards \subseteq StoredCards
  BY DEF StoredCards, ReadyCards
<1>. QED BY <1>2, <1>3, CardsAssumption DEF CardsAssumption

LEMMA DigestFacts ==
  ASSUME NEW s, NEW c \in StoredCards
  PROVE  /\ Digest(s, c) \in StoredCards
         /\ c.status = "ready" => Digest(s, c) = c
         /\ Digest(s, c).status = "ready" => c.status = "ready"
         /\ Digest(s, c).skills = c.skills
<1>. DEFINE d == [c EXCEPT !.by = "digest", !.status = IF @ = "pending" THEN @ ELSE "extracted"]
<1>2. d \in StoredCards /\ d.status # "ready" /\ d.skills = c.skills
  BY DEF StoredCards
<1>3. Digest(s, c) = IF s \notin texts \/ c.status = "ready" THEN c ELSE d
  BY DEF Digest
<1>. QED BY <1>2, <1>3

LEMMA OverlayFacts ==
  ASSUME NEW c \in StoredCards \cup {NoCard}
  PROVE  /\ Overlay(FoldCard, c) \in StoredCards
         /\ c # NoCard /\ c.status = "ready" => Overlay(FoldCard, c) = c
         /\ Overlay(FoldCard, c).status = "ready" => c # NoCard /\ Overlay(FoldCard, c) = c
         /\ Overlay(FoldCard, c).skills \subseteq IF c # NoCard THEN c.skills ELSE {}
BY CardFacts DEF Overlay

LEMMA ShownFacts ==
  ASSUME CardsType, NEW s \in Slots
  PROVE  /\ Shown(s) \in StoredCards
         /\ card[s] # NoCard /\ card[s].status = "ready" => Shown(s).status = "ready"
         /\ Shown(s).status = "ready" => card[s] # NoCard /\ Shown(s) = card[s]
<1>. DEFINE c == Overlay(FoldCard, card[s])
<1>1. card[s] \in StoredCards \cup {NoCard}
  BY DEF CardsType
<1>2. /\ c \in StoredCards
      /\ card[s] # NoCard /\ card[s].status = "ready" => c = card[s]
      /\ c.status = "ready" => card[s] # NoCard /\ c = card[s]
  BY <1>1, OverlayFacts
<1>3. Digest(s, c) \in StoredCards /\ (Digest(s, c).status = "ready" => c.status = "ready")
  BY <1>2, DigestFacts
<1>4. Shown(s) = IF c.status = "ready" \/ (c.status # "none" /\ c.by # "fold") THEN c ELSE Digest(s, c)
  BY DEF Shown
<1>. HIDE DEF c
<1>. QED BY <1>2, <1>3, <1>4

LEMMA ToPayFacts ==
  ASSUME NEW s
  PROVE  /\ card[s] = NoCard => ToPay(s) \in {1, 2}
         /\ card[s] # NoCard => ToPay(s) \in {0, 1}
         /\ card[s] # NoCard /\ card[s].status # "ready" => ToPay(s) = 1
         /\ ToPay(s) \in {0, 1, 2}
BY DEF ToPay

-----------------------------------------------------------------------------
(* The steps. *)

\* The task reads, and nothing else changes.
LEMMA ReadKept ==
  ASSUME CardsInv, Keep, UNCHANGED card, NEW at \in Places, NEW batch,
         job' = [at |-> at, batch |-> batch],
         DOMAIN batch \subseteq Slots, \A s \in DOMAIN batch : batch[s] \in StoredCards,
         FreshAt(at, batch), DueAt(job.at, job.batch) \subseteq DueAt(at, batch) \cup Stored,
         at = "narrate" => DOMAIN batch \subseteq folded,
         crashes = 0 /\ wipes = 0 => SkillsAt(at, batch)
  PROVE  CardsInv'
<1>. USE DEF Keep
<1>1. job'.at = at /\ job'.batch = batch
  OBVIOUS
<1>2. CardsType'
  BY <1>1 DEF CardsInv, CardsType
<1>3. BatchFresh'
  BY <1>1 DEF BatchFresh, FreshAt, Stored
<1>4. PaidFor'
  <2>. SUFFICES ASSUME NEW s \in Slots
                PROVE  /\ answers[s] + ToPay(s)' <= Allowed
                       /\ At("narrate")' /\ s \in DOMAIN job'.batch \ folded =>
                            answers[s] + ToPay(s)' + 1 <= Allowed
    BY DEF PaidFor, Slots, Allowed
  <2>1. ~(At("narrate")' /\ s \in DOMAIN job'.batch \ folded)
    BY <1>1 DEF At
  <2>2. answers[s] + ToPay(s) <= Allowed /\ answers[s] \in Nat /\ Allowed \in Int
    BY DEF CardsInv, PaidFor, CardsType, Allowed
  <2>3. card[s] = NoCard /\ s \in DueAt(job.at, job.batch) => s \in DueAt(at, batch)
    BY DEF Stored
  <2>4. ToPay(s)' \in {0, 1, 2} /\ ToPay(s) \in {0, 1, 2} /\ ToPay(s)' <= ToPay(s)
    BY <1>1, <2>3 DEF ToPay, DueAt
  <2>. QED BY <2>1, <2>2, <2>4
<1>5. SkillsKnown'
  BY <1>1 DEF CardsInv, SkillsKnown, SkillsAt, Stored
<1>. QED BY <1>2, <1>3, <1>4, <1>5 DEF CardsInv

LEMMA ReadsKept ==
  ASSUME CardsInv, ReadsFold \/ ReadsStored \/ ReadsDocuments
  PROVE  CardsInv'
<1>0. CardsType /\ BatchFresh
  BY DEF CardsInv
<1>1. CASE ReadsFold
  <2>. DEFINE batch == Cards(folded, FoldCard)
  <2>1. DOMAIN batch = folded /\ \A s \in folded : batch[s] = FoldCard
    BY DEF Cards
  <2>2. job' = [at |-> "overlay", batch |-> batch] /\ Keep /\ UNCHANGED card /\ job.at = "idle"
    BY <1>1 DEF ReadsFold, At
  <2>. HIDE DEF batch
  <2>3. FreshAt("overlay", batch) /\ SkillsAt("overlay", batch)
    BY <2>1, CardFacts DEF FreshAt, SkillsAt
  <2>4. DueAt(job.at, job.batch) = folded /\ DueAt("overlay", batch) = folded
    BY <2>1, <2>2 DEF DueAt
  <2>. QED BY <1>0, <2>1, <2>2, <2>3, <2>4, CardFacts, ReadKept DEF CardsType, Places
<1>2. CASE ReadsStored
  <2>. DEFINE batch == [s \in DOMAIN job.batch |-> Overlay(job.batch[s], card[s])]
  <2>1. job' = [at |-> "digest", batch |-> batch] /\ Keep /\ UNCHANGED card /\ job.at = "overlay"
    BY <1>0, <1>2 DEF ReadsStored, At, CardsType
  <2>2. \A s \in DOMAIN job.batch : batch[s] = Overlay(FoldCard, card[s]) /\ card[s] \in StoredCards \cup {NoCard}
    BY <1>0, <2>1 DEF BatchFresh, FreshAt, CardsType
  <2>3. DOMAIN batch = DOMAIN job.batch
    OBVIOUS
  <2>. HIDE DEF batch
  <2>4. FreshAt("digest", batch)
    BY <2>2, <2>3, OverlayFacts DEF FreshAt, Stored
  <2>5. SkillsAt("digest", batch)
    BY <2>2, <2>3, OverlayFacts DEF SkillsAt
  <2>6. \A s \in DOMAIN batch : batch[s] \in StoredCards
    BY <2>2, <2>3, OverlayFacts
  <2>7. DueAt(job.at, job.batch) = DueAt("digest", batch)
    BY <2>1, <2>3 DEF DueAt
  <2>. QED BY <1>0, <2>1, <2>3, <2>4, <2>5, <2>6, <2>7, ReadKept DEF CardsType, Places
<1>3. CASE ReadsDocuments
  <2>. DEFINE batch == [s \in DOMAIN job.batch |-> Digest(s, job.batch[s])]
  <2>1. job' = [at |-> "write", batch |-> batch] /\ Keep /\ UNCHANGED card /\ job.at = "digest"
    BY <1>0, <1>3 DEF ReadsDocuments, At, CardsType
  <2>2. \A s \in DOMAIN job.batch : batch[s] = Digest(s, job.batch[s]) /\ job.batch[s] \in StoredCards
    BY <1>0 DEF CardsType
  <2>3. DOMAIN batch = DOMAIN job.batch
    OBVIOUS
  <2>. HIDE DEF batch
  <2>4. FreshAt("write", batch)
    BY <1>0, <2>1, <2>2, <2>3, DigestFacts DEF BatchFresh, FreshAt, Stored
  <2>5. crashes = 0 /\ wipes = 0 => SkillsAt("write", batch)
    BY <2>1, <2>2, <2>3, DigestFacts DEF CardsInv, SkillsKnown, SkillsAt
  <2>6. \A s \in DOMAIN batch : batch[s] \in StoredCards
    BY <2>2, <2>3, DigestFacts
  <2>7. DueAt(job.at, job.batch) = DueAt("write", batch)
    BY <2>1, <2>3 DEF DueAt
  <2>. QED BY <1>0, <2>1, <2>3, <2>4, <2>5, <2>6, <2>7, ReadKept DEF CardsType, Places
<1>. QED BY <1>1, <1>2, <1>3

LEMMA ListsKept ==
  ASSUME CardsInv, ListsPending \/ ListsUnchecked \/ NothingToCheck
  PROVE  CardsInv'
<1>0. CardsType
  BY DEF CardsInv
<1>1. job.at \in {"list", "narrate", "check"} /\ Keep /\ UNCHANGED card
  BY DEF ListsPending, ListsUnchecked, NothingToCheck, At
<1>2. DueAt(job.at, job.batch) = {}
  BY <1>1 DEF DueAt
<1>3. CASE job' = NoJob
  BY <1>1, <1>2, <1>3, ReadKept DEF NoJob, NoCards, FreshAt, SkillsAt, Places
<1>4. ASSUME NEW at \in {"narrate", "check"}, NEW S \in SUBSET folded,
             job' = [at |-> at, batch |-> [s \in S |-> Shown(s)]],
             \A s \in S : /\ at = "narrate" => Shown(s).status # "ready"
                          /\ at = "check" => Shown(s).status = "ready" /\ ~Shown(s).checked
      PROVE  CardsInv'
  <2>. DEFINE batch == [s \in S |-> Shown(s)]
  <2>1. DOMAIN batch = S /\ (\A s \in S : batch[s] = Shown(s)) /\ S \subseteq Slots
    BY <1>0 DEF CardsType
  <2>2. job' = [at |-> at, batch |-> batch] /\ at \in Places
    BY <1>4 DEF Places
  <2>. HIDE DEF batch
  <2>3. \A s \in S : batch[s] \in StoredCards
    BY <1>0, <2>1, ShownFacts
  <2>4. FreshAt(at, batch)
    BY <1>0, <1>4, <2>1, ShownFacts DEF FreshAt, Stored
  <2>5. SkillsAt(at, batch)
    BY DEF SkillsAt
  <2>. QED BY <1>1, <1>2, <2>1, <2>2, <2>3, <2>4, <2>5, ReadKept
<1>5. CASE ListsPending /\ job' # NoJob
  <2>. DEFINE P == {s \in folded : IsClosed(s) /\ Shown(s).status \notin {"ready", "pending"}}
              S == NewestOf(P, PerTick)
  <2>1. S \subseteq P /\ job' = [at |-> "narrate", batch |-> [s \in S |-> Shown(s)]]
    BY <1>5 DEF ListsPending, NewestOf
  <2>. HIDE DEF S
  <2>. QED BY <1>4, <2>1
<1>6. CASE ListsUnchecked
  <2>. DEFINE P == {s \in folded : IsClosed(s) /\ Shown(s).status = "ready" /\ ~Shown(s).checked}
              S == NewestOf(P, 1)
  <2>1. S \subseteq P /\ job' = [at |-> "check", batch |-> [s \in S |-> Shown(s)]]
    BY <1>6 DEF ListsUnchecked, NewestOf
  <2>. HIDE DEF S
  <2>. QED BY <1>4, <2>1
<1>7. CASE NothingToCheck
  BY <1>3, <1>7 DEF NothingToCheck
<1>. QED BY <1>3, <1>5, <1>6, <1>7

\* What is written back, were it a part only: a ready card stays what it is.
LEMMA WrittenFacts ==
  ASSUME CardsInv, At("write"), NEW S \in SUBSET DOMAIN job.batch
  PROVE  /\ WrittenBack(S) \in [Slots -> StoredCards \cup {NoCard}]
         /\ \A s \in S : WrittenBack(S)[s] # NoCard /\ WrittenBack(S)[s] = job.batch[s]
         /\ \A s \in Slots \ S : WrittenBack(S)[s] = card[s]
         /\ \A s \in Stored : /\ WrittenBack(S)[s] # NoCard
                              /\ card[s].status = "ready" => WrittenBack(S)[s] = card[s]
<1>1. S \subseteq Slots /\ \A s \in S : job.batch[s] \in StoredCards /\ job.batch[s] # NoCard
  BY CardFacts DEF CardsInv, CardsType
<1>2. /\ WrittenBack(S) = [s \in Slots |-> IF s \in S THEN job.batch[s] ELSE card[s]]
      /\ card \in [Slots -> StoredCards \cup {NoCard}]
  BY DEF WrittenBack, CardsInv, CardsType
<1>3. \A s \in S \cap Stored : card[s].status = "ready" => job.batch[s] = card[s]
  BY DEF CardsInv, BatchFresh, FreshAt, At
<1>. QED BY <1>1, <1>2, <1>3 DEF Stored

\* The task is done with a card: it goes on with the others, or is done.
LEMMA WithoutFacts ==
  ASSUME CardsType, NEW s \in DOMAIN job.batch, job' = NoJob \/ job' = Without(s)
  PROVE  /\ job' = [at |-> job'.at, batch |-> job'.batch]
         /\ \/ job'.at = "idle" /\ DOMAIN job'.batch = {}
            \/ /\ job'.at = job.at /\ DOMAIN job'.batch = DOMAIN job.batch \ {s}
               /\ \A t \in DOMAIN job'.batch : job'.batch[t] = job.batch[t]
<1>1. CASE job' = NoJob
  BY <1>1 DEF NoJob, NoCards
<1>2. CASE job' = Without(s)
  <2>. DEFINE batch == [t \in DOMAIN job.batch \ {s} |-> job.batch[t]]
  <2>1. job = [at |-> job.at, batch |-> job.batch]
    BY DEF CardsType
  <2>2. DOMAIN batch = DOMAIN job.batch \ {s} /\ \A t \in DOMAIN batch : batch[t] = job.batch[t]
    OBVIOUS
  <2>3. job' = [job EXCEPT !.batch = batch]
    BY <1>2 DEF Without
  <2>. HIDE DEF batch
  <2>4. job' = [at |-> job.at, batch |-> batch]
    BY <2>1, <2>3
  <2>. QED BY <2>2, <2>4
<1>. QED BY <1>1, <1>2

LEMMA WritesBackKept ==
  ASSUME CardsInv, WritesBack
  PROVE  CardsInv'
<1>. DEFINE D == DOMAIN job.batch
<1>1. /\ At("write") /\ card' = WrittenBack(D) /\ Keep
      /\ job' = [at |-> "list", batch |-> NoCards]
      /\ CardsType /\ PaidFor /\ SkillsKnown
  BY DEF WritesBack, NoJob, CardsInv
<1>2. /\ card' \in [Slots -> StoredCards \cup {NoCard}]
      /\ \A s \in D : card'[s] # NoCard /\ card'[s] = job.batch[s]
      /\ \A s \in Slots \ D : card'[s] = card[s]
      /\ \A s \in Stored : card'[s] # NoCard /\ (card[s].status = "ready" => card'[s] = card[s])
  BY <1>1, WrittenFacts
<1>3. job'.at = "list" /\ job'.batch = NoCards /\ DOMAIN NoCards = {}
  BY <1>1 DEF NoCards
<1>. HIDE DEF D
<1>4. CardsType'
  BY <1>1, <1>2, <1>3 DEF CardsType, Places, Keep, Slots
<1>5. BatchFresh'
  BY <1>3 DEF BatchFresh, FreshAt
<1>6. PaidFor'
  <2>. SUFFICES ASSUME NEW s \in Slots PROVE answers[s] + ToPay(s)' <= Allowed
    BY <1>1, <1>3 DEF PaidFor, Slots, Allowed, At, Keep
  <2>1. answers[s] + ToPay(s) <= Allowed /\ answers[s] \in Nat /\ Allowed \in Int
    BY <1>1 DEF PaidFor, CardsType, Allowed
  <2>2. ToPay(s)' \in {0, 1, 2} /\ ToPay(s) \in {0, 1, 2} /\ ToPay(s)' <= ToPay(s)
    BY <1>1, <1>2, <1>3 DEF ToPay, DueAt, D, At, Stored
  <2>. QED BY <2>1, <2>2
<1>7. SkillsKnown'
  <2>. SUFFICES ASSUME crashes = 0, wipes = 0
                PROVE  /\ backfilled = ~starting
                       /\ ~starting => \A s \in Stored' : card'[s].skills \subseteq promoted
    BY <1>1, <1>3 DEF SkillsKnown, SkillsAt, Keep
  <2>1. \A s \in D : job.batch[s].skills \subseteq (IF card[s] # NoCard THEN card[s].skills ELSE {})
    BY <1>1 DEF SkillsKnown, SkillsAt, At, D
  <2>. QED BY <1>1, <1>2, <2>1 DEF SkillsKnown, Stored, Slots, D
<1>. QED BY <1>4, <1>5, <1>6, <1>7 DEF CardsInv

\* One card is told or checked, or its narrative fails.
LEMMA CardToldKept ==
  ASSUME CardsInv, NEW s \in DOMAIN job.batch, NEW c \in StoredCards,
         job.at \in {"narrate", "check"}, card[s] # NoCard, card' = [card EXCEPT ![s] = c],
         \/ job' = NoJob
         \/ /\ job.at = "narrate" /\ job' = Without(s),
         UNCHANGED <<slot, folded, texts, backfilled, starting, wipes, crashes>>,
         promoted \subseteq promoted', c.skills \subseteq promoted' \/ c.skills = card[s].skills,
         answers' \in [Slots -> Nat],
         \A t \in Slots \ {s} : answers'[t] = answers[t],
         \/ answers'[s] = answers[s] /\ (card[s].status = "ready" => c.status = "ready")
         \/ answers'[s] = answers[s] + 1 /\ card[s].status # "ready" /\ c.status = "ready"
  PROVE  CardsInv'
<1>0. CardsType /\ BatchFresh /\ PaidFor /\ SkillsKnown
  BY DEF CardsInv
<1>1. s \in Slots /\ c # NoCard
  BY <1>0, CardFacts DEF CardsType
<1>2. /\ card' \in [Slots -> StoredCards \cup {NoCard}]
      /\ \A t \in Slots : card'[t] = IF t = s THEN c ELSE card[t]
  BY <1>0, <1>1 DEF CardsType
<1>3. /\ job' = [at |-> job'.at, batch |-> job'.batch]
      /\ \/ job'.at = "idle" /\ DOMAIN job'.batch = {}
         \/ /\ job.at = "narrate" /\ job'.at = "narrate" /\ DOMAIN job'.batch = DOMAIN job.batch \ {s}
            /\ \A t \in DOMAIN job'.batch : job'.batch[t] = job.batch[t]
  <2>1. CASE job' = NoJob
    BY <1>0, <2>1, WithoutFacts DEF NoJob, NoCards
  <2>2. CASE job.at = "narrate" /\ job' = Without(s)
    <3>1. job' = Without(s)
      BY <2>2
    <3>2. /\ job' = [at |-> job'.at, batch |-> job'.batch]
          /\ \/ job'.at = "idle" /\ DOMAIN job'.batch = {}
             \/ /\ job'.at = job.at /\ DOMAIN job'.batch = DOMAIN job.batch \ {s}
                /\ \A t \in DOMAIN job'.batch : job'.batch[t] = job.batch[t]
      BY <1>0, <3>1, WithoutFacts
    <3>. QED BY <2>2, <3>2
  <2>. QED BY <2>1, <2>2
<1>4. CardsType'
  BY <1>0, <1>2, <1>3 DEF CardsType, Places, Slots
<1>5. BatchFresh'
  BY <1>0, <1>1, <1>2, <1>3 DEF BatchFresh, FreshAt, Stored, Slots
<1>6. PaidFor'
  <2>. SUFFICES ASSUME NEW t \in Slots
                PROVE  /\ answers'[t] + ToPay(t)' <= Allowed
                       /\ At("narrate")' /\ t \in DOMAIN job'.batch \ folded =>
                            answers'[t] + ToPay(t)' + 1 <= Allowed
    BY DEF PaidFor, Slots, Allowed
  <2>1. /\ answers[t] + ToPay(t) <= Allowed /\ answers[t] \in Nat /\ Allowed \in Int
        /\ job.at = "narrate" /\ t \in DOMAIN job.batch \ folded => answers[t] + ToPay(t) + 1 <= Allowed
    BY <1>0 DEF PaidFor, CardsType, Allowed, At
  <2>2. ToPay(t)' \in {0, 1, 2} /\ ToPay(t) \in {0, 1, 2}
    BY DEF ToPay
  <2>3. CASE t = s
    <3>1. t \notin DOMAIN job'.batch
      BY <1>3, <2>3
    <3>2. answers'[t] + ToPay(t)' <= answers[t] + ToPay(t)
      BY <1>1, <1>2, <2>1, <2>3 DEF ToPay
    <3>. QED BY <2>1, <2>2, <3>1, <3>2
  <2>4. CASE t # s
    <3>1. ToPay(t)' <= ToPay(t)
      BY <1>2, <1>3, <2>4 DEF ToPay, DueAt
    <3>2. At("narrate")' /\ t \in DOMAIN job'.batch => job.at = "narrate" /\ t \in DOMAIN job.batch
      BY <1>3 DEF At, NoJob
    <3>. QED BY <2>1, <2>2, <2>4, <3>1, <3>2
  <2>. QED BY <2>3, <2>4
<1>7. SkillsKnown'
  BY <1>0, <1>1, <1>2, <1>3 DEF SkillsKnown, SkillsAt, Stored, Slots
<1>. QED BY <1>4, <1>5, <1>6, <1>7 DEF CardsInv

\* A card that is gone: the answer, if there was one, is lost.
LEMMA CardLostKept ==
  ASSUME CardsInv, NEW s \in DOMAIN job.batch, UNCHANGED card,
         UNCHANGED <<slot, folded, texts, promoted, backfilled, starting, wipes, crashes>>,
         answers' \in [Slots -> Nat], \A t \in Slots \ {s} : answers'[t] = answers[t],
         \/ /\ answers'[s] = answers[s] /\ job.at \in {"narrate", "check"}
            /\ job' = NoJob \/ (job.at = "narrate" /\ job' = Without(s))
         \/ answers'[s] = answers[s] + 1 /\ job.at = "narrate" /\ job' = NoJob /\ card[s] = NoCard
  PROVE  CardsInv'
<1>0. CardsType /\ BatchFresh /\ PaidFor /\ SkillsKnown
  BY DEF CardsInv
<1>1. /\ job' = [at |-> job'.at, batch |-> job'.batch]
      /\ \/ job'.at = "idle" /\ DOMAIN job'.batch = {}
         \/ /\ job.at = "narrate" /\ job'.at = "narrate" /\ DOMAIN job'.batch = DOMAIN job.batch \ {s}
            /\ \A t \in DOMAIN job'.batch : job'.batch[t] = job.batch[t]
  <2>1. CASE job' = NoJob
    BY <1>0, <2>1, WithoutFacts DEF NoJob, NoCards
  <2>2. CASE job.at = "narrate" /\ job' = Without(s)
    <3>1. job' = Without(s)
      BY <2>2
    <3>2. /\ job' = [at |-> job'.at, batch |-> job'.batch]
          /\ \/ job'.at = "idle" /\ DOMAIN job'.batch = {}
             \/ /\ job'.at = job.at /\ DOMAIN job'.batch = DOMAIN job.batch \ {s}
                /\ \A t \in DOMAIN job'.batch : job'.batch[t] = job.batch[t]
      BY <1>0, <3>1, WithoutFacts
    <3>. QED BY <2>2, <3>2
  <2>. QED BY <2>1, <2>2
<1>2. CardsType'
  BY <1>0, <1>1 DEF CardsType, Places, Slots
<1>3. BatchFresh'
  BY <1>0, <1>1 DEF BatchFresh, FreshAt, Stored, Slots
<1>4. PaidFor'
  <2>. SUFFICES ASSUME NEW t \in Slots
                PROVE  /\ answers'[t] + ToPay(t)' <= Allowed
                       /\ At("narrate")' /\ t \in DOMAIN job'.batch \ folded =>
                            answers'[t] + ToPay(t)' + 1 <= Allowed
    BY DEF PaidFor, Slots, Allowed
  <2>1. /\ answers[t] + ToPay(t) <= Allowed /\ answers[t] \in Nat /\ Allowed \in Int
        /\ job.at = "narrate" /\ t \in DOMAIN job.batch \ folded => answers[t] + ToPay(t) + 1 <= Allowed
    BY <1>0 DEF PaidFor, CardsType, Allowed, At
  <2>2. ToPay(t)' \in {0, 1, 2} /\ ToPay(t) \in {0, 1, 2} /\ ToPay(t)' <= ToPay(t)
    BY <1>1 DEF ToPay, DueAt
  <2>3. At("narrate")' /\ t \in DOMAIN job'.batch =>
          job.at = "narrate" /\ t \in DOMAIN job.batch /\ t # s
    BY <1>1 DEF At
  <2>4. CASE answers'[t] = answers[t]
    BY <2>1, <2>2, <2>3, <2>4
  <2>5. CASE answers'[t] # answers[t]
    <3>1. t = s /\ answers'[s] = answers[s] + 1 /\ job.at = "narrate" /\ job' = NoJob /\ card[s] = NoCard
      BY <2>5
    <3>2. ToPay(t) = 2 /\ ToPay(t)' = IF t \in folded THEN 1 ELSE 2
      BY <3>1 DEF ToPay, DueAt, NoJob
    <3>3. ~At("narrate")'
      BY <3>1 DEF At, NoJob
    <3>. QED BY <2>1, <3>1, <3>2, <3>3
  <2>. QED BY <2>4, <2>5
<1>5. SkillsKnown'
  BY <1>0, <1>1 DEF SkillsKnown, SkillsAt, Stored, Slots
<1>. QED BY <1>2, <1>3, <1>4, <1>5 DEF CardsInv

LEMMA AnswersKept ==
  ASSUME CardsInv, NEW s \in Slots, Answers(s) \/ Declines(s) \/ Checks(s)
  PROVE  CardsInv'
<1>0. CardsType /\ BatchFresh
  BY DEF CardsInv
<1>1. s \in DOMAIN job.batch /\ job.batch[s] \in StoredCards /\ answers[s] \in Nat
  BY <1>0 DEF Answers, Declines, Checks, Next1, CardsType
<1>2. CASE Answers(s)
  <2>1. job.at = "narrate" /\ answers' = [answers EXCEPT ![s] = @ + 1]
        /\ UNCHANGED <<slot, folded, texts, backfilled, starting, wipes, crashes>>
    BY <1>2 DEF Answers, At
  <2>2. answers' \in [Slots -> Nat] /\ answers'[s] = answers[s] + 1
        /\ \A t \in Slots \ {s} : answers'[t] = answers[t]
    BY <1>0, <1>1, <2>1 DEF CardsType
  <2>3. CASE card[s] = NoCard /\ job' = NoJob /\ UNCHANGED <<card, promoted>>
    BY <1>1, <2>1, <2>2, <2>3, CardLostKept
  <2>4. ASSUME NEW named \in {{}} \cup {{k} : k \in Workflows},
               Applies(s, "ready", "model", named), job' = Without(s)
        PROVE  CardsInv'
    <3>. DEFINE c == [status |-> "ready", by |-> "model", skills |-> named, checked |-> TRUE]
    <3>1. c \in StoredCards /\ c.status = "ready" /\ c.skills = named
      BY DEF StoredCards
    <3>2. card[s] # NoCard /\ card' = [card EXCEPT ![s] = c] /\ promoted' = promoted \cup named
      BY <2>4 DEF Applies
    <3>3. card[s].status # "ready"
      BY <1>0, <1>1, <2>1, <3>2 DEF BatchFresh, FreshAt, Stored
    <3>. HIDE DEF c
    <3>. QED BY <1>1, <2>1, <2>2, <2>4, <3>1, <3>2, <3>3, CardToldKept
  <2>. QED BY <1>2, <2>3, <2>4 DEF Answers
<1>3. CASE Declines(s)
  <2>1. job.at = "narrate" /\ job' = Without(s) /\ Keep
    BY <1>3 DEF Declines, At
  <2>2. CASE card[s] = NoCard
    BY <1>0, <1>1, <1>3, <2>1, <2>2, CardLostKept DEF Declines, Keep, CardsType
  <2>3. CASE card[s] # NoCard
    <3>. DEFINE c == [card[s] EXCEPT !.status = "failed", !.by = job.batch[s].by]
    <3>1. card[s] \in StoredCards /\ card[s].status # "ready"
      BY <1>0, <1>1, <2>1, <2>3 DEF CardsType, BatchFresh, FreshAt, Stored
    <3>2. c \in StoredCards /\ c.skills = card[s].skills
      BY <1>1, <3>1 DEF StoredCards
    <3>3. card' = [card EXCEPT ![s].status = "failed", ![s].by = job.batch[s].by]
      BY <1>3, <2>3 DEF Declines
    <3>4. card' = [card EXCEPT ![s] = c]
      BY <1>0, <3>3 DEF CardsType
    <3>. HIDE DEF c
    <3>. QED BY <1>0, <1>1, <2>1, <2>3, <3>1, <3>2, <3>4, CardToldKept DEF Keep, CardsType
  <2>. QED BY <2>2, <2>3
<1>4. CASE Checks(s)
  <2>1. job.at = "check" /\ job' = NoJob
        /\ UNCHANGED <<slot, folded, texts, backfilled, starting, answers, wipes, crashes>>
    BY <1>4 DEF Checks, At
  <2>2. CASE card[s] = NoCard /\ UNCHANGED <<card, promoted>>
    BY <1>0, <1>1, <2>1, <2>2, CardLostKept DEF CardsType
  <2>3. ASSUME NEW named \in {{}} \cup {{k} : k \in Workflows},
               Applies(s, "ready", job.batch[s].by, named)
        PROVE  CardsInv'
    <3>. DEFINE c == [status |-> "ready", by |-> job.batch[s].by, skills |-> named, checked |-> TRUE]
    <3>1. c \in StoredCards /\ c.status = "ready" /\ c.skills = named
      BY <1>1 DEF StoredCards
    <3>2. card[s] # NoCard /\ card' = [card EXCEPT ![s] = c] /\ promoted' = promoted \cup named
      BY <2>3 DEF Applies
    <3>. HIDE DEF c
    <3>. QED BY <1>0, <1>1, <2>1, <3>1, <3>2, CardToldKept DEF CardsType
  <2>. QED BY <1>4, <2>2, <2>3 DEF Checks
<1>. QED BY <1>2, <1>3, <1>4

\* The process beside the task.
LEMMA AroundKept ==
  ASSUME CardsInv, Backfill \/ SlotCloses \/ \E s \in Slots : Records(s) \/ SeesText(s)
  PROVE  CardsInv'
<1>0. CardsType /\ BatchFresh /\ PaidFor /\ SkillsKnown
  BY DEF CardsInv
<1>1. UNCHANGED <<card, job, answers, wipes, crashes>> /\ folded \subseteq folded'
  BY DEF Backfill, SlotCloses, Records, SeesText
<1>2. CardsType'
  BY <1>0 DEF CardsType, Slots, Backfill, SlotCloses, Records, SeesText
<1>3. BatchFresh'
  BY <1>0, <1>1 DEF BatchFresh, FreshAt, Stored
<1>4. PaidFor'
  <2>. SUFFICES ASSUME NEW s \in Slots
                PROVE  /\ answers[s] + ToPay(s)' <= Allowed
                       /\ job.at = "narrate" /\ s \in DOMAIN job.batch \ folded' =>
                            answers[s] + ToPay(s)' + 1 <= Allowed
    BY <1>1 DEF PaidFor, Slots, Allowed, At
  <2>1. /\ answers[s] + ToPay(s) <= Allowed /\ answers[s] \in Nat /\ Allowed \in Int
        /\ job.at = "narrate" /\ s \in DOMAIN job.batch \ folded => answers[s] + ToPay(s) + 1 <= Allowed
    BY <1>0 DEF PaidFor, CardsType, Allowed, At
  <2>2. ToPay(s)' \in {0, 1, 2} /\ ToPay(s) \in {0, 1, 2} /\ ToPay(s)' <= ToPay(s)
    BY <1>1 DEF ToPay, DueAt
  <2>. QED BY <1>1, <2>1, <2>2
<1>5. SkillsKnown'
  <2>1. CASE Backfill
    BY <1>0, <1>1, <2>1 DEF SkillsKnown, SkillsAt, Stored, Backfill, Slots
  <2>2. CASE UNCHANGED <<promoted, backfilled, starting>>
    BY <1>0, <1>1, <2>2 DEF SkillsKnown, SkillsAt, Stored, Slots
  <2>. QED BY <2>1, <2>2 DEF SlotCloses, Records, SeesText
<1>. QED BY <1>2, <1>3, <1>4, <1>5 DEF CardsInv

LEMMA WipesKept ==
  ASSUME CardsInv, WipesCards
  PROVE  CardsInv'
<1>0. CardsType /\ PaidFor
  BY DEF CardsInv
<1>1. /\ card' = [s \in Slots |-> NoCard] /\ folded' = {} /\ texts' = {} /\ wipes' = wipes + 1
      /\ UNCHANGED <<slot, job, promoted, starting, answers, crashes>>
  BY DEF WipesCards
<1>2. CardsType'
  BY <1>0, <1>1 DEF CardsType, Slots
<1>3. Stored' = {}
  BY <1>1 DEF Stored, Slots
<1>4. BatchFresh'
  <2>1. At("overlay") => \A s \in DOMAIN job.batch : job.batch[s] = FoldCard
    BY DEF CardsInv, BatchFresh, FreshAt, At
  <2>. QED BY <1>1, <1>3, <2>1 DEF BatchFresh, FreshAt, At
<1>5. PaidFor'
  <2>. SUFFICES ASSUME NEW s \in Slots
                PROVE  /\ answers[s] + ToPay(s)' <= Allowed'
                       /\ job.at = "narrate" /\ s \in DOMAIN job.batch => answers[s] + ToPay(s)' + 1 <= Allowed'
    BY <1>1 DEF PaidFor, Slots, At
  <2>1. /\ answers[s] + ToPay(s) <= Allowed /\ answers[s] \in Nat /\ Allowed \in Int /\ Allowed' = Allowed + 2
    BY <1>0, <1>1 DEF PaidFor, CardsType, Allowed
  <2>2. ToPay(s)' \in {0, 1, 2} /\ ToPay(s) \in {0, 1, 2}
    BY DEF ToPay
  <2>3. job.at = "narrate" /\ s \in DOMAIN job.batch => ToPay(s) >= 1
    BY DEF CardsInv, BatchFresh, FreshAt, ToPay, Stored, DueAt
  <2>. QED BY <2>1, <2>2, <2>3
<1>6. SkillsKnown'
  <2>1. wipes' # 0
    BY <1>0, <1>1 DEF CardsType
  <2>. QED BY <2>1 DEF SkillsKnown
<1>. QED BY <1>2, <1>4, <1>5, <1>6 DEF CardsInv

\* What a crash leaves of a step of the task.
LEMMA DiesFacts ==
  ASSUME CardsInv, DaemonDies
  PROVE  /\ card' \in [Slots -> StoredCards \cup {NoCard}]
         /\ \A s \in Stored : card'[s] # NoCard /\ (card[s].status = "ready" => card'[s] = card[s])
         /\ answers' \in [Slots -> Nat]
         /\ \A s \in Slots : \/ answers'[s] = answers[s]
                             \/ answers'[s] = answers[s] + 1 /\ card'[s] = card[s] /\ card[s] # NoCard
<1>0. CardsType
  BY DEF CardsInv
<1>1. CASE UNCHANGED <<card, answers>>
  BY <1>0, <1>1 DEF CardsType, Stored
<1>2. CASE At("write") /\ (\E S \in SUBSET DOMAIN job.batch : card' = WrittenBack(S)) /\ UNCHANGED answers
  BY <1>0, <1>2, WrittenFacts DEF CardsType
<1>3. ASSUME NEW s \in DOMAIN job.batch, card[s] # NoCard, UNCHANGED card,
             answers' = [answers EXCEPT ![s] = @ + 1]
      PROVE  /\ answers' \in [Slots -> Nat]
             /\ \A t \in Slots : \/ answers'[t] = answers[t]
                                 \/ answers'[t] = answers[t] + 1 /\ card[t] # NoCard
  BY <1>0, <1>3 DEF CardsType
<1>4. CASE /\ UNCHANGED card
           /\ \E s \in DOMAIN job.batch : card[s] # NoCard /\ answers' = [answers EXCEPT ![s] = @ + 1]
  BY <1>0, <1>3, <1>4 DEF CardsType, Stored
<1>. QED BY <1>1, <1>2, <1>4 DEF DaemonDies

LEMMA DiesKept ==
  ASSUME CardsInv, DaemonDies
  PROVE  CardsInv'
<1>0. CardsType /\ PaidFor
  BY DEF CardsInv
<1>1. /\ job' = NoJob /\ crashes' = crashes + 1
      /\ UNCHANGED <<slot, folded, texts, wipes>>
  BY DEF DaemonDies
<1>2. CardsType'
  BY <1>0, <1>1, DiesFacts DEF CardsType, Slots, NoJob, NoCards, Places
<1>3. BatchFresh'
  BY <1>1 DEF BatchFresh, FreshAt, NoJob
<1>4. PaidFor'
  <2>. SUFFICES ASSUME NEW s \in Slots PROVE answers'[s] + ToPay(s)' <= Allowed'
    BY <1>1 DEF PaidFor, Slots, At, NoJob
  <2>1. /\ answers[s] + ToPay(s) <= Allowed /\ answers[s] \in Nat /\ Allowed \in Int /\ Allowed' = Allowed + 1
    BY <1>0, <1>1 DEF PaidFor, CardsType, Allowed
  <2>2. ToPay(s)' \in {0, 1, 2} /\ ToPay(s) \in {0, 1, 2}
    BY DEF ToPay
  <2>3. CASE card[s] # NoCard
    <3>1. card'[s] # NoCard /\ (card[s].status = "ready" => card'[s] = card[s])
      BY <2>3, DiesFacts DEF Stored
    <3>2. ToPay(s)' <= ToPay(s)
      BY <2>3, <3>1 DEF ToPay
    <3>3. answers'[s] = answers[s] \/ answers'[s] = answers[s] + 1
      BY DiesFacts
    <3>. QED BY <2>1, <2>2, <3>2, <3>3
  <2>4. CASE card[s] = NoCard
    <3>1. answers'[s] = answers[s]
      BY <2>4, DiesFacts
    <3>2. ToPay(s) >= 1
      BY <2>4 DEF ToPay
    <3>. QED BY <2>1, <2>2, <3>1, <3>2
  <2>. QED BY <2>3, <2>4
<1>5. SkillsKnown'
  <2>1. crashes' # 0
    BY <1>0, <1>1 DEF CardsType
  <2>. QED BY <2>1 DEF SkillsKnown
<1>. QED BY <1>2, <1>3, <1>4, <1>5 DEF CardsInv

LEMMA CardsStepKept ==
  ASSUME CardsInv, [CardsNext]_cardVars
  PROVE  CardsInv'
<1>1. CASE UNCHANGED cardVars
  BY <1>1 DEF cardVars, CardsInv, CardsType, BatchFresh, FreshAt, PaidFor, ToPay, DueAt, Allowed,
       SkillsKnown, SkillsAt, Stored, At
<1>2. CASE CardsNext
  BY <1>2, ReadsKept, ListsKept, WritesBackKept, AnswersKept, AroundKept, WipesKept, DiesKept DEF CardsNext
<1>. QED BY <1>1, <1>2

LEMMA CardsBegin == CardsInit => CardsInv
<1>. SUFFICES ASSUME CardsInit PROVE CardsInv
  OBVIOUS
<1>1. /\ job = [at |-> "idle", batch |-> NoCards] /\ DOMAIN NoCards = {}
      /\ answers = [s \in Slots |-> 0] /\ wipes = 0 /\ crashes = 0
      /\ slot = 2 /\ folded \subseteq Slots /\ texts \subseteq Slots
      /\ backfilled = FALSE /\ starting = TRUE
  BY CardsAssumption DEF CardsInit, NoJob, NoCards, CardsAssumption, Slots
<1>2. card \in [Slots -> StoredCards \cup {NoCard}] /\ \A s \in Stored : card[s].status = "ready"
  <2>1. {c \in ReadyCards : ~c.checked} \subseteq {c \in StoredCards : c.status = "ready"}
    BY CardFacts DEF ReadyCards
  <2>. QED BY <2>1 DEF CardsInit, Stored
<1>3. CardsType
  BY <1>1, <1>2 DEF CardsType, Places
<1>4. BatchFresh
  BY <1>1 DEF BatchFresh, FreshAt
<1>5. PaidFor
  <2>1. \A s \in Slots : ToPay(s) \in {0, 1, 2}
    BY DEF ToPay
  <2>2. Allowed = 2 /\ ~At("narrate")
    BY <1>1 DEF Allowed, At
  <2>. QED BY <1>1, <2>1, <2>2 DEF PaidFor
<1>6. SkillsKnown
  BY <1>1 DEF SkillsKnown, SkillsAt
<1>. QED BY <1>3, <1>4, <1>5, <1>6 DEF CardsInv

\* The action property, from the invariant.
LEMMA StaysReady ==
  ASSUME CardsInv, CardsNext
  PROVE  \A s \in Stored : card[s].status = "ready" /\ wipes' = wipes =>
           /\ card'[s] # NoCard /\ card'[s].status = "ready" /\ card'[s].by = card[s].by
           /\ card[s].checked => card'[s] = card[s]
<1>. SUFFICES ASSUME NEW s \in Stored, card[s].status = "ready", wipes' = wipes
              PROVE  /\ card'[s] # NoCard /\ card'[s].status = "ready" /\ card'[s].by = card[s].by
                     /\ card[s].checked => card'[s] = card[s]
  OBVIOUS
<1>0. s \in Slots /\ card[s] # NoCard /\ CardsType /\ BatchFresh
  BY DEF Stored, CardsInv
<1>1. CASE card'[s] = card[s]
  BY <1>0, <1>1
<1>2. CASE WritesBack
  <2>1. At("write") /\ card' = WrittenBack(DOMAIN job.batch)
    BY <1>2 DEF WritesBack
  <2>. QED BY <1>0, <2>1, WrittenFacts
<1>3. CASE DaemonDies
  BY <1>0, <1>3, DiesFacts
<1>4. ASSUME NEW t \in Slots, Answers(t) \/ Declines(t)
      PROVE  card'[s] = card[s]
  <2>1. t \in DOMAIN job.batch /\ job.at = "narrate"
    BY <1>4 DEF Answers, Declines, Next1, At
  <2>2. t # s
    BY <1>0, <2>1 DEF BatchFresh, FreshAt
  <2>3. card' = card \/ \E c : card' = [card EXCEPT ![t] = c]
    <3>1. CASE Answers(t)
      BY <3>1 DEF Answers, Applies
    <3>2. CASE Declines(t)
      <4>1. CASE card[t] = NoCard
        BY <3>2, <4>1 DEF Declines
      <4>2. CASE card[t] # NoCard
        <5>1. card' = [card EXCEPT ![t].status = "failed", ![t].by = job.batch[t].by]
          BY <3>2, <4>2 DEF Declines
        <5>. DEFINE c == [card[t] EXCEPT !.status = "failed", !.by = job.batch[t].by]
        <5>2. card' = [card EXCEPT ![t] = c]
          BY <1>0, <5>1 DEF CardsType
        <5>. QED BY <5>2
      <4>. QED BY <4>1, <4>2
    <3>. QED BY <1>4, <3>1, <3>2
  <2>. QED BY <1>0, <2>2, <2>3 DEF CardsType
<1>5. ASSUME NEW t \in Slots, Checks(t)
      PROVE  /\ card'[s] # NoCard /\ card'[s].status = "ready" /\ card'[s].by = card[s].by
             /\ card[s].checked => card'[s] = card[s]
  <2>1. t \in DOMAIN job.batch /\ job.at = "check"
    BY <1>5 DEF Checks, At
  <2>2. CASE t = s
    <3>1. card[s] = job.batch[s] /\ ~card[s].checked
      BY <1>0, <2>1, <2>2 DEF BatchFresh, FreshAt
    <3>2. PICK named \in {{}} \cup {{k} : k \in Workflows} : Applies(s, "ready", job.batch[s].by, named)
      BY <1>0, <1>5, <2>2 DEF Checks
    <3>. DEFINE c == [status |-> "ready", by |-> job.batch[s].by, skills |-> named, checked |-> TRUE]
    <3>3. card' = [card EXCEPT ![s] = c]
      BY <3>2 DEF Applies
    <3>4. job.batch[s] \in StoredCards
      BY <1>0, <2>1, <2>2 DEF CardsType
    <3>5. c \in StoredCards /\ c.status = "ready" /\ c.by = job.batch[s].by
      BY <3>2, <3>4 DEF StoredCards
    <3>. HIDE DEF c
    <3>6. card'[s] = c
      BY <1>0, <3>3 DEF CardsType
    <3>. QED BY <3>1, <3>5, <3>6, CardFacts
  <2>3. CASE t # s
    <3>1. card' = card \/ \E c : card' = [card EXCEPT ![t] = c]
      BY <1>5 DEF Checks, Applies
    <3>2. card'[s] = card[s]
      BY <1>0, <2>3, <3>1 DEF CardsType
    <3>. QED BY <1>0, <3>2
  <2>. QED BY <2>2, <2>3
<1>6. CASE WipesCards
  BY <1>0, <1>6 DEF WipesCards, CardsType
<1>7. CASE \/ ReadsFold \/ ReadsStored \/ ReadsDocuments \/ ListsPending \/ ListsUnchecked
           \/ NothingToCheck \/ Backfill \/ SlotCloses
           \/ \E t \in Slots : Records(t) \/ SeesText(t)
  BY <1>1, <1>7 DEF ReadsFold, ReadsStored, ReadsDocuments, ListsPending, ListsUnchecked,
       NothingToCheck, Backfill, SlotCloses, Records, SeesText
<1>. QED BY <1>1, <1>2, <1>3, <1>4, <1>5, <1>6, <1>7 DEF CardsNext

\* A narrative is paid for at most twice a wipe, its workflows are in the library,
\* and it stays: whatever comes between the task's reads and its writes.
THEOREM NarrativesSafe == CardsSpec => NarrativesKept
<1>1. CardsInv /\ [CardsNext]_cardVars => CardsInv'
  BY CardsStepKept
<1>2. CardsInv => NarrativesAccounted
  <2>1. ASSUME CardsInv PROVE ToldOnce
    <3>. SUFFICES ASSUME NEW s \in Slots PROVE answers[s] <= 2 * (1 + wipes) + crashes
      BY DEF ToldOnce
    <3>1. answers[s] + ToPay(s) <= Allowed /\ answers[s] \in Nat /\ Allowed \in Int
          /\ ToPay(s) \in {0, 1, 2}
      BY <2>1 DEF CardsInv, PaidFor, CardsType, Allowed, ToPay
    <3>. QED BY <3>1 DEF Allowed
  <2>2. ASSUME CardsInv PROVE NamedIsPromoted
    BY <2>2 DEF CardsInv, SkillsKnown, NamedIsPromoted
  <2>. QED BY <2>1, <2>2 DEF NarrativesAccounted
<1>3. CardsInv /\ [CardsNext]_cardVars =>
        [\A s \in Stored : card[s].status = "ready" /\ wipes' = wipes =>
           /\ card'[s] # NoCard /\ card'[s].status = "ready" /\ card'[s].by = card[s].by
           /\ card[s].checked => card'[s] = card[s]]_cardVars
  BY StaysReady
<1>. QED BY CardsBegin, <1>1, <1>2, <1>3, PTL DEF CardsSpec, NarrativesKept, ReadyStays

-----------------------------------------------------------------------------
(***************************************************************************)
(* The actions of a slot, for every set of apps, windows, walks and boxes. *)
(*                                                                         *)
(* The entries of a run are looked up each for itself, so that what is     *)
(* proved of the trace rests on the existence of the nearest walk and of   *)
(* the smallest box; the fold carries where the last focus is.             *)
(***************************************************************************)

\* The natural numbers are well founded.
LessNat == {ss \in Nat \X Nat : ss[1] < ss[2]}
LEMMA LeastNat ==
  ASSUME NEW T, T \subseteq Nat, T # {}
  PROVE  \E x \in T : \A y \in T : x <= y
<1>1. IsWellFoundedOn(LessNat, Nat)
  BY NatLessThanWellFounded DEF OpToRel, LessNat
<1>2. \E x \in T : \A y \in T : ~(<<y, x>> \in LessNat)
  BY <1>1, WFMin
<1>3. PICK x \in T : \A y \in T : ~(<<y, x>> \in LessNat)
  BY <1>2
<1>4. \A y \in T : x <= y
  <2> TAKE y \in T
  <2>1. x \in Nat /\ y \in Nat /\ <<y, x>> \notin LessNat
    BY <1>3
  <2>2. <<y, x>> \in Nat \X Nat /\ <<y, x>>[1] = y /\ <<y, x>>[2] = x
    BY <2>1
  <2>3. ~(y < x)
    BY <2>1, <2>2, Zenon DEF LessNat
  <2> QED
    BY <2>1, <2>3
<1> QED
  BY <1>4

-----------------------------------------------------------------------------

\* The nearest walk there is: dated before undated, closest, first.
LEMMA NearestExists ==
  ASSUME SlotActionsAssumption, walks \in Seq(Snapshots), NEW h \in Hits,
         WalksOf(h.app) # {}
  PROVE  \E i \in WalksOf(h.app) : \A j \in WalksOf(h.app) \ {i} : IsNearer(h, i, j)
<1> DEFINE W        == WalksOf(h.app)
           Dated    == {i \in W : IsDated(h, walks[i])}
           far(i)   == Distance(h, walks[i])
           Nearby   == {far(i) : i \in Dated}
<1>1. W \subseteq Nat /\ W # {}
  BY DEF WalksOf
<1>2. \A i \in W : walks[i] \in Snapshots
  BY DEF WalksOf
<1>3. Nearby \subseteq Nat /\ \A i \in Dated : far(i) \in Nat
  BY <1>2 DEF Distance, IsDated, Hits, Snapshots, NoTime
<1>4. CASE Dated = {}
  <2>1. PICK i \in W : \A j \in W : i <= j
    BY <1>1, LeastNat
  <2>2. \A j \in W \ {i} : ~IsDated(h, walks[i]) /\ ~IsDated(h, walks[j]) /\ i < j
    BY <1>1, <1>4, <2>1
  <2> QED
    BY <2>1, <2>2 DEF IsNearer
<1>5. CASE Dated # {}
  <2>1. PICK d \in Nearby : \A e \in Nearby : d <= e
    <3>1. Nearby # {}
      BY <1>5
    <3> HIDE DEF Nearby
    <3> QED
      BY <1>3, <3>1, LeastNat
  <2> DEFINE Closest == {i \in Dated : far(i) = d}
  <2>2. PICK i \in Closest : \A j \in Closest : i <= j
    <3>1. Closest # {} /\ Closest \subseteq Nat
      BY <1>1, <2>1
    <3> HIDE DEF Closest
    <3> QED
      BY <3>1, LeastNat
  <2>3. i \in W /\ IsDated(h, walks[i]) /\ far(i) = d /\ d \in Nat
    BY <1>3, <2>1, <2>2
  <2>4. ASSUME NEW j \in W \ {i}
        PROVE  IsNearer(h, i, j)
    <3>1. CASE j \notin Dated
      <4>1. ~IsDated(h, walks[j])
        BY <2>4, <3>1
      <4> QED
        BY <2>3, <4>1 DEF IsNearer
    <3>2. CASE j \in Dated
      <4>1. d <= far(j) /\ far(j) \in Nat /\ IsDated(h, walks[j])
        BY <1>3, <2>1, <3>2
      <4>2. CASE far(j) = d
        <5>1. i <= j
          BY <2>2, <3>2, <4>2
        <5>2. i < j
          BY <1>1, <2>3, <2>4, <5>1
        <5> QED
          BY <2>3, <4>1, <4>2, <5>2 DEF IsNearer
      <4>3. CASE far(j) # d
        <5>1. far(i) < far(j)
          BY <2>3, <4>1, <4>3
        <5> HIDE DEF far
        <5> QED
          BY <2>3, <4>1, <5>1 DEF IsNearer, far
      <4> QED
        BY <4>2, <4>3
    <3> QED
      BY <3>1, <3>2
  <2> QED
    BY <2>3, <2>4
<1> QED
  BY <1>4, <1>5

\* The smallest box around a place, the first of its size.
LEMMA SmallestExists ==
  ASSUME SlotActionsAssumption, NEW boxes \in Seq(Boxes), NEW place,
         Around(boxes, place) # {}
  PROVE  \E b \in Around(boxes, place) :
           \A c \in Around(boxes, place) \ {b} : IsSmaller(boxes, b, c)
<1> DEFINE A       == Around(boxes, place)
           area(b) == Cardinality(boxes[b].cells)
           Areas   == {area(b) : b \in A}
<1>1. A \subseteq Nat /\ A # {}
  BY DEF Around
<1>2. \A b \in A : area(b) \in Nat
  <2> TAKE b \in A
  <2>1. b \in 1 .. Len(boxes)
    BY DEF Around
  <2>2. boxes[b] \in Boxes
    BY <2>1, ElementOfSeq
  <2>3. boxes[b].cells \subseteq Cells
    BY <2>2 DEF Boxes
  <2> QED
    BY <2>3, FS_Subset, FS_CardinalityType DEF SlotActionsAssumption
<1>3. Areas \subseteq Nat /\ Areas # {}
  BY <1>1, <1>2
<1>4. PICK a \in Areas : \A e \in Areas : a <= e
  <2> HIDE DEF Areas
  <2> QED
    BY <1>3, LeastNat
<1> DEFINE Small == {b \in A : area(b) = a}
<1>5. PICK b \in Small : \A c \in Small : b <= c
  <2>1. Small \subseteq Nat /\ Small # {}
    BY <1>1, <1>4
  <2> HIDE DEF Small
  <2> QED
    BY <2>1, LeastNat
<1>6. ASSUME NEW c \in A \ {b}
      PROVE  area(b) < area(c) \/ (area(b) = area(c) /\ b < c)
  <2>1. area(b) = a /\ a <= area(c) /\ area(c) \in Nat /\ a \in Nat /\ b \in Nat /\ c \in Nat
    BY <1>1, <1>2, <1>3, <1>4, <1>5, <1>6
  <2>2. area(c) = a => b <= c
    BY <1>5, <1>6
  <2> HIDE DEF area
  <2> QED
    BY <1>6, <2>1, <2>2
<1> QED
  BY <1>5, <1>6 DEF IsSmaller

\* A name looked up for a click is that of an element of its own app.
LEMMA LabelIsOwn ==
  ASSUME SlotActionsAssumption, walks \in Seq(Snapshots), NEW h \in Hits
  PROVE  /\ Label(h) \in Labels \cup {NoLabel}
         /\ Label(h) # NoLabel =>
              /\ h.action = "click"
              /\ \E w \in 1 .. Len(walks) :
                   /\ walks[w].app = AppOf(h)
                   /\ \E b \in 1 .. Len(walks[w].boxes) : walks[w].boxes[b].label = Label(h)
<1> DEFINE p     == Picked(h)
           boxes == walks[p].boxes
           pick  == CHOOSE b \in Around(boxes, h.place) :
                      \A c \in Around(boxes, h.place) \ {b} : IsSmaller(boxes, b, c)
<1>1. CASE h.action # "click" \/ p = 0 \/ Around(boxes, h.place) = {}
  BY <1>1 DEF Label
<1>2. CASE h.action = "click" /\ p # 0 /\ Around(boxes, h.place) # {}
  <2>1. h.app # NoApp /\ WalksOf(h.app) # {}
    BY <1>2 DEF Picked
  <2>2. p \in WalksOf(h.app)
    BY <1>2, <2>1, NearestExists DEF Picked
  <2>3. p \in 1 .. Len(walks) /\ walks[p].app = AppOf(h) /\ walks[p] \in Snapshots
    BY <2>1, <2>2 DEF WalksOf, AppOf
  <2>4. boxes \in Seq(Boxes)
    BY <2>3 DEF Snapshots
  <2>5. pick \in Around(boxes, h.place)
    <3> HIDE DEF boxes
    <3> QED
      BY <1>2, <2>4, SmallestExists
  <2>6. pick \in 1 .. Len(boxes) /\ boxes[pick] \in Boxes
    <3>1. pick \in 1 .. Len(boxes)
      BY <2>5 DEF Around
    <3> HIDE DEF boxes, pick
    <3> QED
      BY <2>4, <3>1, ElementOfSeq
  <2>7. Label(h) = boxes[pick].label
    BY <1>2 DEF Label
  <2>8. boxes[pick].label \in Labels
    BY <2>6 DEF Boxes
  <2> QED
    BY <1>2, <2>3, <2>6, <2>7, <2>8
<1> QED
  BY <1>1, <1>2

\* Entry j of a trace is its last focus, on this window.
IsLastFocus(seq, j, app, window) ==
  /\ j \in 1 .. Len(seq)
  /\ seq[j].action = "focus" /\ seq[j].app = app /\ seq[j].window = window
  /\ \A k \in j + 1 .. Len(seq) : seq[k].action # "focus"

NameOwn(e) ==
  e.label # NoLabel =>
    /\ e.action = "click"
    /\ \E w \in 1 .. Len(walks) :
         /\ walks[w].app = e.app
         /\ \E b \in 1 .. Len(walks[w].boxes) : walks[w].boxes[b].label = e.label

TraceOf(seq) ==
  /\ seq \in Seq(Folded)
  /\ UnderItsFocus(seq)
  /\ \A i \in 1 .. Len(seq) : NameOwn(seq[i])

LastFocusSet ==
  lastFocus # NoFocus =>
    \E j \in 1 .. Len(trace) : IsLastFocus(trace, j, lastFocus[1], lastFocus[2])

ActionsInv ==
  /\ walks \in Seq(Snapshots)
  /\ TraceOf(trace)
  /\ lastFocus = NoFocus \/ lastFocus \in TraceApps \X HitWindows
  /\ step = "fold" => LastFocusSet

LEMMA AppendedOf ==
  ASSUME NEW seq, TraceOf(seq), NEW e \in Folded, NameOwn(e),
         e.action # "focus" => \E j \in 1 .. Len(seq) : IsLastFocus(seq, j, e.app, e.window)
  PROVE  TraceOf(Append(seq, e))
<1> DEFINE new == Append(seq, e)
<1>1. /\ new \in Seq(Folded) /\ Len(new) = Len(seq) + 1 /\ Len(seq) \in Nat
      /\ new[Len(seq) + 1] = e
      /\ \A i \in 1 .. Len(seq) : new[i] = seq[i]
  BY AppendProperties, LenProperties DEF TraceOf
<1> HIDE DEF new
<1>2. \A i \in 1 .. Len(new) : NameOwn(new[i])
  BY <1>1 DEF TraceOf
<1>3. ASSUME NEW i \in 1 .. Len(new), new[i].action # "focus"
      PROVE  \E j \in 1 .. i - 1 :
               /\ new[j].action = "focus" /\ new[j].app = new[i].app /\ new[j].window = new[i].window
               /\ \A k \in j + 1 .. i - 1 : new[k].action # "focus"
  <2>1. CASE i \in 1 .. Len(seq)
    <3>1. PICK j \in 1 .. i - 1 :
            /\ seq[j].action = "focus" /\ seq[j].app = seq[i].app /\ seq[j].window = seq[i].window
            /\ \A k \in j + 1 .. i - 1 : seq[k].action # "focus"
      BY <1>1, <1>3, <2>1 DEF TraceOf, UnderItsFocus
    <3>2. j \in 1 .. Len(seq) /\ \A k \in j + 1 .. i - 1 : k \in 1 .. Len(seq)
      BY <1>1, <2>1, <3>1
    <3> QED
      BY <1>1, <2>1, <3>1, <3>2
  <2>2. CASE i = Len(seq) + 1
    <3>1. PICK j \in 1 .. Len(seq) : IsLastFocus(seq, j, e.app, e.window)
      BY <1>1, <1>3, <2>2
    <3>2. j \in 1 .. i - 1 /\ \A k \in j + 1 .. i - 1 : k \in j + 1 .. Len(seq) /\ k \in 1 .. Len(seq)
      BY <1>1, <2>2, <3>1
    <3> QED
      BY <1>1, <2>2, <3>1, <3>2 DEF IsLastFocus
  <2> QED
    BY <1>1, <2>1, <2>2
<1> QED
  BY <1>1, <1>2, <1>3 DEF TraceOf, UnderItsFocus, new

LEMMA FocusedOf ==
  ASSUME SlotActionsAssumption, ActionsInv, step = "fold", NEW h \in Hits
  PROVE  /\ TraceOf(Focused(h))
         /\ \E j \in 1 .. Len(Focused(h)) : IsLastFocus(Focused(h), j, AppOf(h), h.window)
<1> DEFINE here == <<AppOf(h), h.window>>
           e    == FocusOn(h)
<1>1. CASE lastFocus = here
  <2>1. lastFocus # NoFocus /\ lastFocus[1] = AppOf(h) /\ lastFocus[2] = h.window
    BY <1>1 DEF NoFocus
  <2>2. Focused(h) = trace
    BY <1>1 DEF Focused
  <2> QED
    BY <2>1, <2>2 DEF ActionsInv, LastFocusSet
<1>2. CASE lastFocus # here
  <2>1. Focused(h) = Append(trace, e)
    BY <1>2 DEF Focused
  <2>2. AppOf(h) \in TraceApps /\ h.window \in HitWindows
    BY DEF Hits, AppOf, TraceApps
  <2>3. /\ e \in Folded
        /\ e.action = "focus" /\ e.label = NoLabel /\ e.app = AppOf(h) /\ e.window = h.window
    BY <2>2 DEF FocusOn, Folded
  <2>4. TraceOf(Append(trace, e))
    BY <2>3, AppendedOf DEF ActionsInv, NameOwn
  <2>5. /\ Len(Append(trace, e)) = Len(trace) + 1 /\ Len(trace) \in Nat
        /\ Append(trace, e)[Len(trace) + 1] = e
    BY <2>3, AppendProperties, LenProperties DEF ActionsInv, TraceOf
  <2>6. IsLastFocus(Append(trace, e), Len(trace) + 1, AppOf(h), h.window)
    BY <2>3, <2>5 DEF IsLastFocus
  <2> QED
    BY <2>1, <2>4, <2>5, <2>6
<1> QED
  BY <1>1, <1>2

\* What is added to an entry changes nothing the trace is asked for.
LEMMA PushedOf ==
  ASSUME SlotActionsAssumption, NEW seq, TraceOf(seq), NEW e \in Folded, NameOwn(e),
         e.action # "focus", \E j \in 1 .. Len(seq) : IsLastFocus(seq, j, e.app, e.window)
  PROVE  /\ TraceOf(Pushed(seq, e))
         /\ \E j \in 1 .. Len(Pushed(seq, e)) : IsLastFocus(Pushed(seq, e), j, e.app, e.window)
<1> DEFINE n   == Len(seq)
           new == Pushed(seq, e)
<1>0. n \in Nat /\ seq \in Seq(Folded)
  BY LenProperties DEF TraceOf
<1>1. PICK j \in 1 .. n : IsLastFocus(seq, j, e.app, e.window)
  OBVIOUS
<1>2. CASE n > 0 /\ IsLike(seq[n], e)
  <2> DEFINE count == seq[n].count + e.count
             place == IF e.place = NoPlace THEN seq[n].place ELSE e.place
             last  == [seq[n] EXCEPT !.count = count, !.place = place]
  <2>1. n \in 1 .. n /\ seq[n] \in Folded
    BY <1>0, <1>2, ElementOfSeq
  <2>2. /\ last \in Folded
        /\ last.action = seq[n].action /\ last.app = seq[n].app
        /\ last.window = seq[n].window /\ last.label = seq[n].label
    <3>1. count \in Nat /\ place \in Cells \cup {NoPlace}
      BY <2>1 DEF Folded
    <3> HIDE DEF count, place
    <3> QED
      BY <2>1, <3>1 DEF Folded
  <2>3. new = [seq EXCEPT ![n] = last]
    BY <1>2, <2>1 DEF Pushed, Folded
  <2> HIDE DEF last, new
  <2>4. /\ new \in Seq(Folded) /\ Len(new) = n
        /\ \A i \in 1 .. n : new[i] = IF i = n THEN last ELSE seq[i]
    BY <1>0, <2>1, <2>2, <2>3, ExceptSeq
  <2>5. \A i \in 1 .. n : /\ new[i].action = seq[i].action /\ new[i].app = seq[i].app
                         /\ new[i].window = seq[i].window /\ new[i].label = seq[i].label
    BY <2>2, <2>4
  <2>6. \A i \in 1 .. n : NameOwn(new[i])
    BY <2>5 DEF TraceOf, NameOwn
  <2>7. UnderItsFocus(new)
    <3>1. ASSUME NEW i \in 1 .. n, new[i].action # "focus"
          PROVE  \E f \in 1 .. i - 1 :
                   /\ new[f].action = "focus" /\ new[f].app = new[i].app /\ new[f].window = new[i].window
                   /\ \A k \in f + 1 .. i - 1 : new[k].action # "focus"
      <4>1. PICK f \in 1 .. i - 1 :
              /\ seq[f].action = "focus" /\ seq[f].app = seq[i].app /\ seq[f].window = seq[i].window
              /\ \A k \in f + 1 .. i - 1 : seq[k].action # "focus"
        BY <2>5, <3>1 DEF TraceOf, UnderItsFocus
      <4>2. f \in 1 .. n /\ \A k \in f + 1 .. i - 1 : k \in 1 .. n
        BY <1>0, <4>1
      <4>3. \A k \in f + 1 .. i - 1 : new[k].action # "focus"
        BY <2>5, <4>1, <4>2
      <4>4. new[f].action = "focus" /\ new[f].app = new[i].app /\ new[f].window = new[i].window
        BY <2>5, <4>1, <4>2
      <4> QED
        BY <4>1, <4>3, <4>4
    <3> QED
      BY <2>4, <3>1 DEF UnderItsFocus
  <2>8. IsLastFocus(new, j, e.app, e.window)
    <3>1. \A k \in j + 1 .. n : k \in 1 .. n
      BY <1>0, <1>1
    <3> QED
      BY <1>1, <2>4, <2>5, <3>1 DEF IsLastFocus
  <2> QED
    BY <1>1, <2>4, <2>6, <2>7, <2>8 DEF TraceOf, new
<1>3. CASE ~(n > 0 /\ IsLike(seq[n], e))
  <2>1. new = Append(seq, e)
    BY <1>3 DEF Pushed
  <2>2. /\ Len(new) = n + 1 /\ new[n + 1] = e
        /\ \A i \in 1 .. n : new[i] = seq[i]
    BY <1>0, <2>1, AppendProperties
  <2> HIDE DEF new
  <2>3. \A k \in j + 1 .. n + 1 : k = n + 1 \/ (k \in j + 1 .. n /\ k \in 1 .. n)
    BY <1>0, <1>1
  <2>4. IsLastFocus(new, j, e.app, e.window)
    BY <1>0, <1>1, <2>2, <2>3 DEF IsLastFocus
  <2>5. TraceOf(new)
    BY <2>1, AppendedOf
  <2> QED
    BY <1>0, <1>1, <2>2, <2>4, <2>5 DEF new
<1> QED
  BY <1>2, <1>3

LEMMA ActionsInitInv ==
  ASSUME SlotActionsAssumption, ActionsInit
  PROVE  ActionsInv
<1>1. Len(<<>>) = 0 /\ <<>> \in Seq(Folded)
  BY EmptySeq
<1> QED
  BY <1>1 DEF ActionsInit, ActionsInv, TraceOf, UnderItsFocus, LastFocusSet, SlotActionsAssumption

LEMMA ActionsNextInv ==
  ASSUME SlotActionsAssumption, ActionsInv, [ActionsNext]_actionVars
  PROVE  ActionsInv'
<1>1. ASSUME NEW h \in SlotRows, Folds(h)
      PROVE  ActionsInv'
  <2> DEFINE seq == Focused(h)
             e   == Entry(h)
             new == Pushed(seq, e)
  <2>1. h \in Hits
    BY DEF SlotActionsAssumption
  <2>2. /\ TraceOf(seq)
        /\ \E j \in 1 .. Len(seq) : IsLastFocus(seq, j, AppOf(h), h.window)
    BY <1>1, <2>1, FocusedOf DEF Folds
  <2>3. AppOf(h) \in TraceApps /\ h.window \in HitWindows
    BY <2>1 DEF Hits, AppOf, TraceApps
  <2>4. e \in Folded /\ e.action # "focus" /\ e.app = AppOf(h) /\ e.window = h.window /\ NameOwn(e)
    <3>1. /\ Label(h) \in Labels \cup {NoLabel}
          /\ Label(h) # NoLabel =>
               /\ h.action = "click"
               /\ \E w \in 1 .. Len(walks) :
                    /\ walks[w].app = AppOf(h)
                    /\ \E b \in 1 .. Len(walks[w].boxes) : walks[w].boxes[b].label = Label(h)
      BY <2>1, LabelIsOwn DEF ActionsInv
    <3>2. h.action \in Actions /\ h.action # "focus" /\ h.chord \in Chords \cup {NoChord}
          /\ h.place \in Cells \cup {NoPlace}
      BY <2>1 DEF Hits, Actions
    <3> QED
      BY <2>3, <3>1, <3>2 DEF Entry, Folded, NameOwn
  <2>5. /\ TraceOf(new)
        /\ \E j \in 1 .. Len(new) : IsLastFocus(new, j, AppOf(h), h.window)
    <3> HIDE DEF seq, e
    <3> QED
      BY <2>2, <2>4, PushedOf
  <2>6. /\ trace' = new /\ lastFocus' = <<AppOf(h), h.window>> /\ walks' = walks
    BY <1>1 DEF Folds
  <2> HIDE DEF new
  <2>7. TraceOf(trace)'
    BY <2>5, <2>6 DEF TraceOf, NameOwn
  <2>8. LastFocusSet'
    BY <2>5, <2>6 DEF LastFocusSet
  <2> QED
    BY <2>3, <2>6, <2>7, <2>8 DEF ActionsInv
<1>2. CASE EndsFold
  <2> DEFINE m   == Shorter(Len(trace), MaxFolded)
             new == SubSeq(trace, 1, m)
  <2>1. m \in Nat /\ m <= Len(trace) /\ Len(trace) \in Nat
    BY LenProperties DEF ActionsInv, TraceOf, Shorter, SlotActionsAssumption
  <2>2. /\ new \in Seq(Folded) /\ Len(new) = m
        /\ \A i \in 1 .. m : i \in 1 .. Len(trace) /\ new[i] = trace[i]
    <3> HIDE DEF m
    <3>1. trace \in Seq(Folded)
      BY DEF ActionsInv, TraceOf
    <3>2. 1 .. m \subseteq 1 .. Len(trace)
      BY <2>1
    <3> QED
      BY <2>1, <3>1, <3>2, SubSeqProperties
  <2>3. trace' = new /\ walks' = walks /\ lastFocus' = lastFocus /\ step' = "told"
    BY <1>2 DEF EndsFold
  <2> HIDE DEF new, m
  <2>4. \A i \in 1 .. m : NameOwn(new[i])
    BY <2>2 DEF ActionsInv, TraceOf
  <2>5. UnderItsFocus(new)
    <3>1. ASSUME NEW i \in 1 .. m, new[i].action # "focus"
          PROVE  \E f \in 1 .. i - 1 :
                   /\ new[f].action = "focus" /\ new[f].app = new[i].app /\ new[f].window = new[i].window
                   /\ \A k \in f + 1 .. i - 1 : new[k].action # "focus"
      <4>1. PICK f \in 1 .. i - 1 :
              /\ trace[f].action = "focus" /\ trace[f].app = trace[i].app /\ trace[f].window = trace[i].window
              /\ \A k \in f + 1 .. i - 1 : trace[k].action # "focus"
        BY <2>2, <3>1 DEF ActionsInv, TraceOf, UnderItsFocus
      <4>2. f \in 1 .. m /\ \A k \in f + 1 .. i - 1 : k \in 1 .. m
        BY <2>1, <4>1
      <4> QED
        BY <2>2, <4>1, <4>2
    <3> QED
      BY <2>2, <3>1 DEF UnderItsFocus
  <2>6. TraceOf(trace)'
    BY <2>2, <2>3, <2>4, <2>5 DEF TraceOf, NameOwn
  <2> QED
    BY <2>3, <2>6 DEF ActionsInv
<1>3. ASSUME NEW longEnough, NEW others, NEW answer, NEW worded, NEW titled,
             Proposes(longEnough, others, answer, worded, titled)
      PROVE  ActionsInv'
  <2>1. walks' = walks /\ trace' = trace /\ lastFocus' = lastFocus /\ step' = "done"
    BY <1>3 DEF Proposes
  <2> QED
    BY <2>1 DEF ActionsInv, TraceOf, NameOwn
<1>4. CASE TakesUp
  <2>1. walks' \in Seq(Snapshots) /\ trace' = <<>> /\ lastFocus' = NoFocus
    BY <1>4 DEF TakesUp, SlotActionsAssumption
  <2>2. Len(<<>>) = 0 /\ <<>> \in Seq(Folded)
    BY EmptySeq
  <2> QED
    BY <2>1, <2>2 DEF ActionsInv, TraceOf, UnderItsFocus, LastFocusSet
<1>5. CASE UNCHANGED actionVars
  <2>1. walks' = walks /\ trace' = trace /\ lastFocus' = lastFocus /\ step' = step
    BY <1>5 DEF actionVars
  <2> QED
    BY <2>1 DEF ActionsInv, TraceOf, NameOwn, LastFocusSet
<1> QED
  BY <1>1, <1>2, <1>3, <1>4, <1>5 DEF ActionsNext

\* The folded trace is right for every number of rows, walks and boxes: nothing is in
\* it without the focus of its window before it, and no entry is named after an
\* element of another app.
THEOREM TraceSafe ==
  ASSUME SlotActionsAssumption
  PROVE  ActionsSpec => [](TraceFocused /\ LabelsOwn)
<1>1. ActionsInit => ActionsInv
  BY ActionsInitInv
<1>2. ActionsInv /\ [ActionsNext]_actionVars => ActionsInv'
  BY ActionsNextInv
<1>3. ActionsInv => TraceFocused /\ LabelsOwn
  BY DEF ActionsInv, TraceOf, NameOwn, TraceFocused, LabelsOwn
<1> QED
  BY <1>1, <1>2, <1>3, PTL DEF ActionsSpec

-----------------------------------------------------------------------------
(***************************************************************************)
(* The readings of a slot, for every set of apps, heads and lines.         *)
(***************************************************************************)

EvidenceInv == EvidenceTypeOK /\ OneReadingEach

\* What OneReadingEach says of one key.
IsBest(key) ==
  \E i \in 1 .. Len(readings) :
    /\ best[key] = readings[i] /\ Key(readings[i]) = key
    /\ IsFirst(i, best[key].kind)
    /\ best[key].kind = "ocr" =>
         \A j \in 1 .. Len(readings) :
           ~(IsUsable(readings[j]) /\ readings[j].kind = "ax" /\ Key(readings[j]) = key)

LEMMA EvidenceInitInv ==
  ASSUME EvidenceInit
  PROVE  EvidenceInv
<1>1. Len(<<>>) = 0 /\ <<>> \in Seq(Readings)
  BY EmptySeq
<1> QED
  BY <1>1 DEF EvidenceInit, EvidenceInv, EvidenceTypeOK, OneReadingEach

LEMMA ReadsRowKept ==
  ASSUME SlotEvidenceAssumption, EvidenceInv, NEW d \in SlotReadings, ReadsRow(d)
  PROVE  EvidenceInv'
<1>0. PICK n \in Nat : n = Len(readings)
  BY LenProperties DEF EvidenceInv, EvidenceTypeOK
<1>1. d \in Readings /\ Key(d) \in DocApps \X Heads /\ d.kind \in {"ax", "ocr"}
  BY DEF SlotEvidenceAssumption, Readings, Key
<1>2. /\ readings' \in Seq(Readings) /\ Len(readings') = n + 1
      /\ readings'[n + 1] = d
      /\ \A i \in 1 .. n : readings'[i] = readings[i]
  BY <1>0, <1>1, AppendProperties DEF EvidenceInv, EvidenceTypeOK, ReadsRow
<1>3. \A i \in 1 .. n : \A kind : IsFirst(i, kind)' <=> IsFirst(i, kind)
  <2> TAKE i \in 1 .. n
  <2> TAKE kind
  <2>1. \A j \in 1 .. i - 1 : j \in 1 .. n
    BY <1>2
  <2> QED
    BY <1>2, <2>1 DEF IsFirst
<1>4. /\ DOMAIN best = {Key(readings[i]) : i \in {m \in 1 .. n : IsUsable(readings[m])}}
      /\ \A key \in DOMAIN best : IsBest(key)
  BY <1>0 DEF EvidenceInv, OneReadingEach, IsBest
<1>5. \A i \in 1 .. n + 1 : i = n + 1 \/ i \in 1 .. n
  BY <1>2
\* A key keeps its reading when the row brings it no tree it did not have.
<1>6. ASSUME NEW key \in DOMAIN best, best'[key] = best[key],
             best[key].kind = "ocr" => ~(IsUsable(d) /\ d.kind = "ax" /\ Key(d) = key)
      PROVE  IsBest(key)'
  <2>1. PICK i \in 1 .. n :
          /\ best[key] = readings[i] /\ Key(readings[i]) = key
          /\ IsFirst(i, best[key].kind)
          /\ best[key].kind = "ocr" =>
               \A j \in 1 .. n :
                 ~(IsUsable(readings[j]) /\ readings[j].kind = "ax" /\ Key(readings[j]) = key)
    BY <1>0, <1>4 DEF IsBest
  <2>2. i \in 1 .. n + 1 /\ readings'[i] = readings[i]
    BY <1>2
  <2>3. IsFirst(i, best[key].kind)'
    <3>1. PICK kind : kind = best[key].kind
      OBVIOUS
    <3>2. IsFirst(i, kind)'
      BY <1>3, <2>1, <3>1
    <3> QED
      BY <1>6, <3>1, <3>2 DEF IsFirst
  <2>4. best[key].kind = "ocr" =>
          \A j \in 1 .. n + 1 :
            ~(IsUsable(readings'[j]) /\ readings'[j].kind = "ax" /\ Key(readings'[j]) = key)
    BY <1>2, <1>5, <1>6, <2>1
  <2> QED
    BY <1>2, <1>6, <2>1, <2>2, <2>3, <2>4 DEF IsBest
\* The row becomes the reading of its key when none of its kind nor a tree came before.
<1>7. ASSUME Key(d) \in DOMAIN best', best'[Key(d)] = d, IsUsable(d),
             \A j \in 1 .. n : IsUsable(readings[j]) /\ Key(readings[j]) = Key(d) =>
               readings[j].kind = "ocr" /\ d.kind = "ax"
      PROVE  IsBest(Key(d))'
  <2>1. IsFirst(n + 1, d.kind)'
    <3>1. \A j \in 1 .. (n + 1) - 1 :
            ~(IsUsable(readings'[j]) /\ readings'[j].kind = d.kind /\ Key(readings'[j]) = Key(readings'[n + 1]))
      BY <1>2, <1>7
    <3> QED
      BY <1>2, <1>7, <3>1 DEF IsFirst
  <2>2. d.kind = "ocr" =>
          \A j \in 1 .. n + 1 :
            ~(IsUsable(readings'[j]) /\ readings'[j].kind = "ax" /\ Key(readings'[j]) = Key(d))
    BY <1>2, <1>5, <1>7
  <2>3. n + 1 \in 1 .. n + 1
    BY <1>2
  <2> QED
    BY <1>2, <1>7, <2>1, <2>2, <2>3 DEF IsBest
<1>8. ASSUME DOMAIN best' = DOMAIN best \cup (IF IsUsable(d) THEN {Key(d)} ELSE {})
      PROVE  DOMAIN best' = {Key(readings'[i]) : i \in {m \in 1 .. n + 1 : IsUsable(readings'[m])}}
  BY <1>2, <1>4, <1>5, <1>8
<1>9. CASE ~IsUsable(d) \/ (Key(d) \in DOMAIN best /\ ~Prefers(d))
  <2>1. best' = best
    BY <1>9 DEF ReadsRow
  <2>2. ASSUME NEW key \in DOMAIN best, best[key].kind = "ocr"
        PROVE  ~(IsUsable(d) /\ d.kind = "ax" /\ Key(d) = key)
    BY <1>9, <2>2 DEF Prefers
  <2>3. \A key \in DOMAIN best' : IsBest(key)'
    BY <1>6, <2>1, <2>2
  <2>4. DOMAIN best' = {Key(readings'[i]) : i \in {m \in 1 .. n + 1 : IsUsable(readings'[m])}}
    BY <1>8, <1>9, <2>1
  <2>5. EvidenceTypeOK'
    BY <1>2, <2>1 DEF EvidenceInv, EvidenceTypeOK
  <2> QED
    BY <1>2, <2>3, <2>4, <2>5 DEF EvidenceInv, OneReadingEach, IsBest
<1>10. CASE IsUsable(d) /\ (Key(d) \in DOMAIN best => Prefers(d))
  <2>1. /\ DOMAIN best' = DOMAIN best \cup {Key(d)}
        /\ best'[Key(d)] = d
        /\ \A key \in DOMAIN best : key # Key(d) => best'[key] = best[key]
    BY <1>10 DEF ReadsRow
  <2>2. \A j \in 1 .. n : IsUsable(readings[j]) /\ Key(readings[j]) = Key(d) =>
          readings[j].kind = "ocr" /\ d.kind = "ax"
    <3> TAKE j \in 1 .. n
    <3> HAVE IsUsable(readings[j]) /\ Key(readings[j]) = Key(d)
    <3>1. Key(d) \in DOMAIN best
      BY <1>4
    <3>2. best[Key(d)].kind = "ocr" /\ d.kind = "ax"
      BY <1>10, <3>1 DEF Prefers
    <3>3. readings[j].kind # "ax"
      BY <1>0, <1>4, <3>1, <3>2 DEF IsBest
    <3>4. readings[j] \in Readings
      BY <1>0, ElementOfSeq DEF EvidenceInv, EvidenceTypeOK
    <3> QED
      BY <3>2, <3>3, <3>4 DEF Readings
  <2>3. \A key \in DOMAIN best' : IsBest(key)'
    BY <1>6, <1>7, <1>10, <2>1, <2>2
  <2>4. DOMAIN best' = {Key(readings'[i]) : i \in {m \in 1 .. n + 1 : IsUsable(readings'[m])}}
    BY <1>8, <1>10, <2>1
  <2>5. EvidenceTypeOK'
    BY <1>1, <1>2, <2>1 DEF EvidenceInv, EvidenceTypeOK
  <2> QED
    BY <1>2, <2>3, <2>4, <2>5 DEF EvidenceInv, OneReadingEach, IsBest
<1> QED
  BY <1>9, <1>10

\* For every window and beginning of text there is one reading, the first the tree
\* gave, or the first of the picture where the tree gave none.
THEOREM OneReadingKept ==
  ASSUME SlotEvidenceAssumption
  PROVE  EvidenceSpec => []OneReadingEach
<1>1. EvidenceInit => EvidenceInv
  BY EvidenceInitInv
<1>2. EvidenceInv /\ [EvidenceNext]_evidenceVars => EvidenceInv'
  <2> SUFFICES ASSUME EvidenceInv, [EvidenceNext]_evidenceVars
               PROVE  EvidenceInv'
    OBVIOUS
  <2>1. ASSUME NEW d \in SlotReadings, ReadsRow(d)
        PROVE  EvidenceInv'
    BY <2>1, ReadsRowKept
  <2>2. CASE ReadsNextSlot
    <3>1. Len(<<>>) = 0 /\ <<>> \in Seq(Readings)
      BY EmptySeq
    <3> QED
      BY <2>2, <3>1 DEF ReadsNextSlot, EvidenceInv, EvidenceTypeOK, OneReadingEach
  <2>3. CASE UNCHANGED evidenceVars
    BY <2>3 DEF evidenceVars, EvidenceInv, EvidenceTypeOK, OneReadingEach, IsFirst
  <2> QED
    BY <2>1, <2>2, <2>3 DEF EvidenceNext
<1>3. EvidenceInv => OneReadingEach
  BY DEF EvidenceInv
<1> QED
  BY <1>1, <1>2, <1>3, PTL DEF EvidenceSpec

=============================================================================
