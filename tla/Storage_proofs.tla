---------------------------- MODULE Storage_proofs ---------------------------
(***************************************************************************)
(* What the store keeps and what it deletes: the blobs of the rows that    *)
(* stay, the limit of a batch, the cap of the directory, and the           *)
(* categories of the segments.                                             *)
(***************************************************************************)
EXTENDS BlobStore, Retention, Categories, Integers, FiniteSetTheorems, TLAPS

-----------------------------------------------------------------------------
(***************************************************************************)
(* The files of the rows.                                                  *)
(*                                                                         *)
(* The invariant says what each holder of blob_intake relies on while it   *)
(* is between two steps: a prune, that every row it has deleted is         *)
(* accounted for should the transaction roll back; the sweep, that its     *)
(* snapshot still covers the rows (trims only remove some); a wipe, that   *)
(* no row has come back.                                                   *)
(***************************************************************************)

OpRec == [kind : {"idle", "put", "batch", "prune", "sweep", "wipe"},
          adds : [Artifacts -> Blobs \cup {None}],
          todo : SUBSET Artifacts, gone : SUBSET Artifacts,
          unlinked : SUBSET Blobs, keep : SUBSET Blobs]

PruneState ==
  /\ op.kind # "prune" => op.gone = {} /\ op.unlinked = {} /\ op.todo = {}
  /\ op.kind = "prune" => \A a \in op.todo : rows[a] # None

GoneAccounted ==
  \A a \in op.gone : rows[a] # None => rows[a] \in Present \cup cut \cup op.unlinked

SnapshotCovers == op.kind = "sweep" => Referenced \subseteq op.keep

WipeHasNoRows == op.kind = "wipe" => rows = NoRows

BlobInv ==
  /\ TypeOK /\ PruneState /\ GoneAccounted /\ SnapshotCovers /\ WipeHasNoRows
  /\ SurvivorsHaveBlobs

LEMMA IdleRec == Idle \in OpRec
  BY DEF Idle, OpRec, NoRows

LEMMA BlobsStart ==
  ASSUME BlobAssumption, Init
  PROVE  BlobInv
<1>1. TypeOK
  <2>1. faults \in 0 .. MaxFaults
    BY DEF Init, BlobAssumption
  <2>2. rows \in [Artifacts -> Blobs \cup {None}]
    BY DEF Init, NoRows
  <2>. QED BY <2>1, <2>2, IdleRec DEF Init, TypeOK, OpRec
<1>2. \A a \in Artifacts : rows[a] = None
  BY DEF Init, NoRows
<1>. QED
  BY <1>1, <1>2
  DEF BlobInv, Init, Idle, PruneState, GoneAccounted, SnapshotCovers, WipeHasNoRows,
      SurvivorsHaveBlobs

\* The operations that change no row and no file: they take or leave the mutex.
LEMMA IdleAgain ==
  ASSUME BlobInv, op' = Idle, UNCHANGED <<files, rows, cut>>, op.kind # "prune"
  PROVE  PruneState' /\ GoneAccounted' /\ SnapshotCovers' /\ WipeHasNoRows'
         /\ SurvivorsHaveBlobs'
  BY DEF BlobInv, Idle, PruneState, GoneAccounted, SnapshotCovers, WipeHasNoRows,
         SurvivorsHaveBlobs, Present

LEMMA IntakeStep ==
  ASSUME BlobInv,
         \/ \E a \in Artifacts, b \in Blobs : BeginPut(a, b)
         \/ \E adds \in [Artifacts -> Blobs \cup {None}] : BeginBatch(adds)
         \/ \E b \in Blobs : WriteBlob(b)
         \/ CommitIntake
  PROVE  BlobInv'
<1>. op \in OpRec /\ TypeOK
  BY DEF BlobInv, TypeOK, OpRec
<1>1. ASSUME NEW a \in Artifacts, NEW b \in Blobs, BeginPut(a, b) PROVE BlobInv'
  <2>1. op' \in OpRec /\ op'.kind = "put" /\ op'.gone = {} /\ op'.unlinked = {} /\ op'.todo = {}
    BY <1>1 DEF BeginPut, Idle, OpRec, NoRows
  <2>2. op.gone = {}
    BY <1>1 DEF BeginPut, Free, Idle
  <2>. QED
    BY <1>1, <2>1, <2>2
    DEF BeginPut, BlobInv, TypeOK, OpRec, PruneState, GoneAccounted, SnapshotCovers,
        WipeHasNoRows, SurvivorsHaveBlobs, Present
<1>2. ASSUME NEW adds \in [Artifacts -> Blobs \cup {None}], BeginBatch(adds) PROVE BlobInv'
  <2>1. op' \in OpRec /\ op'.kind = "batch" /\ op'.gone = {} /\ op'.unlinked = {} /\ op'.todo = {}
    BY <1>2 DEF BeginBatch, Idle, OpRec, NoRows
  <2>2. op.gone = {}
    BY <1>2 DEF BeginBatch, Free, Idle
  <2>. QED
    BY <1>2, <2>1, <2>2
    DEF BeginBatch, BlobInv, TypeOK, OpRec, PruneState, GoneAccounted, SnapshotCovers,
        WipeHasNoRows, SurvivorsHaveBlobs, Present
<1>3. ASSUME NEW b \in Blobs, WriteBlob(b) PROVE BlobInv'
  <2>1. Present' = Present \cup {b} /\ cut' = cut \ {b}
    BY <1>3 DEF WriteBlob, Present, TypeOK
  <2>2. TypeOK'
    BY <1>3 DEF WriteBlob, TypeOK
  <2>. QED
    BY <1>3, <2>1, <2>2
    DEF WriteBlob, BlobInv, PruneState, GoneAccounted, SnapshotCovers, WipeHasNoRows,
        SurvivorsHaveBlobs
<1>4. CASE CommitIntake
  <2>1. op.kind \in {"put", "batch"} /\ op.gone = {} /\ op' = Idle
    BY <1>4 DEF CommitIntake, BlobInv, PruneState
  <2>2. TypeOK'
    BY <1>4, IdleRec DEF CommitIntake, TypeOK, OpRec
  <2>3. \A a \in Artifacts : rows'[a] # None => rows'[a] \in Present \cup cut
    BY <1>4, <2>1 DEF CommitIntake, Wanted, BlobInv, SurvivorsHaveBlobs, TypeOK
  <2>4. Present' = Present /\ cut' = cut
    BY <1>4 DEF CommitIntake, Present
  <2>. QED
    BY <2>1, <2>2, <2>3, <2>4
    DEF BlobInv, Idle, PruneState, GoneAccounted, SnapshotCovers, WipeHasNoRows,
        SurvivorsHaveBlobs
<1>. QED BY <1>1, <1>2, <1>3, <1>4

LEMMA PruneStep ==
  ASSUME BlobInv,
         \/ \E S \in SUBSET Artifacts : BeginPrune(S)
         \/ \E a \in Artifacts : PruneRow(a) \/ TrimEvent(a)
         \/ CommitPrune
  PROVE  BlobInv'
<1>. op \in OpRec /\ TypeOK
  BY DEF BlobInv, TypeOK, OpRec
<1>1. ASSUME NEW S \in SUBSET Artifacts, BeginPrune(S) PROVE BlobInv'
  <2>1. /\ op' \in OpRec /\ op'.kind = "prune" /\ op'.gone = {} /\ op'.unlinked = {}
        /\ op'.todo = S
    BY <1>1 DEF BeginPrune, Idle, OpRec, NoRows
  <2>2. op.gone = {}
    BY <1>1 DEF BeginPrune, Free, Idle
  <2>. QED
    BY <1>1, <2>1, <2>2
    DEF BeginPrune, BlobInv, TypeOK, OpRec, PruneState, GoneAccounted, SnapshotCovers,
        WipeHasNoRows, SurvivorsHaveBlobs, Present
<1>2. ASSUME NEW a \in Artifacts, PruneRow(a) PROVE BlobInv'
  <2>. DEFINE last == \A x \in Artifacts \ (op.gone \cup {a}) : rows[x] # rows[a]
  <2>1. op.kind = "prune" /\ rows[a] \in Blobs /\ rows[a] # None
    BY <1>2 DEF PruneRow, BlobInv, PruneState, TypeOK
  <2>2. /\ op'.kind = "prune" /\ op'.todo = op.todo \ {a} /\ op'.gone = op.gone \cup {a}
        /\ op'.unlinked = IF last THEN op.unlinked \cup ({rows[a]} \cap Present)
                                  ELSE op.unlinked
        /\ op'.adds = op.adds /\ op'.keep = op.keep
    BY <1>2, <2>1 DEF PruneRow, OpRec
  <2>3. op' \in OpRec
    BY <1>2 DEF PruneRow, OpRec, Present
  <2>4. Present' = IF last THEN Present \ {rows[a]} ELSE Present
    BY <1>2, <2>1 DEF PruneRow, Present, TypeOK
  <2>5. TypeOK'
    BY <1>2, <2>1, <2>3 DEF PruneRow, TypeOK, OpRec
  <2>6. UNCHANGED <<rows, cut>>
    BY <1>2 DEF PruneRow
  <2>7. GoneAccounted'
    BY <2>1, <2>2, <2>4, <2>6 DEF BlobInv, GoneAccounted, SurvivorsHaveBlobs
  <2>8. SurvivorsHaveBlobs'
    BY <2>1, <2>2, <2>4, <2>6 DEF BlobInv, SurvivorsHaveBlobs
  <2>9. PruneState'
    BY <2>1, <2>2, <2>6 DEF BlobInv, PruneState
  <2>. QED
    BY <2>2, <2>5, <2>7, <2>8, <2>9 DEF BlobInv, SnapshotCovers, WipeHasNoRows
<1>3. CASE CommitPrune
  <2>1. op' = Idle /\ Present' = Present /\ cut' = cut
    BY <1>3 DEF CommitPrune, Present
  <2>2. TypeOK'
    BY <1>3, IdleRec DEF CommitPrune, TypeOK, OpRec
  <2>3. \A a \in Artifacts : rows'[a] # None => rows'[a] \in Present \cup cut
    BY <1>3 DEF CommitPrune, BlobInv, SurvivorsHaveBlobs
  <2>. QED
    BY <2>1, <2>2, <2>3
    DEF BlobInv, Idle, PruneState, GoneAccounted, SnapshotCovers, WipeHasNoRows,
        SurvivorsHaveBlobs
<1>4. ASSUME NEW a \in Artifacts, TrimEvent(a) PROVE BlobInv'
  <2>1. op.kind \in {"idle", "put", "sweep"} /\ op.gone = {} /\ op.todo = {}
    BY <1>4 DEF TrimEvent, BlobInv, PruneState
  <2>2. TypeOK'
    BY <1>4 DEF TrimEvent, TypeOK
  <2>3. \A x \in Artifacts : rows'[x] = None \/ rows'[x] = rows[x]
    BY <1>4 DEF TrimEvent, TypeOK
  <2>. QED
    BY <1>4, <2>1, <2>2, <2>3
    DEF TrimEvent, BlobInv, PruneState, GoneAccounted, SnapshotCovers, WipeHasNoRows,
        SurvivorsHaveBlobs, Present, Referenced
<1>. QED BY <1>1, <1>2, <1>3, <1>4

LEMMA SweepStep ==
  ASSUME BlobInv, BeginSweep \/ (\E b \in Blobs : SweepFile(b)) \/ EndSweep
  PROVE  BlobInv'
<1>. op \in OpRec /\ TypeOK
  BY DEF BlobInv, TypeOK, OpRec
<1>1. CASE BeginSweep
  <2>1. Referenced \in SUBSET Blobs
    BY DEF Referenced, TypeOK
  <2>2. /\ op' \in OpRec /\ op'.kind = "sweep" /\ op'.gone = {} /\ op'.unlinked = {}
        /\ op'.todo = {} /\ op'.keep = Referenced
    BY <1>1, <2>1 DEF BeginSweep, Idle, OpRec, NoRows
  <2>3. op.gone = {}
    BY <1>1 DEF BeginSweep, Free, Idle
  <2>. QED
    BY <1>1, <2>2, <2>3
    DEF BeginSweep, BlobInv, TypeOK, OpRec, PruneState, GoneAccounted, SnapshotCovers,
        WipeHasNoRows, SurvivorsHaveBlobs, Present, Referenced
<1>2. ASSUME NEW b \in Blobs, SweepFile(b) PROVE BlobInv'
  <2>1. op.kind = "sweep" /\ b \notin Referenced /\ op.gone = {}
    BY <1>2 DEF SweepFile, BlobInv, SnapshotCovers, PruneState
  <2>2. Present' = Present \ {b}
    BY <1>2 DEF SweepFile, Present, TypeOK
  <2>3. TypeOK'
    BY <1>2 DEF SweepFile, TypeOK
  <2>. QED
    BY <1>2, <2>1, <2>2, <2>3
    DEF SweepFile, BlobInv, PruneState, GoneAccounted, SnapshotCovers, WipeHasNoRows,
        SurvivorsHaveBlobs, Referenced
<1>3. CASE EndSweep
  <2>1. op.kind = "sweep" /\ op' = Idle /\ UNCHANGED <<files, rows, cut>>
    BY <1>3 DEF EndSweep
  <2>2. TypeOK'
    BY <1>3, IdleRec DEF EndSweep, TypeOK, OpRec
  <2>. QED BY <2>1, <2>2, IdleAgain DEF BlobInv
<1>. QED BY <1>1, <1>2, <1>3

LEMMA WipeStep ==
  ASSUME BlobInv, BeginWipe \/ (\E b \in Blobs : WipeFile(b)) \/ EndWipe
  PROVE  BlobInv'
<1>. op \in OpRec /\ TypeOK
  BY DEF BlobInv, TypeOK, OpRec
<1>1. CASE BeginWipe
  <2>1. /\ op' \in OpRec /\ op'.kind = "wipe" /\ op'.gone = {} /\ op'.unlinked = {}
        /\ op'.todo = {}
    BY <1>1 DEF BeginWipe, Idle, OpRec, NoRows
  <2>2. rows' = NoRows /\ \A a \in Artifacts : rows'[a] = None
    BY <1>1 DEF BeginWipe, NoRows
  <2>3. TypeOK'
    BY <1>1, <2>1 DEF BeginWipe, TypeOK, OpRec, NoRows
  <2>. QED
    BY <2>1, <2>2, <2>3
    DEF BlobInv, PruneState, GoneAccounted, SnapshotCovers, WipeHasNoRows,
        SurvivorsHaveBlobs
<1>2. ASSUME NEW b \in Blobs, WipeFile(b) PROVE BlobInv'
  <2>1. op.kind = "wipe" /\ op.gone = {} /\ \A a \in Artifacts : rows[a] = None
    BY <1>2 DEF WipeFile, BlobInv, WipeHasNoRows, PruneState, NoRows
  <2>2. TypeOK'
    BY <1>2 DEF WipeFile, TypeOK
  <2>. QED
    BY <1>2, <2>1, <2>2
    DEF WipeFile, BlobInv, PruneState, GoneAccounted, SnapshotCovers, WipeHasNoRows,
        SurvivorsHaveBlobs
<1>3. CASE EndWipe
  <2>1. op.kind = "wipe" /\ op' = Idle /\ UNCHANGED <<files, rows, cut>>
    BY <1>3 DEF EndWipe
  <2>2. TypeOK'
    BY <1>3, IdleRec DEF EndWipe, TypeOK, OpRec
  <2>. QED BY <2>1, <2>2, IdleAgain DEF BlobInv
<1>. QED BY <1>1, <1>2, <1>3

LEMMA FaultStep ==
  ASSUME BlobAssumption, BlobInv,
         (\E b \in Blobs : Age(b)) \/ Crash \/ RollBack \/ Boot \/ UNCHANGED vars
  PROVE  BlobInv'
<1>. op \in OpRec /\ TypeOK
  BY DEF BlobInv, TypeOK, OpRec
<1>1. ASSUME NEW b \in Blobs, Age(b) PROVE BlobInv'
  <2>1. Present' = Present
    BY <1>1 DEF Age, Present, TypeOK
  <2>2. TypeOK'
    BY <1>1 DEF Age, TypeOK
  <2>. QED
    BY <1>1, <2>1, <2>2
    DEF Age, BlobInv, PruneState, GoneAccounted, SnapshotCovers, WipeHasNoRows,
        SurvivorsHaveBlobs, Referenced
<1>2. CASE Crash \/ RollBack
  <2>1. /\ op' = Idle /\ cut' = cut \cup op.unlinked /\ UNCHANGED <<files, rows>>
        /\ faults < MaxFaults /\ faults' = faults + 1 /\ up' \in BOOLEAN
    BY <1>2 DEF Crash, RollBack, Interrupted, TypeOK
  <2>2. faults' \in 0 .. MaxFaults
    BY <2>1 DEF TypeOK, BlobAssumption
  <2>3. TypeOK'
    BY <2>1, <2>2, IdleRec DEF TypeOK, OpRec
  <2>4. \A a \in Artifacts : rows'[a] # None => rows'[a] \in Present \cup cut'
    BY <2>1 DEF BlobInv, GoneAccounted, SurvivorsHaveBlobs
  <2>5. Present' = Present
    BY <2>1 DEF Present
  <2>. QED
    BY <2>1, <2>3, <2>4, <2>5
    DEF BlobInv, Idle, PruneState, GoneAccounted, SnapshotCovers, WipeHasNoRows,
        SurvivorsHaveBlobs
<1>3. CASE Boot \/ UNCHANGED vars
  <2>1. UNCHANGED <<files, rows, op, cut, faults>> /\ up' \in BOOLEAN
    BY <1>3 DEF Boot, vars, TypeOK
  <2>. QED
    BY <2>1
    DEF BlobInv, TypeOK, PruneState, GoneAccounted, SnapshotCovers, WipeHasNoRows,
        SurvivorsHaveBlobs, Present, Referenced
<1>. QED BY <1>1, <1>2, <1>3

\* Types, and the accounts of whoever holds the mutex.
THEOREM BlobsInductive == Spec => []BlobInv
<1>1. Init => BlobInv
  BY BlobsStart, BlobAssumption
<1>2. BlobInv /\ [Next]_vars => BlobInv'
  BY BlobAssumption, IntakeStep, PruneStep, SweepStep, WipeStep, FaultStep DEF Next, Proceed
<1>. QED BY <1>1, <1>2, PTL DEF Spec

\* A committed row that no open prune has deleted has its file, or lost it to
\* an interrupted prune.
THEOREM BlobsSurvive == Spec => []SurvivorsHaveBlobs
BY BlobsInductive, PTL DEF BlobInv

-----------------------------------------------------------------------------
(* Bytes: what the files of a set weigh, one cell per byte. *)

Cells(w, C) == UNION {{c} \X (1 .. w[c]) : c \in C}

LEMMA CellsAreFinite ==
  ASSUME NEW C, IsFiniteSet(C), NEW w, \A c \in C : w[c] \in Nat
  PROVE  IsFiniteSet(Cells(w, C))
<1>. DEFINE T == {{c} \X (1 .. w[c]) : c \in C}
            f == [c \in C |-> {c} \X (1 .. w[c])]
<1>1. f \in Surjection(C, T)
  BY DEF Surjection
<1>2. IsFiniteSet(T)
  BY <1>1, FS_Surjection
<1>3. \A t \in T : IsFiniteSet(t)
  <2>. SUFFICES ASSUME NEW c \in C PROVE IsFiniteSet({c} \X (1 .. w[c]))
    OBVIOUS
  <2>1. IsFiniteSet({c})
    BY FS_Singleton
  <2>2. 0 + 1 \in Int /\ w[c] \in Int
    OBVIOUS
  <2>3. IsFiniteSet(1 .. w[c])
    BY <2>2, FS_Interval
  <2>. QED BY <2>1, <2>3, FS_Product
<1>. QED BY <1>2, <1>3, FS_UNION DEF Cells

\* Sets that share nothing weigh together what they weigh apart.
LEMMA CellsAdd ==
  ASSUME NEW A, NEW B, IsFiniteSet(A), IsFiniteSet(B), A \cap B = {},
         NEW w, \A c \in A \cup B : w[c] \in Nat
  PROVE  /\ Cardinality(Cells(w, A)) \in Nat /\ Cardinality(Cells(w, B)) \in Nat
         /\ Cardinality(Cells(w, A \cup B)) = Cardinality(Cells(w, A)) + Cardinality(Cells(w, B))
<1>1. IsFiniteSet(Cells(w, A)) /\ IsFiniteSet(Cells(w, B))
  BY CellsAreFinite
<1>2. Cells(w, A \cup B) = Cells(w, A) \cup Cells(w, B)
  BY DEF Cells
<1>3. Cells(w, A) \cap Cells(w, B) = {}
  BY DEF Cells
<1>4. Cardinality(Cells(w, A) \cap Cells(w, B)) = 0
  BY <1>3, FS_EmptySet
<1>5. Cardinality(Cells(w, A)) \in Nat /\ Cardinality(Cells(w, B)) \in Nat
  BY <1>1, FS_CardinalityType
<1>6. Cardinality(Cells(w, A) \cup Cells(w, B)) =
        Cardinality(Cells(w, A)) + Cardinality(Cells(w, B)) - Cardinality(Cells(w, A) \cap Cells(w, B))
  BY <1>1, FS_Union
<1>7. Cardinality(Cells(w, A \cup B)) = Cardinality(Cells(w, A) \cup Cells(w, B))
  BY <1>2
<1>8. Cardinality(Cells(w, A) \cup Cells(w, B)) = Cardinality(Cells(w, A)) + Cardinality(Cells(w, B))
  BY ONLY <1>4, <1>5, <1>6
<1>. QED BY <1>5, <1>7, <1>8

LEMMA UsageAdds ==
  ASSUME BlobAssumption, NEW A \in SUBSET Blobs, NEW B \in SUBSET Blobs, A \cap B = {}
  PROVE  Usage(A) \in Nat /\ Usage(B) \in Nat /\ Usage(A \cup B) = Usage(A) + Usage(B)
<1>1. IsFiniteSet(A) /\ IsFiniteSet(B) /\ \A c \in A \cup B : Size[c] \in Nat
  BY FS_Subset DEF BlobAssumption
<1>2. \A S : Usage(S) = Cardinality(Cells(Size, S))
  BY DEF Usage, Cells
<1>3. /\ Cardinality(Cells(Size, A)) \in Nat /\ Cardinality(Cells(Size, B)) \in Nat
      /\ Cardinality(Cells(Size, A \cup B)) = Cardinality(Cells(Size, A)) + Cardinality(Cells(Size, B))
  BY <1>1, CellsAdd
<1>. QED BY <1>2, <1>3

LEMMA BytesAdd ==
  ASSUME RetentionAssumption, NEW A \in SUBSET Contents, NEW B \in SUBSET Contents, A \cap B = {}
  PROVE  Bytes(A) \in Nat /\ Bytes(B) \in Nat /\ Bytes(A \cup B) = Bytes(A) + Bytes(B)
<1>1. IsFiniteSet(A) /\ IsFiniteSet(B) /\ \A c \in A \cup B : BytesOf[c] \in Nat
  BY FS_Subset DEF RetentionAssumption
<1>2. \A S : Bytes(S) = Cardinality(Cells(BytesOf, S))
  BY DEF Bytes, Cells
<1>3. /\ Cardinality(Cells(BytesOf, A)) \in Nat /\ Cardinality(Cells(BytesOf, B)) \in Nat
      /\ Cardinality(Cells(BytesOf, A \cup B)) = Cardinality(Cells(BytesOf, A)) + Cardinality(Cells(BytesOf, B))
  BY <1>1, CellsAdd
<1>. QED BY <1>2, <1>3

-----------------------------------------------------------------------------
(* The limit of a batch. *)

\* What a batch measured is still so: it has nothing left to write, or all of it fits.
BatchFits ==
  op.kind = "batch" => Wanted \subseteq Present \/ Usage(Present \cup Wanted) <= Limit

FitInv == BlobInv /\ BatchFits

\* A limited batch never fills the tree beyond its limit, whoever ages, trims or
\* fails beside it, for every set of files.
THEOREM BatchesFit == Spec => LimitedIntakeFits
<1>. USE BlobAssumption
<1>1. Init => BatchFits
  BY DEF Init, BatchFits, Idle
<1>2. ASSUME BlobInv, BlobInv', BatchFits, [Next]_vars
      PROVE  BatchFits' /\ (op.kind = "batch" /\ Present' # Present => Usage(Present') <= Limit)
  <2>. op \in OpRec /\ TypeOK /\ Present \subseteq Blobs
    BY <1>2 DEF BlobInv, TypeOK, OpRec, Present
  <2>1. ASSUME NEW adds \in [Artifacts -> Blobs \cup {None}], BeginBatch(adds)
        PROVE  BatchFits' /\ op.kind = "idle"
    <3>. DEFINE wanted == {adds[a] : a \in Artifacts} \ {None}
                new == {adds[a] : a \in Artifacts} \ (Present \cup {None})
    <3>1. op'.adds = adds /\ Present' = Present /\ op.kind = "idle"
      BY <2>1 DEF BeginBatch, Idle, Free, Present, NoRows
    <3>2. Wanted' = wanted
      BY <3>1 DEF Wanted
    <3>3. new \subseteq Blobs /\ Present \cup wanted = Present \cup new /\ Present \cap new = {}
      OBVIOUS
    <3>4. Usage(Present \cup new) = Usage(Present) + Usage(new)
      BY <3>3, UsageAdds
    <3>5. new = {} \/ Usage(Present) + Usage(new) <= Limit
      BY <2>1 DEF BeginBatch
    <3>6. new = {} => wanted \subseteq Present
      OBVIOUS
    <3>7. wanted \subseteq Present \/ Usage(Present \cup wanted) <= Limit
      BY <3>3, <3>4, <3>5, <3>6
    <3>. QED BY <3>1, <3>2, <3>7 DEF BatchFits
  <2>2. ASSUME NEW b \in Blobs, WriteBlob(b)
        PROVE  /\ BatchFits'
               /\ op.kind = "batch" => Usage(Present') <= Limit
    <3>1. Present' = Present \cup {b} /\ Wanted' = Wanted /\ b \in Wanted \ Present
      BY <2>2 DEF WriteBlob, Present, TypeOK, Wanted
    <3>2. Wanted \subseteq Blobs
      BY DEF OpRec, Wanted
    <3>. DEFINE A == Present \cup {b}   B == (Present \cup Wanted) \ A
    <3>3. A \subseteq Blobs /\ B \subseteq Blobs /\ A \cap B = {} /\ A \cup B = Present \cup Wanted
      BY <3>1, <3>2
    <3>4. Usage(A) \in Nat /\ Usage(B) \in Nat /\ Usage(A \cup B) = Usage(A) + Usage(B)
      BY <3>3, UsageAdds
    <3>5. Usage(Present \cup Wanted) \in Nat /\ Usage(A) <= Usage(Present \cup Wanted)
      BY <3>3, <3>4
    <3>6. A \cup Wanted = Present \cup Wanted
      BY <3>1
    <3>7. op' = op /\ Present' \cup Wanted' = Present \cup Wanted
      BY <2>2, <3>1, <3>6 DEF WriteBlob
    <3>8. op.kind = "batch" => Usage(Present \cup Wanted) <= Limit
      BY <1>2, <3>1 DEF BatchFits
    <3>9. Usage(Present') = Usage(A) /\ Usage(Present' \cup Wanted') = Usage(Present \cup Wanted)
      BY <3>1, <3>7
    <3>10. BatchFits'
      BY <3>7, <3>8, <3>9 DEF BatchFits
    <3>. QED BY <3>4, <3>5, <3>8, <3>9, <3>10 DEF BlobAssumption
  <2>3. ASSUME op'.kind # "batch", op.kind # "batch" \/ Present' = Present
        PROVE  BatchFits' /\ (op.kind = "batch" /\ Present' # Present => Usage(Present') <= Limit)
    BY <2>3 DEF BatchFits
  <2>4. ASSUME UNCHANGED op, Present' = Present \/ op.kind # "batch"
        PROVE  BatchFits' /\ (op.kind = "batch" /\ Present' # Present => Usage(Present') <= Limit)
    BY <1>2, <2>4 DEF BatchFits, Wanted
  <2>5. ASSUME NEW a \in Artifacts, NEW b \in Blobs, BeginPut(a, b)
        PROVE  op'.kind # "batch" /\ Present' = Present
    BY <2>5 DEF BeginPut, Idle, Present
  <2>6. ASSUME CommitIntake \/ CommitPrune \/ EndSweep \/ EndWipe \/ Crash \/ RollBack
        PROVE  op'.kind # "batch" /\ Present' = Present
    BY <2>6 DEF CommitIntake, CommitPrune, EndSweep, EndWipe, Crash, RollBack, Interrupted, Idle, Present
  <2>7. ASSUME (\E S \in SUBSET Artifacts : BeginPrune(S)) \/ BeginSweep \/ BeginWipe
        PROVE  op'.kind # "batch" /\ Present' = Present
    BY <2>7 DEF BeginPrune, BeginSweep, BeginWipe, Idle, Present
  <2>8. ASSUME NEW b \in Blobs, SweepFile(b) \/ WipeFile(b)
        PROVE  UNCHANGED op /\ op.kind # "batch"
    BY <2>8 DEF SweepFile, WipeFile
  <2>9. ASSUME NEW a \in Artifacts, PruneRow(a)
        PROVE  op.kind # "batch" /\ op'.kind # "batch"
    BY <2>9 DEF PruneRow, OpRec
  <2>10. ASSUME (\E a \in Artifacts : TrimEvent(a)) \/ (\E b \in Blobs : Age(b)) \/ Boot \/ UNCHANGED vars
         PROVE  UNCHANGED op /\ Present' = Present
    BY <2>10 DEF TrimEvent, Age, Boot, vars, Present, TypeOK
  <2>. QED
    BY <1>2, <2>1, <2>2, <2>3, <2>4, <2>5, <2>6, <2>7, <2>8, <2>9, <2>10 DEF Next, Proceed
<1>3. BlobInv /\ BlobInv' /\ BatchFits /\ [Next]_vars =>
        BatchFits' /\ [op.kind = "batch" /\ Present' # Present => Usage(Present') <= Limit]_vars
  BY <1>2
<1>. QED BY <1>1, <1>3, BlobsInductive, PTL DEF Spec, LimitedIntakeFits

-----------------------------------------------------------------------------
(* The quota. *)

Pcs   == {"rest", "age", "blobs", "total", "media", "metadata", "vacuum", "sweep"}
PassRec == [pc : Pcs, est : Nat, cutoff : 0 .. n, left : 0 .. Rounds, wiped : BOOLEAN]

\* The estimate the media tier works with is above the target and, but for a wipe,
\* not above what is on the disk.
EstimateLow ==
  pass.pc = "media" => pass.est > Target /\ (~pass.wiped => pass.est <= DiskUsage)

\* The metadata tier stays behind the freshness floor as it was when it began.
BehindFloor == pass.pc = "metadata" => pass.cutoff <= old /\ pass.left >= 1

PassInv == RetentionTypeOK /\ EstimateLow /\ BehindFloor

\* What the weights of the disk are.
LEMMA DiskWeighs ==
  ASSUME RetentionAssumption, RetentionTypeOK
  PROVE  /\ IsFiniteSet(events) /\ Cardinality(events) \in Nat
         /\ Bytes(tree) \in Nat /\ DiskUsage \in Nat
<1>1. n \in Int /\ 1 \in Int
  BY DEF RetentionAssumption, RetentionTypeOK
<1>2. IsFiniteSet(1 .. n)
  BY <1>1, FS_Interval
<1>3. IsFiniteSet(events) /\ Cardinality(events) \in Nat
  BY <1>2, FS_Subset, FS_CardinalityType DEF RetentionTypeOK
<1>4. Bytes(tree) \in Nat
  <2>1. tree \in SUBSET Contents /\ {} \in SUBSET Contents /\ tree \cap {} = {}
    BY DEF RetentionTypeOK
  <2>. QED BY <2>1, BytesAdd
<1>5. DiskUsage \in Nat
  BY <1>3, <1>4 DEF DiskUsage, RetentionTypeOK
<1>. QED BY <1>3, <1>4, <1>5

\* A batch of artifacts rows takes off the disk what it counts as freed.
LEMMA DropsAreCounted ==
  ASSUME RetentionAssumption, RetentionTypeOK, NEW R \in SUBSET Ids, DropArtifacts(R)
  PROVE  /\ art' \in [Ids -> Contents \cup {NoArt}]
         /\ tree' \subseteq Contents /\ fresh' \subseteq tree'
         /\ Bytes(Freed(R)) \in Nat /\ Bytes(tree') \in Nat
         /\ Bytes(tree) = Bytes(tree') + Bytes(Freed(R))
<1>1. art' \in [Ids -> Contents \cup {NoArt}]
  BY DEF DropArtifacts, RetentionTypeOK
<1>2. Freed(R) \subseteq tree /\ tree' = tree \ Freed(R) /\ fresh' = fresh \ Freed(R)
  BY DEF Freed, DropArtifacts
<1>3. /\ tree' \in SUBSET Contents /\ Freed(R) \in SUBSET Contents
      /\ tree' \cap Freed(R) = {} /\ tree = tree' \cup Freed(R)
  BY <1>2 DEF RetentionTypeOK
<1>4. /\ Bytes(tree') \in Nat /\ Bytes(Freed(R)) \in Nat
      /\ Bytes(tree' \cup Freed(R)) = Bytes(tree') + Bytes(Freed(R))
  BY <1>3, BytesAdd
<1>5. fresh' \subseteq tree'
  BY <1>2 DEF RetentionTypeOK
<1>. QED BY <1>1, <1>3, <1>4, <1>5

\* What the steps around a pass may do to it.
LEMMA AroundThePass ==
  ASSUME RetentionAssumption, PassInv,
         \/ \E c \in Contents \cup {NoArt} : Capture(c)
         \/ AgeEvent \/ AgeFile \/ WipeStore \/ UNCHANGED retentionVars
  PROVE  PassInv' /\ (WipeStore => pass'.wiped /\ events' = {})
<1>0. RetentionTypeOK /\ pass \in PassRec
  BY DEF PassInv, RetentionTypeOK, PassRec, Pcs
<1>1. ASSUME NEW c \in Contents \cup {NoArt}, Capture(c) PROVE PassInv' /\ ~WipeStore
  <2>1. n \in Nat /\ MaxEvents \in Nat /\ n < MaxEvents /\ n' = n + 1 /\ old' = old /\ pass' = pass
    BY <1>0, <1>1 DEF Capture, RetentionTypeOK, RetentionAssumption
  <2>2. n' \in 0 .. MaxEvents /\ old' \in 0 .. n' /\ 0 .. n \subseteq 0 .. n'
    BY <1>0, <2>1 DEF RetentionTypeOK
  <2>3. n + 1 \in Ids /\ 1 .. n \subseteq 1 .. n' /\ n + 1 \in 1 .. n' /\ n + 1 \notin events
    BY <1>0, <2>1 DEF Ids, RetentionTypeOK
  <2>4. events' = events \cup {n + 1} /\ events' \subseteq 1 .. n'
    BY <1>0, <1>1, <2>3 DEF Capture, RetentionTypeOK
  <2>5. art' \in [Ids -> Contents \cup {NoArt}]
    BY <1>0, <1>1, <2>3 DEF Capture, RetentionTypeOK
  <2>6. tree \subseteq tree' /\ tree' \subseteq Contents /\ fresh' \subseteq tree'
    BY <1>0, <1>1 DEF Capture, RetentionTypeOK, RetentionAssumption
  <2>7. pages' \in Nat /\ pages' + 1 >= pages
    BY <1>0, <1>1 DEF Capture, RetentionTypeOK, Less
  <2>8. pass' \in [pc : Pcs, est : Nat, cutoff : 0 .. n', left : 0 .. Rounds, wiped : BOOLEAN]
    BY <1>0, <2>1, <2>2 DEF PassRec
  <2>9. RetentionTypeOK'
    BY <2>2, <2>4, <2>5, <2>6, <2>7, <2>8 DEF RetentionTypeOK, Pcs
  <2>10. DiskUsage' >= DiskUsage /\ DiskUsage \in Nat /\ DiskUsage' \in Nat
    <3>1. /\ IsFiniteSet(events) /\ Cardinality(events) \in Nat /\ Bytes(tree) \in Nat /\ DiskUsage \in Nat
      BY <1>0, DiskWeighs
    <3>2. Cardinality(events') = Cardinality(events) + 1
      BY <2>3, <2>4, <3>1, FS_AddElement
    <3>3. Bytes(tree') \in Nat /\ Bytes(tree') >= Bytes(tree)
      <4>. DEFINE more == tree' \ tree
      <4>1. /\ tree \in SUBSET Contents /\ more \in SUBSET Contents
            /\ tree \cap more = {} /\ tree' = tree \cup more
        BY <2>6
      <4>2. /\ Bytes(tree) \in Nat /\ Bytes(more) \in Nat
            /\ Bytes(tree \cup more) = Bytes(tree) + Bytes(more)
        BY <4>1, BytesAdd
      <4>. HIDE DEF more
      <4>. QED BY <4>1, <4>2
    <3>4. DiskUsage' = Bytes(tree') + Cardinality(events') + pages'
      BY DEF DiskUsage, Bytes
    <3>5. DiskUsage = Bytes(tree) + Cardinality(events) + pages /\ pages \in Nat
      BY <1>0 DEF DiskUsage, RetentionTypeOK
    <3>6. DiskUsage' = Bytes(tree') + (Cardinality(events) + 1) + pages'
      BY <3>2, <3>4
    <3>7. \A b, b2, e, p, p2 \in Nat : b2 >= b /\ p2 + 1 >= p =>
            b2 + (e + 1) + p2 >= b + e + p /\ b2 + (e + 1) + p2 \in Nat
      OBVIOUS
    <3>. QED BY <2>7, <3>1, <3>3, <3>5, <3>6, <3>7
  <2>11. EstimateLow'
    BY <1>0, <2>1, <2>10 DEF PassInv, EstimateLow, PassRec
  <2>12. BehindFloor'
    BY <2>1 DEF PassInv, BehindFloor
  <2>13. ~WipeStore
    BY <2>1 DEF WipeStore
  <2>. QED BY <2>9, <2>11, <2>12, <2>13 DEF PassInv
<1>2. CASE AgeEvent \/ AgeFile \/ UNCHANGED retentionVars
  <2>1. /\ UNCHANGED <<events, n, art, tree, pages, pass>> /\ fresh' \subseteq tree
        /\ old' = old \/ (old < n /\ old' = old + 1)
    BY <1>0, <1>2 DEF AgeEvent, AgeFile, retentionVars, RetentionTypeOK
  <2>2. old' \in 0 .. n /\ old' >= old /\ old \in Nat
    BY <1>0, <2>1 DEF RetentionTypeOK, RetentionAssumption
  <2>3. RetentionTypeOK'
    BY <1>0, <2>1, <2>2 DEF RetentionTypeOK
  <2>4. DiskUsage' = DiskUsage
    BY <2>1 DEF DiskUsage
  <2>5. EstimateLow'
    BY <2>1, <2>4 DEF PassInv, EstimateLow
  <2>6. BehindFloor'
    BY <1>0, <2>1, <2>2 DEF PassInv, BehindFloor, RetentionTypeOK, RetentionAssumption
  <2>7. WipeStore => FALSE
    BY <2>1 DEF WipeStore
  <2>. QED BY <2>3, <2>5, <2>6, <2>7 DEF PassInv
<1>3. CASE WipeStore
  <2>1. /\ pass' = [pass EXCEPT !.wiped = TRUE] /\ events' = {} /\ tree' = {} /\ fresh' = {}
        /\ art' = [i \in Ids |-> NoArt] /\ pages' = pages + Cardinality(events) /\ UNCHANGED <<n, old>>
    BY <1>3 DEF WipeStore
  <2>2. /\ pass' \in PassRec /\ pass'.wiped /\ pass'.pc = pass.pc /\ pass'.est = pass.est
        /\ pass'.cutoff = pass.cutoff /\ pass'.left = pass.left
    BY <1>0, <2>1 DEF PassRec
  <2>3. pages' \in Nat
    BY <1>0, <2>1, DiskWeighs DEF RetentionTypeOK
  <2>4. RetentionTypeOK'
    BY <1>0, <2>1, <2>2, <2>3 DEF RetentionTypeOK, PassRec, Pcs
  <2>. QED BY <2>1, <2>2, <2>4 DEF PassInv, EstimateLow, BehindFloor
<1>. QED BY <1>1, <1>2, <1>3

\* A step that only moves the pass on, to a place where nothing is promised.
LEMMA MovesOn ==
  ASSUME RetentionAssumption, PassInv, UNCHANGED <<events, n, old>>,
         NEW pc \in Pcs \ {"media", "metadata"}, Goto(pc),
         art' \in [Ids -> Contents \cup {NoArt}], tree' \subseteq Contents, fresh' \subseteq tree',
         pages' \in Nat
  PROVE  PassInv'
<1>1. pass' \in PassRec /\ pass'.pc = pc
  BY DEF PassInv, RetentionTypeOK, PassRec, Pcs, Goto
<1>. QED BY <1>1 DEF PassInv, RetentionTypeOK, EstimateLow, BehindFloor, PassRec, Pcs

LEMMA MediaStep ==
  ASSUME RetentionAssumption, PassInv, TrimMedia
  PROVE  PassInv' /\ UNCHANGED events
<1>0. RetentionTypeOK /\ pass \in PassRec /\ pass.pc = "media"
  BY DEF PassInv, RetentionTypeOK, PassRec, Pcs, TrimMedia
<1>1. PICK R \in {MediaRowsToDrop(Less(pass.est, Target))} :
        LET freed == Bytes(Freed(R))
            est   == Less(pass.est, freed)
        IN  /\ DropArtifacts(R)
            /\ pass' = [pass EXCEPT
                 !.est = est,
                 !.pc = CASE freed = 0     -> "metadata"
                          [] est <= Target -> "vacuum"
                          [] OTHER         -> "media",
                 !.cutoff = old, !.left = Rounds]
  BY DEF TrimMedia
<1>2. R \in SUBSET Ids
  BY <1>1 DEF MediaRowsToDrop, Oldest, MediaRows
<1>. DEFINE freed == Bytes(Freed(R))
            est   == Less(pass.est, freed)
            pc    == CASE freed = 0 -> "metadata" [] est <= Target -> "vacuum" [] OTHER -> "media"
<1>3. /\ art' \in [Ids -> Contents \cup {NoArt}] /\ tree' \subseteq Contents /\ fresh' \subseteq tree'
      /\ freed \in Nat /\ Bytes(tree') \in Nat /\ Bytes(tree) = Bytes(tree') + freed
  BY <1>0, <1>1, <1>2, DropsAreCounted
<1>4. /\ pass.est \in Nat /\ Target \in Nat /\ old \in 0 .. n /\ Rounds \in 0 .. Rounds /\ Rounds >= 1
      /\ n \in Nat /\ old <= old
  BY <1>0 DEF RetentionAssumption, RetentionTypeOK, PassRec
<1>5. est \in Nat /\ (est > 0 => est = pass.est - freed) /\ est >= 0
  BY <1>3, <1>4 DEF Less
<1>6. pc \in {"metadata", "vacuum", "media"} /\ (pc = "media" => est > Target)
  BY <1>4, <1>5
<1>7. pass' = [pass EXCEPT !.est = est, !.pc = pc, !.cutoff = old, !.left = Rounds]
  BY <1>1
<1>. HIDE DEF est, pc, freed
<1>8. /\ pass' \in PassRec /\ pass'.est = est /\ pass'.pc = pc /\ pass'.cutoff = old
      /\ pass'.left = Rounds /\ pass'.wiped = pass.wiped
  BY <1>0, <1>4, <1>5, <1>6, <1>7 DEF PassRec, Pcs
<1>9. UNCHANGED <<events, n, old, pages>>
  BY DEF TrimMedia
<1>10. RetentionTypeOK'
  BY <1>0, <1>3, <1>8, <1>9 DEF RetentionTypeOK, PassRec, Pcs
<1>11. EstimateLow'
  <2>1. /\ DiskUsage = Bytes(tree) + Cardinality(events) + pages /\ DiskUsage \in Nat
        /\ Cardinality(events) \in Nat /\ pages \in Nat
    BY <1>0, DiskWeighs DEF DiskUsage, RetentionTypeOK
  <2>2. DiskUsage' = Bytes(tree') + Cardinality(events) + pages
    BY <1>9 DEF DiskUsage, Bytes
  <2>3. DiskUsage' + freed = DiskUsage /\ DiskUsage' \in Nat
    BY <1>3, <2>1, <2>2
  <2>4. ~pass.wiped => pass.est <= DiskUsage
    BY <1>0 DEF PassInv, EstimateLow
  <2>5. pass'.pc = "media" => est > Target
    BY <1>6, <1>8
  <2>6. pass'.pc = "media" /\ ~pass.wiped => est <= DiskUsage'
    BY <1>3, <1>4, <1>5, <2>1, <2>3, <2>4, <2>5
  <2>. QED BY <1>8, <2>5, <2>6 DEF EstimateLow
<1>12. BehindFloor'
  BY <1>4, <1>8, <1>9 DEF BehindFloor
<1>. QED BY <1>9, <1>10, <1>11, <1>12 DEF PassInv

LEMMA MetadataStep ==
  ASSUME RetentionAssumption, PassInv, TrimMetadata
  PROVE  PassInv' /\ \A i \in events \ events' : i <= old
<1>0. RetentionTypeOK /\ pass \in PassRec /\ pass.pc = "metadata" /\ pass.cutoff <= old /\ pass.left >= 1
  BY DEF PassInv, RetentionTypeOK, PassRec, Pcs, TrimMetadata, BehindFloor
<1>. DEFINE E   == Oldest({i \in events : i <= pass.cutoff}, MetaBatch)
            est == Less(pass.est, Cardinality(E))
            pc  == IF E = {} \/ est <= Target \/ pass.left = 1 THEN "vacuum" ELSE pass.pc
<1>1. E \subseteq events /\ \A i \in E : i <= pass.cutoff
  BY DEF Oldest
<1>2. Cardinality(E) \in Nat
  BY <1>0, <1>1, DiskWeighs, FS_Subset, FS_CardinalityType
<1>3. /\ events' = events \ E /\ pages' = pages + Cardinality(E)
      /\ art' = [i \in Ids |-> IF i \in E THEN NoArt ELSE art[i]]
      /\ pass' = [pass EXCEPT !.est = est, !.left = @ - 1, !.pc = pc]
      /\ UNCHANGED <<n, tree, fresh, old>>
  BY DEF TrimMetadata
<1>4. est \in Nat
  BY <1>0, <1>2 DEF PassRec, Less
<1>5. pc \in {"metadata", "vacuum"} /\ (pc = "metadata" => pass.left # 1)
  BY <1>0
<1>. HIDE DEF est, pc, E
<1>6. pass.left \in 0 .. Rounds /\ Rounds \in Nat
  BY <1>0 DEF PassRec, RetentionAssumption
<1>7. pass.left - 1 \in 0 .. Rounds /\ (pass.left # 1 => pass.left - 1 >= 1)
  BY <1>0, <1>6
<1>8. /\ pass' \in PassRec /\ pass'.pc = pc /\ pass'.cutoff = pass.cutoff /\ pass'.left = pass.left - 1
  BY <1>0, <1>3, <1>4, <1>5, <1>7 DEF PassRec, Pcs
<1>9. RetentionTypeOK'
  <2>1. pages' \in Nat /\ events' \subseteq 1 .. n'
    BY <1>0, <1>2, <1>3 DEF RetentionTypeOK
  <2>2. art' \in [Ids -> Contents \cup {NoArt}]
    BY <1>0, <1>3 DEF RetentionTypeOK
  <2>. QED BY <1>0, <1>3, <1>8, <2>1, <2>2 DEF RetentionTypeOK, PassRec, Pcs
<1>10. EstimateLow' /\ BehindFloor'
  BY <1>0, <1>3, <1>5, <1>7, <1>8 DEF EstimateLow, BehindFloor
<1>11. \A i \in events \ events' : i <= old
  <2>1. \A i \in events : i \in Nat
    BY <1>0 DEF RetentionTypeOK
  <2>2. pass.cutoff \in Nat /\ old \in Nat
    BY <1>0 DEF RetentionTypeOK, PassRec
  <2>. QED BY <1>0, <1>1, <1>3, <2>1, <2>2
<1>. QED BY <1>9, <1>10, <1>11 DEF PassInv

LEMMA OtherPassSteps ==
  ASSUME RetentionAssumption, PassInv,
         BeginPass \/ (\E k \in 0 .. n : PruneAged(k)) \/ BlobQuota \/ Measure \/ Vacuum \/ Sweep
  PROVE  PassInv' /\ UNCHANGED events /\ pass.pc # "media"
<1>0. RetentionTypeOK /\ pass \in PassRec
  BY DEF PassInv, RetentionTypeOK, PassRec, Pcs
<1>1. CASE BeginPass \/ Sweep
  <2>1. 0 \in 0 .. n /\ 0 \in 0 .. Rounds
    BY <1>0 DEF RetentionTypeOK, RetentionAssumption
  <2>2. Resting \in PassRec /\ Resting.pc = "rest"
    BY <2>1 DEF Resting, PassRec, Pcs
  <2>3. pass' \in PassRec /\ pass'.pc \in {"rest", "age"}
    <3>1. CASE BeginPass
      <4>1. pass' = [Resting EXCEPT !.pc = "age"]
        BY <3>1 DEF BeginPass
      <4>. QED BY <2>2, <4>1 DEF PassRec, Pcs
    <3>2. CASE Sweep
      BY <2>2, <3>2 DEF Sweep
    <3>. QED BY <1>1, <3>1, <3>2
  <2>4. /\ UNCHANGED <<events, n, art, fresh, old>> /\ tree' \subseteq tree /\ fresh \subseteq tree'
        /\ pages' \in Nat /\ pass.pc # "media"
    BY <1>0, <1>1 DEF BeginPass, Sweep, RetentionTypeOK
  <2>5. RetentionTypeOK'
    BY <1>0, <2>3, <2>4 DEF RetentionTypeOK, PassRec, Pcs
  <2>. QED BY <2>3, <2>4, <2>5 DEF PassInv, EstimateLow, BehindFloor
<1>2. ASSUME NEW k \in 0 .. n, PruneAged(k)
      PROVE  PassInv' /\ UNCHANGED events /\ pass.pc # "media"
  <2>1. PICK R \in {{i \in MediaRows(Shots) : i <= k}} : DropArtifacts(R)
    BY <1>2 DEF PruneAged
  <2>2. R \in SUBSET Ids
    BY <2>1 DEF MediaRows
  <2>3. art' \in [Ids -> Contents \cup {NoArt}] /\ tree' \subseteq Contents /\ fresh' \subseteq tree'
    BY <1>0, <2>1, <2>2, DropsAreCounted
  <2>4. UNCHANGED <<events, n, old, pages>> /\ Goto("blobs") /\ pass.pc = "age"
    BY <1>2 DEF PruneAged
  <2>. QED BY <1>0, <2>3, <2>4, MovesOn DEF RetentionTypeOK, Pcs
<1>3. CASE BlobQuota
  <2>1. UNCHANGED <<events, n, old, pages>> /\ Goto("total") /\ pass.pc = "blobs"
    BY <1>3 DEF BlobQuota
  <2>2. art' \in [Ids -> Contents \cup {NoArt}] /\ tree' \subseteq Contents /\ fresh' \subseteq tree'
    <3>1. CASE UNCHANGED <<art, tree, fresh>>
      BY <1>0, <3>1 DEF RetentionTypeOK
    <3>2. CASE ~UNCHANGED <<art, tree, fresh>>
      <4>1. PICK R : DropArtifacts(R) /\ \E k : R = Oldest(MediaRows(Shots), k * Batch)
        BY <1>3, <3>2 DEF BlobQuota
      <4>2. R \in SUBSET Ids
        BY <4>1 DEF MediaRows, Oldest
      <4>. QED BY <1>0, <4>1, <4>2, DropsAreCounted
    <3>. QED BY <3>1, <3>2
  <2>. QED BY <1>0, <2>1, <2>2, MovesOn DEF RetentionTypeOK, Pcs
<1>4. CASE Measure
  <2>1. /\ UNCHANGED <<events, n, art, tree, fresh, old, pages>> /\ pass.pc = "total"
        /\ pass' = [pass EXCEPT !.est = DiskUsage, !.pc = IF DiskUsage > Target THEN "media" ELSE "vacuum"]
    BY <1>4 DEF Measure
  <2>2. DiskUsage' = DiskUsage /\ DiskUsage \in Nat
    BY <1>0, <2>1, DiskWeighs DEF DiskUsage
  <2>3. /\ pass' \in PassRec /\ pass'.est = DiskUsage
        /\ pass'.pc = (IF DiskUsage > Target THEN "media" ELSE "vacuum")
    BY <1>0, <2>1, <2>2 DEF PassRec, Pcs
  <2>4. RetentionTypeOK'
    BY <1>0, <2>1, <2>3 DEF RetentionTypeOK, PassRec, Pcs
  <2>5. EstimateLow' /\ BehindFloor'
    BY <2>2, <2>3 DEF EstimateLow, BehindFloor
  <2>. QED BY <2>1, <2>4, <2>5 DEF PassInv
<1>5. CASE Vacuum
  <2>1. /\ UNCHANGED <<events, n, art, tree, fresh, old>> /\ Goto("sweep") /\ pass.pc = "vacuum"
        /\ pages' \in Nat
    BY <1>0, <1>5 DEF Vacuum, RetentionTypeOK
  <2>. QED BY <1>0, <2>1, MovesOn DEF RetentionTypeOK, Pcs
<1>. QED BY <1>1, <1>2, <1>3, <1>4, <1>5

\* PassInv accounts for the pass whatever is captured, ages or is wiped in it.
THEOREM PassInductive == RetentionSpec => []PassInv
<1>1. RetentionInit => PassInv
  <2>. SUFFICES ASSUME RetentionInit PROVE PassInv
    OBVIOUS
  <2>1. 0 \in 0 .. MaxEvents /\ 0 \in 0 .. 0 /\ 0 \in 0 .. Rounds
    BY RetentionAssumption DEF RetentionAssumption
  <2>2. RetentionTypeOK
    BY <2>1 DEF RetentionInit, RetentionTypeOK, Resting
  <2>. QED BY <2>2 DEF RetentionInit, PassInv, EstimateLow, BehindFloor, Resting
<1>2. PassInv /\ [RetentionNext]_retentionVars => PassInv'
  BY RetentionAssumption, AroundThePass, MediaStep, MetadataStep, OtherPassSteps
  DEF RetentionNext, PassStep
<1>. QED BY <1>1, <1>2, PTL DEF RetentionSpec

\* The media tier deletes only while the directory is over its target, and no tier
\* takes an event inside the freshness floor, for every limit, batch and content.
THEOREM TrimsArePromised == RetentionSpec => TrimsAsPromised
<1>1. PassInv /\ [RetentionNext]_retentionVars =>
        [pass.pc = "media" /\ ~pass.wiped /\ art' # art /\ n' = n => DiskUsage > Target \/ pass'.wiped]_retentionVars
  <2>. SUFFICES ASSUME PassInv, RetentionNext, pass.pc = "media", ~pass.wiped, art' # art, n' = n
                PROVE  DiskUsage > Target \/ pass'.wiped
    OBVIOUS
  <2>1. pass.est \in Nat /\ Target \in Nat /\ DiskUsage \in Nat
    BY RetentionAssumption, DiskWeighs DEF PassInv, RetentionTypeOK, RetentionAssumption
  <2>2. DiskUsage > Target
    BY <2>1 DEF PassInv, EstimateLow
  <2>. QED BY <2>2
<1>2. PassInv /\ [RetentionNext]_retentionVars =>
        [\A i \in events \ events' : i <= old \/ (pass'.wiped /\ events' = {})]_retentionVars
  <2>. SUFFICES ASSUME PassInv, RetentionNext
                PROVE  \A i \in events \ events' : i <= old \/ (pass'.wiped /\ events' = {})
    OBVIOUS
  <2>1. CASE PassStep
    BY <2>1, RetentionAssumption, MediaStep, MetadataStep, OtherPassSteps DEF PassStep
  <2>2. CASE WipeStore
    BY <2>2, RetentionAssumption, AroundThePass
  <2>3. CASE (\E c \in Contents \cup {NoArt} : Capture(c)) \/ AgeEvent \/ AgeFile
    BY <2>3 DEF Capture, AgeEvent, AgeFile
  <2>. QED BY <2>1, <2>2, <2>3 DEF RetentionNext
<1>. QED
  BY <1>1, <1>2, PassInductive, PTL
  DEF RetentionSpec, TrimsAsPromised, TrimsOnlyWhenOver, RecentHistoryKept

-----------------------------------------------------------------------------
(* The categories of the past. *)

Lists   == RuleLists \cup {<<>>}
Entry   == [source : {"absent", "pending", "failed", "found"}, category : Found \cup {Unknown}]
ScanRec == [pc : {"rest", "select", "next", "found", "reapply"}, todo : SUBSET Bundles,
            bundle : Bundles \cup {Unknown}, rules : Lists]

\* An entry that was found has a category; a pass has an application in hand only
\* between its lookup and the rows.
LookupType ==
  /\ DOMAIN category = Segs /\ rules \in Lists
  /\ cache \in [Bundles -> Entry] /\ scan \in [Passes -> ScanRec]
  /\ \A b \in Bundles : cache[b].source = "found" => cache[b].category \in Found
  /\ \A p \in Passes : At(p, "found") \/ At(p, "reapply") <=> scan[p].bundle # Unknown

LookupInv == LookupType /\ HistoryCatchesUp

\* Once an application was found its rows are never classified as unknown, whatever
\* the rules and the catalog say.
LEMMA FoundIsKnown ==
  ASSUME CategoryAssumption, LookupType, NEW b \in Bundles, cache[b].source = "found"
  PROVE  \A list, p, url : Classify(list, p, b, url) # Unknown
<1>. SUFFICES ASSUME NEW list, NEW p, NEW url PROVE Classify(list, p, b, url) # Unknown
  OBVIOUS
<1>. DEFINE said == <<Says(list, b, url), Says(catalog[p], b, url), Plist[b], Cached(b)>>
            hits == {i \in 1 .. 4 : said[i] # Unknown}
            First(i) == i \in hits /\ \A j \in hits : i <= j
<1>1. said[4] # Unknown
  BY DEF LookupType, Cached, CategoryAssumption
<1>. HIDE DEF said
<1>2. \E i : First(i)
  <2>1. hits \subseteq {1, 2, 3, 4} /\ 4 \in hits
    BY <1>1
  <2>2. CASE 1 \in hits
    BY <2>1, <2>2
  <2>3. CASE 1 \notin hits /\ 2 \in hits
    BY <2>1, <2>3
  <2>4. CASE 1 \notin hits /\ 2 \notin hits /\ 3 \in hits
    BY <2>1, <2>4
  <2>5. CASE 1 \notin hits /\ 2 \notin hits /\ 3 \notin hits
    BY <2>1, <2>5
  <2>. QED BY <2>2, <2>3, <2>4, <2>5
<1>3. First(CHOOSE i \in hits : \A j \in hits : i <= j)
  BY <1>2
<1>4. Classify(list, p, b, url) = said[CHOOSE i \in hits : \A j \in hits : i <= j]
  BY <1>3 DEF Classify, said
<1>. QED BY <1>3, <1>4

\* What the steps that leave the passes alone do to the rows.
LEMMA RowsKnown ==
  ASSUME CategoryAssumption, LookupInv,
         \/ \E s \in Segs : Store(s)
         \/ \E p \in Passes, list \in RuleLists : SaveRules(p, list)
         \/ \E content \in Catalogs \cup {<<Unknown>>} : EditCatalog(content)
         \/ WipeSegments \/ UNCHANGED categoryVars
  PROVE  LookupInv'
<1>0. LookupType /\ HistoryCatchesUp
  BY DEF LookupInv
<1>1. ASSUME NEW s \in Segs, Store(s) PROVE LookupInv'
  <2>. DEFINE b == BundleOf[s]
  <2>1. b \in Bundles
    BY DEF Bundles
  <2>2. PICK c : /\ category' = [category EXCEPT ![s] = c]
                 /\ c = Classify(rules, "daemon", b, UrlOf[s])
    BY <1>1 DEF Store
  <2>3. cache' = cache \/ (cache[b] = NoEntry /\ cache' = [cache EXCEPT ![b].source = "pending"])
    BY <1>1 DEF Store
  <2>4. UNCHANGED <<rules, scan, cutShort>>
    BY <1>1 DEF Store
  <2>5. /\ cache' \in [Bundles -> Entry]
        /\ \A d \in Bundles : cache'[d].source = "found" => cache[d] = cache'[d]
    BY <1>0, <2>1, <2>3 DEF LookupType, Entry, NoEntry
  <2>6. LookupType'
    BY <1>0, <2>2, <2>4, <2>5 DEF LookupType, At
  <2>7. cache[b].source = "found" => c # Unknown
    BY <1>0, <2>1, <2>2, FoundIsKnown
  <2>8. \A t \in Segs : category'[t] = IF t = s THEN c ELSE category[t]
    BY <1>0, <2>2 DEF LookupType
  <2>9. \A t \in Segs : BundleOf[t] \in Bundles
    BY DEF Bundles
  <2>10. HistoryCatchesUp'
    BY <1>0, <2>4, <2>5, <2>7, <2>8, <2>9 DEF HistoryCatchesUp, Seen
  <2>. QED BY <2>6, <2>10 DEF LookupInv
<1>2. ASSUME NEW p \in Passes, NEW list \in RuleLists, SaveRules(p, list) PROVE LookupInv'
  <2>1. /\ UNCHANGED <<cache, scan, cutShort>> /\ rules' = list
        /\ category' = [s \in Segs |->
             IF s \in Seen THEN Classify(list, p, BundleOf[s], UrlOf[s]) ELSE "unseen"]
    BY <1>2 DEF SaveRules
  <2>2. LookupType'
    BY <1>0, <2>1 DEF LookupType, At, Lists
  <2>3. \A s \in Segs : /\ BundleOf[s] \in Bundles
                       /\ category'[s] # "unseen" => category'[s] = Classify(list, p, BundleOf[s], UrlOf[s])
    BY <2>1 DEF Bundles
  <2>4. ASSUME NEW s \in Segs, category'[s] # "unseen", cache'[BundleOf[s]].source = "found"
        PROVE  category'[s] # Unknown
    <3>1. BundleOf[s] \in Bundles
      BY <2>4 DEF Bundles
    <3>2. cache' = cache
      BY <1>2 DEF SaveRules
    <3>3. cache[BundleOf[s]].source = "found"
      BY <2>4, <3>2
    <3>4. PICK b \in Bundles : b = BundleOf[s]
      BY <3>1
    <3>5. cache[b].source = "found"
      BY <3>3, <3>4
    <3>6. \A l, q, u : Classify(l, q, b, u) # Unknown
      BY <1>0, <3>5, FoundIsKnown
    <3>. QED BY <2>3, <2>4, <3>4, <3>6
  <2>. QED BY <2>2, <2>4 DEF LookupInv, HistoryCatchesUp, Seen
<1>3. CASE WipeSegments
  <2>1. UNCHANGED <<cache, scan, cutShort>> /\ rules' = <<>> /\ category' = [s \in Segs |-> "unseen"]
    BY <1>3 DEF WipeSegments
  <2>2. LookupType' /\ Seen' = {}
    BY <1>0, <2>1 DEF LookupType, At, Lists, Seen
  <2>. QED BY <2>2 DEF LookupInv, HistoryCatchesUp
<1>4. CASE (\E content \in Catalogs \cup {<<Unknown>>} : EditCatalog(content)) \/ UNCHANGED categoryVars
  <2>1. UNCHANGED <<cache, scan, cutShort, rules, category>>
    BY <1>4 DEF EditCatalog, categoryVars
  <2>2. Seen' = Seen
    BY <2>1 DEF Seen
  <2>. QED BY <1>0, <2>1, <2>2 DEF LookupInv, LookupType, HistoryCatchesUp, At
<1>. QED BY <1>1, <1>2, <1>3, <1>4

\* A pass: it has the application in hand from the lookup until its rows are written.
LEMMA PassesKnow ==
  ASSUME CategoryAssumption, LookupInv, NEW p \in Passes,
         \/ StartPass(p) \/ Select(p) \/ EndPass(p) \/ ReadsRules(p) \/ Reapplies(p) \/ CutShort(p)
         \/ \E b \in Bundles : FindsNothing(p, b) \/ \E c \in Found : Finds(p, b, c)
  PROVE  LookupInv'
<1>0. LookupType /\ HistoryCatchesUp
  BY DEF LookupInv
<1>1. \A s \in Segs : BundleOf[s] \in Bundles
  BY DEF Bundles
<1>2. scan[p] \in ScanRec /\ DOMAIN category = Segs /\ Unknown \notin Bundles
  BY <1>0 DEF LookupType, CategoryAssumption
\* Steps after which the pass holds what it held, and no entry is newly found.
<1>3. ASSUME scan' \in [Passes -> ScanRec], \A q \in Passes : scan'[q].bundle = scan[q].bundle,
             \A q \in Passes : At(q, "found") \/ At(q, "reapply") <=> scan'[q].pc \in {"found", "reapply"},
             cache' \in [Bundles -> Entry],
             \A b \in Bundles : cache'[b].source = "found" => cache'[b] = cache[b],
             UNCHANGED <<category, rules, cutShort>>
      PROVE  LookupInv'
  <2>1. LookupType'
    BY <1>0, <1>3 DEF LookupType, At
  <2>2. Seen' = Seen
    BY <1>3 DEF Seen
  <2>3. HistoryCatchesUp'
    BY <1>0, <1>1, <1>3, <2>2 DEF HistoryCatchesUp, Seen
  <2>. QED BY <2>1, <2>3 DEF LookupInv
<1>4. CASE StartPass(p)
  <2>1. /\ scan' = [scan EXCEPT ![p].pc = "select"] /\ At(p, "rest") /\ UNCHANGED <<category, rules, cutShort>>
        /\ cache' = [b \in Bundles |->
              IF cache[b] = NoEntry /\ \E s \in Seen : BundleOf[s] = b /\ category[s] = Unknown
              THEN [NoEntry EXCEPT !.source = "pending"] ELSE cache[b]]
    BY <1>4 DEF StartPass
  <2>2. [NoEntry EXCEPT !.source = "pending"] = [source |-> "pending", category |-> Unknown]
    BY DEF NoEntry
  <2>3. cache' \in [Bundles -> Entry] /\ \A b \in Bundles : cache'[b].source = "found" => cache'[b] = cache[b]
    BY <1>0, <2>1, <2>2 DEF LookupType, Entry
  <2>4. scan' \in [Passes -> ScanRec] /\ (\A q \in Passes : scan'[q].bundle = scan[q].bundle)
        /\ \A q \in Passes : At(q, "found") \/ At(q, "reapply") <=> scan'[q].pc \in {"found", "reapply"}
    BY <1>0, <1>2, <2>1 DEF LookupType, ScanRec, At
  <2>. QED BY <1>3, <2>1, <2>3, <2>4
<1>5. CASE Select(p)
  <2>1. PICK todo \in SUBSET Bundles : scan' = [scan EXCEPT ![p].pc = "next", ![p].todo = todo]
    BY <1>5 DEF Select
  <2>2. At(p, "select") /\ UNCHANGED <<category, rules, cutShort, cache>>
    BY <1>5 DEF Select
  <2>3. scan' \in [Passes -> ScanRec] /\ (\A q \in Passes : scan'[q].bundle = scan[q].bundle)
        /\ \A q \in Passes : At(q, "found") \/ At(q, "reapply") <=> scan'[q].pc \in {"found", "reapply"}
    BY <1>0, <1>2, <2>1, <2>2 DEF LookupType, ScanRec, At
  <2>. QED BY <1>0, <1>3, <2>2, <2>3 DEF LookupType
<1>6. CASE EndPass(p)
  <2>1. scan' = [scan EXCEPT ![p] = NoScan] /\ At(p, "next") /\ UNCHANGED <<category, rules, cutShort, cache>>
    BY <1>6 DEF EndPass
  <2>2. NoScan \in ScanRec /\ NoScan.bundle = Unknown /\ NoScan.pc = "rest"
    BY DEF NoScan, ScanRec, Lists
  <2>3. scan' \in [Passes -> ScanRec] /\ (\A q \in Passes : scan'[q].bundle = scan[q].bundle)
        /\ \A q \in Passes : At(q, "found") \/ At(q, "reapply") <=> scan'[q].pc \in {"found", "reapply"}
    BY <1>0, <2>1, <2>2 DEF LookupType, At
  <2>. QED BY <1>0, <1>3, <2>1, <2>3 DEF LookupType
<1>7. CASE ReadsRules(p)
  <2>1. /\ scan' = [scan EXCEPT ![p].pc = "reapply", ![p].rules = rules] /\ At(p, "found")
        /\ UNCHANGED <<category, rules, cutShort, cache>>
    BY <1>7 DEF ReadsRules
  <2>2. scan' \in [Passes -> ScanRec] /\ (\A q \in Passes : scan'[q].bundle = scan[q].bundle)
        /\ \A q \in Passes : At(q, "found") \/ At(q, "reapply") <=> scan'[q].pc \in {"found", "reapply"}
    BY <1>0, <1>2, <2>1 DEF LookupType, ScanRec, At
  <2>. QED BY <1>0, <1>3, <2>1, <2>2 DEF LookupType
<1>8. ASSUME NEW b \in Bundles, FindsNothing(p, b) PROVE LookupInv'
  <2>1. /\ scan' = [scan EXCEPT ![p].todo = @ \ {b}] /\ UNCHANGED <<category, rules, cutShort>>
        /\ cache' = [cache EXCEPT ![b].source = "failed"]
    BY <1>8 DEF FindsNothing
  <2>2. cache' \in [Bundles -> Entry] /\ \A d \in Bundles : cache'[d].source = "found" => cache'[d] = cache[d]
    BY <1>0, <2>1 DEF LookupType, Entry
  <2>3. scan' \in [Passes -> ScanRec] /\ (\A q \in Passes : scan'[q].bundle = scan[q].bundle)
        /\ \A q \in Passes : At(q, "found") \/ At(q, "reapply") <=> scan'[q].pc \in {"found", "reapply"}
    BY <1>0, <1>2, <2>1 DEF LookupType, ScanRec, At
  <2>. QED BY <1>3, <2>1, <2>2, <2>3
<1>9. ASSUME NEW b \in Bundles, NEW c \in Found, Finds(p, b, c) PROVE LookupInv'
  <2>1. /\ scan' = [scan EXCEPT ![p].pc = "found", ![p].bundle = b, ![p].todo = @ \ {b}] /\ UNCHANGED <<category, rules, cutShort>> /\ At(p, "next")
        /\ cache' = [cache EXCEPT ![b] = [source |-> "found", category |-> c]]
    BY <1>9 DEF Finds
  <2>3. /\ cache' \in [Bundles -> Entry]
        /\ \A d \in Bundles \ {b} : cache'[d] = cache[d]
        /\ cache'[b].category = c
    BY <1>0, <2>1 DEF LookupType, Entry
  <2>4. /\ scan' \in [Passes -> ScanRec] /\ scan'[p].bundle = b /\ scan'[p].pc = "found"
        /\ \A q \in Passes \ {p} : scan'[q] = scan[q]
        /\ scan[p].bundle = Unknown
    BY <1>0, <1>2, <2>1 DEF LookupType, ScanRec, At
  <2>5. LookupType'
    BY <1>0, <1>2, <2>1, <2>3, <2>4 DEF LookupType, At
  <2>6. HistoryCatchesUp'
    BY <1>0, <1>1, <1>2, <2>1, <2>3, <2>4 DEF HistoryCatchesUp, Seen
  <2>. QED BY <2>5, <2>6 DEF LookupInv
<1>10. CASE Reapplies(p)
  <2>. DEFINE b == scan[p].bundle
              row == [scan[p] EXCEPT !.pc = "next", !.bundle = Unknown, !.rules = <<>>]
  <2>1. /\ scan' = [scan EXCEPT ![p] = row] /\ UNCHANGED <<cache, rules, cutShort>> /\ At(p, "reapply")
        /\ category' = [s \in Segs |->
             IF s \in Seen /\ BundleOf[s] = b THEN Classify(scan[p].rules, p, b, Unknown) ELSE category[s]]
    BY <1>10 DEF Reapplies
  <2>2. row \in ScanRec /\ row.bundle = Unknown /\ row.pc = "next"
    BY <1>2 DEF ScanRec, Lists
  <2>3. b \in Bundles
    BY <1>0, <1>2, <2>1 DEF LookupType, ScanRec
  <2>. HIDE DEF row
  <2>4. /\ scan' \in [Passes -> ScanRec] /\ scan'[p].bundle = Unknown /\ scan'[p].pc = "next"
        /\ \A q \in Passes \ {p} : scan'[q] = scan[q]
    BY <1>0, <2>1, <2>2 DEF LookupType
  <2>5. LookupType'
    BY <1>0, <2>1, <2>4 DEF LookupType, At
  <2>6. cache[b].source = "found" => Classify(scan[p].rules, p, b, Unknown) # Unknown
    BY <1>0, <2>3, FoundIsKnown
  <2>. DEFINE Hit(s) == s \in Seen /\ BundleOf[s] = b
  <2>7. \A s \in Segs : category'[s] = IF Hit(s) THEN Classify(scan[p].rules, p, b, Unknown) ELSE category[s]
    BY <2>1
  <2>8. HistoryCatchesUp'
    BY <1>0, <2>1, <2>4, <2>6, <2>7 DEF HistoryCatchesUp, Seen
  <2>. QED BY <2>5, <2>8 DEF LookupInv
<1>11. CASE CutShort(p)
  <2>1. /\ scan' = [scan EXCEPT ![p] = NoScan] /\ UNCHANGED <<category, rules, cache>>
        /\ cutShort' = cutShort \cup {scan[p].bundle}
    BY <1>11 DEF CutShort
  <2>2. NoScan \in ScanRec /\ NoScan.bundle = Unknown /\ NoScan.pc = "rest"
    BY DEF NoScan, ScanRec, Lists
  <2>3. /\ scan' \in [Passes -> ScanRec] /\ scan'[p].bundle = Unknown /\ scan'[p].pc = "rest"
        /\ \A q \in Passes \ {p} : scan'[q] = scan[q]
    BY <1>0, <2>1, <2>2 DEF LookupType
  <2>4. LookupType'
    BY <1>0, <2>1, <2>3 DEF LookupType, At
  <2>5. HistoryCatchesUp'
    BY <1>0, <2>1, <2>3 DEF HistoryCatchesUp, Seen
  <2>. QED BY <2>4, <2>5 DEF LookupInv
<1>. QED BY <1>4, <1>5, <1>6, <1>7, <1>8, <1>9, <1>10, <1>11

\* No row of an application that was found stays without a category, unless a pass has
\* it in hand or was cut short with it, for every catalog, list of rules and segment.
THEOREM PastIsClassified == CategorySpec => []HistoryCatchesUp
<1>1. CategoryInit => LookupInv
  <2>. SUFFICES ASSUME CategoryInit PROVE LookupInv
    OBVIOUS
  <2>1. cache \in [Bundles -> Entry] /\ \A b \in Bundles : cache[b].source = "absent"
    BY DEF CategoryInit, NoEntry, Entry
  <2>2. scan \in [Passes -> ScanRec] /\ \A p \in Passes : scan[p].bundle = Unknown /\ scan[p].pc = "rest"
    BY DEF CategoryInit, NoScan, ScanRec, Lists
  <2>3. DOMAIN category = Segs /\ rules \in Lists /\ Seen = {}
    BY DEF CategoryInit, Lists, Seen
  <2>. QED BY <2>1, <2>2, <2>3 DEF LookupInv, LookupType, HistoryCatchesUp, At
<1>2. LookupInv /\ [CategoryNext]_categoryVars => LookupInv'
  BY CategoryAssumption, RowsKnown, PassesKnow DEF CategoryNext
<1>3. LookupInv => HistoryCatchesUp
  BY DEF LookupInv
<1>. QED BY <1>1, <1>2, <1>3, PTL DEF CategorySpec

=============================================================================
