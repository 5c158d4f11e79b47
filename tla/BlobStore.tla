------------------------------ MODULE BlobStore ------------------------------
(***************************************************************************)
(* Content-addressed blobs and the artifacts rows that refer to them.      *)
(*                                                                         *)
(* Files and rows cannot change in one transaction, so every operation is  *)
(* a series of steps under the blob_intake mutex: an intake writes files   *)
(* and then commits rows; a prune unlinks files while its transaction is   *)
(* open; the sweep deletes what a snapshot of the rows does not mention; a *)
(* wipe deletes rows and then the tree.  The metadata trim is the one that *)
(* does not take blob_intake: it needs the connection only, which a prune, *)
(* a batch and a wipe hold throughout, a put only for its commit and a     *)
(* sweep only for its snapshot.  A crash may come between any two steps,   *)
(* and a failed statement rolls a transaction back, but no file.           *)
(***************************************************************************)
EXTENDS Naturals, FiniteSets

CONSTANTS
  Artifacts,   \* artifacts row ids
  Blobs,       \* contents, named by their hash
  Size,        \* bytes of each blob
  Limit,       \* browser.max_blob_bytes: what a limited batch may fill up to
  MaxFaults,   \* bound: crashes and failed transactions
  None         \* no row, no pending row

ASSUME BlobAssumption ==
  /\ IsFiniteSet(Blobs)
  /\ Size \in [Blobs -> Nat \ {0}] /\ Limit \in Nat /\ MaxFaults \in Nat
  /\ None \notin Blobs

VARIABLES
  files,    \* files[b]: "absent", "fresh" (modified within the hour) or "old"
  rows,     \* rows[a]: the blob a committed row refers to, or None
  op,       \* the operation that holds blob_intake
  cut,      \* blobs an interrupted prune unlinked under rows that survived it
  up,
  faults

vars == <<files, rows, op, cut, up, faults>>

NoRows == [a \in Artifacts |-> None]

\* adds: rows an intake will commit; todo, gone: rows a prune has left to look
\* at and has deleted; unlinked: its files; keep: the sweep's snapshot.
Idle == [kind |-> "idle", adds |-> NoRows, todo |-> {}, gone |-> {},
         unlinked |-> {}, keep |-> {}]

TypeOK ==
  /\ files \in [Blobs -> {"absent", "fresh", "old"}]
  /\ rows \in [Artifacts -> Blobs \cup {None}]
  /\ op \in [kind : {"idle", "put", "batch", "prune", "sweep", "wipe"},
             adds : [Artifacts -> Blobs \cup {None}],
             todo : SUBSET Artifacts, gone : SUBSET Artifacts,
             unlinked : SUBSET Blobs, keep : SUBSET Blobs]
  /\ cut \subseteq Blobs
  /\ up \in BOOLEAN
  /\ faults \in 0 .. MaxFaults

Init ==
  /\ files = [b \in Blobs |-> "absent"]
  /\ rows = NoRows
  /\ op = Idle
  /\ cut = {}
  /\ up = FALSE
  /\ faults = 0

Present == {b \in Blobs : files[b] # "absent"}

\* SELECT DISTINCT path FROM artifacts
Referenced == {rows[a] : a \in Artifacts} \ {None}

\* The bytes of B, counted one by one.
Usage(B) == Cardinality(UNION {{b} \X (1 .. Size[b]) : b \in B})

\* The mutex is free.
Free == up /\ op = Idle

-----------------------------------------------------------------------------
(* Intake. *)

\* put_and_append: one artifact, whatever the usage.
BeginPut(a, b) ==
  /\ Free /\ rows[a] = None
  /\ op' = [Idle EXCEPT !.kind = "put", !.adds[a] = b]
  /\ UNCHANGED <<files, rows, cut, up, faults>>

\* BeginBatch, had it looked at the usage without what the batch adds.
BeginBatchUnmeasured(adds) ==
  /\ Free /\ adds # NoRows
  /\ \A a \in Artifacts : adds[a] # None => rows[a] = None
  /\ Usage(Present) <= Limit
  /\ op' = [Idle EXCEPT !.kind = "batch", !.adds = adds]
  /\ UNCHANGED <<files, rows, cut, up, faults>>

\* append_idempotent_with_artifacts_up_to_scoped: known events are dropped, and
\* the batch is refused as a whole when its new contents would exceed the limit.
BeginBatch(adds) ==
  /\ Free /\ adds # NoRows
  /\ \A a \in Artifacts : adds[a] # None => rows[a] = None
  /\ LET new == {adds[a] : a \in Artifacts} \ (Present \cup {None})
     IN  new = {} \/ Usage(Present) + Usage(new) <= Limit
  /\ op' = [Idle EXCEPT !.kind = "batch", !.adds = adds]
  /\ UNCHANGED <<files, rows, cut, up, faults>>

Wanted == {op.adds[a] : a \in Artifacts} \ {None}

\* put_bytes: temporary file, sync, rename; a file that exists is left alone,
\* its modification time too.
WriteBlob(b) ==
  /\ op.kind \in {"put", "batch"} /\ b \in Wanted \ Present
  /\ files' = [files EXCEPT ![b] = "fresh"]
  /\ cut' = cut \ {b}
  /\ UNCHANGED <<rows, op, up, faults>>

CommitIntake ==
  /\ op.kind \in {"put", "batch"} /\ Wanted \subseteq Present
  /\ rows' = [a \in Artifacts |-> IF op.adds[a] # None THEN op.adds[a] ELSE rows[a]]
  /\ op' = Idle
  /\ UNCHANGED <<files, cut, up, faults>>

-----------------------------------------------------------------------------
(* Prunes: by age, by blob quota, and the media tier of the total quota. *)

BeginPrune(S) ==
  /\ Free /\ S # {} /\ \A a \in S : rows[a] # None
  /\ op' = [Idle EXCEPT !.kind = "prune", !.todo = S]
  /\ UNCHANGED <<files, rows, cut, up, faults>>

\* PruneRow, had it not asked who else refers to the path.
PruneRowAlone(a) ==
  /\ op.kind = "prune" /\ a \in op.todo
  /\ op' = [op EXCEPT !.todo = @ \ {a}, !.gone = @ \cup {a},
                      !.unlinked = @ \cup ({rows[a]} \cap Present)]
  /\ files' = [files EXCEPT ![rows[a]] = "absent"]
  /\ UNCHANGED <<rows, cut, up, faults>>

\* The row goes inside the transaction; its file at once, when the transaction
\* sees no other row with the path.
PruneRow(a) ==
  /\ op.kind = "prune" /\ a \in op.todo
  /\ LET last == \A x \in Artifacts \ (op.gone \cup {a}) : rows[x] # rows[a]
     IN  /\ op' = [op EXCEPT !.todo = @ \ {a}, !.gone = @ \cup {a},
                             !.unlinked = IF last THEN @ \cup ({rows[a]} \cap Present) ELSE @]
         /\ files' = IF last THEN [files EXCEPT ![rows[a]] = "absent"] ELSE files
  /\ UNCHANGED <<rows, cut, up, faults>>

\* The media tier commits as soon as it has freed enough.
CommitPrune ==
  /\ op.kind = "prune"
  /\ rows' = [a \in Artifacts |-> IF a \in op.gone THEN None ELSE rows[a]]
  /\ op' = Idle
  /\ UNCHANGED <<files, cut, up, faults>>

\* trim_metadata_batch: the event goes, its artifacts rows cascade, no file does.
TrimEvent(a) ==
  /\ up /\ op.kind \in {"idle", "put", "sweep"} /\ rows[a] # None
  /\ rows' = [rows EXCEPT ![a] = None]
  /\ UNCHANGED <<files, op, cut, up, faults>>

-----------------------------------------------------------------------------
(* Sweep and wipe. *)

\* BeginSweep, had no path ever failed to match the snapshot.
BeginSweepBlind ==
  /\ Free
  /\ op' = [Idle EXCEPT !.kind = "sweep", !.keep = Blobs]
  /\ UNCHANGED <<files, rows, cut, up, faults>>

BeginSweep ==
  /\ Free
  /\ op' = [Idle EXCEPT !.kind = "sweep", !.keep = Referenced]
  /\ UNCHANGED <<files, rows, cut, up, faults>>

SweepFile(b) ==
  /\ op.kind = "sweep" /\ b \notin op.keep /\ files[b] = "old"
  /\ files' = [files EXCEPT ![b] = "absent"]
  /\ UNCHANGED <<rows, op, cut, up, faults>>

EndSweep ==
  /\ op.kind = "sweep" /\ \A b \in Blobs \ op.keep : files[b] # "old"
  /\ op' = Idle
  /\ UNCHANGED <<files, rows, cut, up, faults>>

BeginWipe ==
  /\ Free
  /\ rows' = NoRows
  /\ op' = [Idle EXCEPT !.kind = "wipe"]
  /\ UNCHANGED <<files, cut, up, faults>>

WipeFile(b) ==
  /\ op.kind = "wipe" /\ b \in Present
  /\ files' = [files EXCEPT ![b] = "absent"]
  /\ UNCHANGED <<rows, op, cut, up, faults>>

EndWipe ==
  /\ op.kind = "wipe" /\ Present = {}
  /\ op' = Idle
  /\ UNCHANGED <<files, rows, cut, up, faults>>

-----------------------------------------------------------------------------
(* Time, faults. *)

Age(b) ==
  /\ files[b] = "fresh"
  /\ files' = [files EXCEPT ![b] = "old"]
  /\ UNCHANGED <<rows, op, cut, up, faults>>

\* The open transaction is gone, the unlinked files are too.
Interrupted ==
  /\ faults < MaxFaults
  /\ faults' = faults + 1
  /\ op' = Idle
  /\ cut' = cut \cup op.unlinked
  /\ UNCHANGED <<files, rows>>

Crash == up /\ Interrupted /\ up' = FALSE

\* A statement or the commit failed, or a file could not be written or removed.
RollBack == op.kind \in {"put", "batch", "prune", "wipe"} /\ Interrupted /\ UNCHANGED up

Boot ==
  /\ ~up
  /\ up' = TRUE
  /\ UNCHANGED <<files, rows, op, cut, faults>>

-----------------------------------------------------------------------------

\* What the holder of the mutex does next, until it is done.
Proceed ==
  \/ \E b \in Blobs : WriteBlob(b) \/ SweepFile(b) \/ WipeFile(b)
  \/ \E a \in Artifacts : PruneRow(a)
  \/ CommitIntake \/ CommitPrune \/ EndSweep \/ EndWipe

Next ==
  \/ \E a \in Artifacts, b \in Blobs : BeginPut(a, b)
  \/ \E adds \in [Artifacts -> Blobs \cup {None}] : BeginBatch(adds)
  \/ \E S \in SUBSET Artifacts : BeginPrune(S)
  \/ BeginSweep \/ BeginWipe
  \/ Proceed
  \/ \E a \in Artifacts : TrimEvent(a)
  \/ \E b \in Blobs : Age(b)
  \/ Crash \/ RollBack \/ Boot

Spec == Init /\ [][Next]_vars

-----------------------------------------------------------------------------
(* Properties. *)

\* A row that is not being pruned right now can be read: identical contents
\* share a file, and neither a prune, nor the sweep, nor an intake that finds
\* its file already there takes it from a row that stays.  Only a prune that
\* was interrupted after an unlink leaves a row without its file.
SurvivorsHaveBlobs ==
  \A a \in Artifacts : rows[a] # None /\ a \notin op.gone =>
    rows[a] \in Present \cup cut

\* A limited batch never fills the tree beyond its limit, whoever else writes:
\* what it measured is still so when it writes.
LimitedIntakeFits ==
  [][op.kind = "batch" /\ Present' # Present => Usage(Present') <= Limit]_vars

\* Files no row refers to (a crash before the commit, a trimmed event, a crash
\* inside a wipe) are deleted in the end, or referred to again.
Orphan(b) == b \in Present \ Referenced

OrphansSwept == \A b \in Blobs : Orphan(b) ~> ~Orphan(b)

=============================================================================
