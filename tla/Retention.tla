------------------------------- MODULE Retention -------------------------------
(***************************************************************************)
(* One maintenance pass after another over a growing store: the age prune  *)
(* of screenshots, the blob quota, the whole-directory quota with its two  *)
(* tiers, VACUUM and the orphan sweep.                                     *)
(*                                                                         *)
(* Every step below holds the store's locks from its first read to its     *)
(* commit and is atomic here (BlobStore looks inside); captures and a wipe *)
(* come between the steps.  Events are numbered in the order of their      *)
(* timestamps, each with at most one artifact.  Sizes count what the code  *)
(* measures: files, event rows with their derived bodies, and database     *)
(* pages that deleted rows left behind.                                    *)
(***************************************************************************)
EXTENDS Naturals, FiniteSets, FiniteSetsExt

CONSTANTS
  MaxEvents,   \* bound: events captured
  Contents,    \* artifact contents, named by their hash
  Shots,       \* those of screenshot.v1 events; the others are audio or browser
  BytesOf,        \* bytes of each content
  BlobMax,     \* retention.max_blob_mb
  BlobTarget,  \* 90% of it
  Target,      \* 90% of retention.max_total_mb
  Batch,       \* LIMIT of a media batch
  MetaBatch,   \* LIMIT of a metadata batch
  Rounds,      \* metadata batches a pass may run
  NoArt         \* no artifact

ASSUME RetentionAssumption ==
  /\ MaxEvents \in Nat /\ Shots \subseteq Contents /\ IsFiniteSet(Contents)
  /\ BytesOf \in [Contents -> Nat \ {0}]
  /\ BlobMax \in Nat /\ BlobTarget \in 0 .. BlobMax /\ Target \in Nat
  /\ Batch \in Nat \ {0} /\ MetaBatch \in Nat \ {0} /\ Rounds \in Nat \ {0}
  /\ NoArt \notin Contents

VARIABLES
  events,   \* event rows present
  n,        \* events captured so far
  art,      \* art[i]: content of event i's artifacts row, or NoArt
  tree,    \* blobs on disk
  fresh,    \* those modified within the hour
  old,      \* events 1 .. old are beyond metadata_min_age_days
  pages,    \* free pages inside the database file
  pass      \* [pc, est, cutoff, left, wiped]

retentionVars == <<events, n, art, tree, fresh, old, pages, pass>>

Ids == 1 .. MaxEvents

Resting == [pc |-> "rest", est |-> 0, cutoff |-> 0, left |-> 0, wiped |-> FALSE]

RetentionTypeOK ==
  /\ events \subseteq 1 .. n /\ n \in 0 .. MaxEvents
  /\ art \in [Ids -> Contents \cup {NoArt}]
  /\ tree \subseteq Contents /\ fresh \subseteq tree
  /\ old \in 0 .. n /\ pages \in Nat
  /\ pass \in [pc : {"rest", "age", "blobs", "total", "media", "metadata", "vacuum", "sweep"},
               est : Nat, cutoff : 0 .. n, left : 0 .. Rounds, wiped : BOOLEAN]

RetentionInit ==
  /\ events = {} /\ n = 0
  /\ art = [i \in Ids |-> NoArt]
  /\ tree = {} /\ fresh = {}
  /\ old = 0 /\ pages = 0
  /\ pass = Resting

\* The bytes of C, counted one by one.
Bytes(C) == Cardinality(UNION {{c} \X (1 .. BytesOf[c]) : c \in C})

\* directory_size_bytes of the data directory.
DiskUsage == Bytes(tree) + Cardinality(events) + pages

Less(a, b) == IF a > b THEN a - b ELSE 0     \* saturating_sub

MediaRows(C) == {i \in Ids : art[i] \in C}

\* The k oldest of S.
Oldest(S, k) == {i \in S : Cardinality({j \in S : j < i}) < k}

\* Files that go with the artifacts rows R: those with no other row.
Freed(R) ==
  {c \in tree : /\ \E i \in R : art[i] = c
                /\ \A i \in Ids : art[i] = c => i \in R}

DropArtifacts(R) ==
  /\ art' = [i \in Ids |-> IF i \in R THEN NoArt ELSE art[i]]
  /\ tree' = tree \ Freed(R)
  /\ fresh' = fresh \ Freed(R)

-----------------------------------------------------------------------------
(* What goes on around the pass. *)

\* An intake commits an event; rows fill free pages first.
Capture(c) ==
  /\ n < MaxEvents
  /\ n' = n + 1
  /\ events' = events \cup {n + 1}
  /\ art' = [art EXCEPT ![n + 1] = c]
  /\ tree' = tree \cup ({c} \ {NoArt})
  /\ fresh' = fresh \cup ({c} \ (tree \cup {NoArt}))
  /\ pages' = Less(pages, 1)
  /\ UNCHANGED <<old, pass>>

AgeEvent ==
  /\ old < n /\ old' = old + 1
  /\ UNCHANGED <<events, n, art, tree, fresh, pages, pass>>

AgeFile ==
  /\ fresh # {} /\ fresh' = {}
  /\ UNCHANGED <<events, n, art, tree, old, pages, pass>>

WipeStore ==
  /\ events # {}
  /\ events' = {} /\ art' = [i \in Ids |-> NoArt]
  /\ tree' = {} /\ fresh' = {}
  /\ pages' = pages + Cardinality(events)
  /\ pass' = [pass EXCEPT !.wiped = TRUE]
  /\ UNCHANGED <<n, old>>

-----------------------------------------------------------------------------
(* The pass. *)

Goto(pc) == pass' = [pass EXCEPT !.pc = pc]

BeginPass ==
  /\ pass.pc = "rest"
  /\ pass' = [Resting EXCEPT !.pc = "age"]
  /\ UNCHANGED <<events, n, art, tree, fresh, old, pages>>

\* prune_screenshot_artifacts_before, for any screenshot_retention_days.
PruneAged(k) ==
  /\ pass.pc = "age"
  /\ \E R \in {{i \in MediaRows(Shots) : i <= k}} : DropArtifacts(R)
  /\ Goto("blobs")
  /\ UNCHANGED <<events, n, old, pages>>

\* enforce_blob_retention_quota: whole batches of screenshots, under the locks,
\* until the tree is down to 90% or there is no screenshot left.
BlobQuota ==
  /\ pass.pc = "blobs"
  /\ IF Bytes(tree) <= BlobMax
     THEN UNCHANGED <<art, tree, fresh>>
     ELSE LET Rows(k) == Oldest(MediaRows(Shots), k * Batch)
              done == {k \in 0 .. MaxEvents : \/ Bytes(tree \ Freed(Rows(k))) <= BlobTarget
                                             \/ Rows(k) = MediaRows(Shots)}
          IN  \E R \in {Rows(Min(done))} : DropArtifacts(R)
  /\ Goto("total")
  /\ UNCHANGED <<events, n, old, pages>>

\* enforce_total_retention_quota measures once; later it counts what it freed.
Measure ==
  /\ pass.pc = "total"
  /\ pass' = [pass EXCEPT !.est = DiskUsage, !.pc = IF DiskUsage > Target THEN "media" ELSE "vacuum"]
  /\ UNCHANGED <<events, n, art, tree, fresh, old, pages>>

\* The batch goes no further than what is needed; `freed` is what its last
\* references took off the disk.
MediaRowsToDrop(need) ==
  LET batch == Oldest(MediaRows(Contents), Batch)
      enough == {k \in 0 .. Batch : Bytes(Freed(Oldest(batch, k))) >= need \/ k = Batch}
  IN  Oldest(batch, Min(enough))

\* trim_media_batch.  A batch that freed no byte ends the tier, whether or not
\* there is media left.
TrimMedia ==
  /\ pass.pc = "media"
  /\ \E R \in {MediaRowsToDrop(Less(pass.est, Target))} :
     LET freed == Bytes(Freed(R))
         est   == Less(pass.est, freed)
     IN  /\ DropArtifacts(R)
         /\ pass' = [pass EXCEPT
              !.est = est,
              !.pc = CASE freed = 0     -> "metadata"
                       [] est <= Target -> "vacuum"
                       [] OTHER         -> "media",
              !.cutoff = old, !.left = Rounds]
  /\ UNCHANGED <<events, n, old, pages>>

\* TrimMetadata, had it taken the oldest events whatever their age.
TrimMetadataAnyAge ==
  /\ pass.pc = "metadata"
  /\ LET E   == Oldest(events, MetaBatch)
         est == Less(pass.est, Cardinality(E))
     IN  /\ events' = events \ E
         /\ art' = [i \in Ids |-> IF i \in E THEN NoArt ELSE art[i]]
         /\ pages' = pages + Cardinality(E)
         /\ pass' = [pass EXCEPT !.est = est, !.left = @ - 1,
              !.pc = IF E = {} \/ est <= Target \/ pass.left = 1 THEN "vacuum" ELSE @]
  /\ UNCHANGED <<n, tree, fresh, old>>

\* trim_metadata_batch: derived, ocr_docs and event rows; artifacts rows
\* cascade, files stay for the sweep.
TrimMetadata ==
  /\ pass.pc = "metadata"
  /\ LET E   == Oldest({i \in events : i <= pass.cutoff}, MetaBatch)
         est == Less(pass.est, Cardinality(E))
     IN  /\ events' = events \ E
         /\ art' = [i \in Ids |-> IF i \in E THEN NoArt ELSE art[i]]
         /\ pages' = pages + Cardinality(E)
         /\ pass' = [pass EXCEPT !.est = est, !.left = @ - 1,
              !.pc = IF E = {} \/ est <= Target \/ pass.left = 1 THEN "vacuum" ELSE @]
  /\ UNCHANGED <<n, tree, fresh, old>>

\* VACUUM when the estimate says so or the freelist is worth it.
Vacuum ==
  /\ pass.pc = "vacuum"
  /\ pages' = 0 \/ (pass.est <= Target /\ pages' = pages)
  /\ Goto("sweep")
  /\ UNCHANGED <<events, n, art, tree, fresh, old>>

\* Sweep, had it gone through the rows and not through the files.
SweepNothing ==
  /\ pass.pc = "sweep"
  /\ pages' \in {0, pages}
  /\ pass' = Resting
  /\ UNCHANGED <<events, n, art, tree, fresh, old>>

\* sweep_orphan_blobs, then the incremental vacuum, which does nothing in a
\* database created before auto_vacuum was set.
Sweep ==
  /\ pass.pc = "sweep"
  /\ tree' = {c \in tree : c \in fresh \/ \E i \in Ids : art[i] = c}
  /\ pages' \in {0, pages}
  /\ pass' = Resting
  /\ UNCHANGED <<events, n, art, fresh, old>>

-----------------------------------------------------------------------------

PassStep ==
  \/ BeginPass \/ (\E k \in 0 .. n : PruneAged(k)) \/ BlobQuota \/ Measure
  \/ TrimMedia \/ TrimMetadata \/ Vacuum \/ Sweep

RetentionNext ==
  \/ \E c \in Contents \cup {NoArt} : Capture(c)
  \/ AgeEvent \/ AgeFile \/ WipeStore
  \/ PassStep

RetentionSpec == RetentionInit /\ [][RetentionNext]_retentionVars

-----------------------------------------------------------------------------
(* Properties. *)

\* The quota pass deletes media only while the directory really is over its
\* target, although it measures once and lets go of the locks between batches:
\* captures only make its estimate too low.  A wipe inside the pass is the one
\* thing that makes it too high.
TrimsOnlyWhenOver ==
  [][pass.pc = "media" /\ ~pass.wiped /\ art' # art /\ n' = n => DiskUsage > Target \/ pass'.wiped]_retentionVars

\* "Recent history inside the freshness floor is never touched"
\* (docs/STORAGE_OPTIMIZATION.md), but by a wipe.
RecentHistoryKept ==
  [][\A i \in events \ events' : i <= old \/ (pass'.wiped /\ events' = {})]_retentionVars

\* What a pass deletes, it deletes for the cap, and never from the recent past.
TrimsAsPromised == TrimsOnlyWhenOver /\ RecentHistoryKept

\* "Two auxiliary passes keep the cap reachable over time": when captures end,
\* the passes bring the directory under its target and leave it there, orphaned
\* files, shared blobs and free pages included.
CapReached == <>[](DiskUsage <= Target)

=============================================================================
