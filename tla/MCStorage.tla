------------------------------- MODULE MCStorage -------------------------------
(***************************************************************************)
(* Small instances of the blob store, operation by operation, of the       *)
(* maintenance pass, tier by tier, and of the categories of the segments.  *)
(* The first two look at the same files at two grains, the third at other  *)
(* rows: a behaviour runs one part and leaves the others where they        *)
(* started.                                                                *)
(***************************************************************************)
EXTENDS BlobStore, Retention, Categories, TLC

CONSTANTS a1, a2, a3, b1, b2, b3, s1, s2

MCArtifacts == {a1, a2, a3}
MCBlobs     == {b1, b2, b3}
MCSize      == [b \in MCBlobs |-> IF b = b1 THEN 2 ELSE 1]
MCContents  == {s1, s2}
MCShots     == {s1}
MCBytesOf   == [c \in MCContents |-> IF c = s1 THEN 1 ELSE 4]

\* A page in the browser and a tool: the user's rules name both, the tool is in the
\* operator's catalog, and a lookup can find the browser.
Rule(field, value, c) == [field |-> field, value |-> value, category |-> c]
MCBundleOf  == [g \in {"g1", "g2"} |-> IF g = "g1" THEN "chrome" ELSE "tool"]
MCUrlOf     == [g \in {"g1", "g2"} |-> IF g = "g1" THEN "page" ELSE Unknown]
MCRuleLists == {<<Rule("domain", "page", "work")>>, <<Rule("bundle_id", "tool", "play")>>}
MCCatalogs  == {<<Rule("bundle_id", "tool", "dev")>>}
MCEmbedded  == <<>>
MCPlist     == [b \in {"chrome", "tool"} |-> Unknown]

VARIABLE part

storageVars == <<part, vars, retentionVars, categoryVars>>

StorageInit ==
  Init /\ RetentionInit /\ CategoryInit /\ part \in {"blobs", "pass", "categories"}

BlobsAlone(A) == part = "blobs" /\ A /\ UNCHANGED <<part, retentionVars, categoryVars>>
PassAlone(A)  == part = "pass" /\ A /\ UNCHANGED <<part, vars, categoryVars>>

StorageNext ==
  \/ BlobsAlone(Next) \/ PassAlone(RetentionNext)
  \/ part = "categories" /\ CategoryNext /\ UNCHANGED <<part, vars, retentionVars>>

(***************************************************************************)
(* Whoever holds the mutex runs on, and so does a pass, which starts every *)
(* ten minutes; clocks advance; the daemon comes back.  The pass ends in a *)
(* sweep, and intakes are not back to back, so that its turn on the mutex  *)
(* comes again and again: strong fairness, for the other operations keep   *)
(* taking the mutex.                                                       *)
(***************************************************************************)
StorageFairness ==
  /\ WF_storageVars(BlobsAlone(Proceed) \/ PassAlone(PassStep))
  /\ WF_storageVars(BlobsAlone(Boot) \/ PassAlone(AgeEvent \/ AgeFile))
  /\ SF_storageVars(BlobsAlone(BeginSweep))
  /\ \A b \in Blobs : WF_storageVars(BlobsAlone(Age(b)))

StorageSpec == StorageInit /\ [][StorageNext]_storageVars /\ StorageFairness

\* The categories alone, without fairness.
CategoriesAlone == StorageInit /\ part = "categories" /\ [][StorageNext]_storageVars
=============================================================================
