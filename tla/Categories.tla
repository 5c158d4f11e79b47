------------------------------- MODULE Categories -------------------------------
(***************************************************************************)
(* The category of an activity segment: the classifier, the rules it reads *)
(* and the two background passes, one in the daemon and one in the         *)
(* desktop, that look unknown applications up and classify the past again. *)
(* A segment is classified when it is stored, again when the user saves    *)
(* rules, and again when its application has been looked up.               *)
(***************************************************************************)
EXTENDS Integers, FiniteSets, Sequences

CONSTANTS
  Segs,        \* activity segments of source 'auto'
  BundleOf,    \* BundleOf[s]: the application
  UrlOf,       \* UrlOf[s]: its page, or Unknown
  RuleLists,   \* lists of rules [field, value, category] the user may save
  Catalogs,    \* catalogs the operator may write to app_catalog.v1.json
  Embedded,    \* the catalog built in
  Plist,       \* Plist[b]: what the bundle's Info.plist says, or Unknown
  Found,       \* categories a lookup can find
  Unknown,     \* no category, no url, no bundle in hand
  MaxDeaths,   \* bound: passes cut short
  MaxEdits     \* bound: edits of the catalog file and of the user's rules

Bundles == {BundleOf[s] : s \in Segs}
Passes  == {"daemon", "desktop"}

ASSUME CategoryAssumption == Unknown \notin Found \cup Bundles

VARIABLES
  rules,       \* kv 'activity.category_rules'
  file,        \* app_catalog.v1.json: a catalog, or <<Unknown>> when it does not parse
  catalog,     \* catalog[p]: ACTIVE_CATALOG of the process
  category,    \* category[s]: of the stored row; "unseen" before it is stored
  cache,       \* cache[b]: app_category_cache [source, category]
  scan,        \* scan[p]: [pc, todo, bundle, rules], the pass of process p
  edits, deaths,
  cutShort     \* history: bundles whose pass ended between the lookup and its use

categoryVars == <<rules, file, catalog, category, cache, scan, edits, deaths, cutShort>>

NoScan == [pc |-> "rest", todo |-> {}, bundle |-> Unknown, rules |-> <<>>]
NoEntry == [source |-> "absent", category |-> Unknown]

CategoryInit ==
  /\ rules = <<>> /\ file = Embedded
  /\ catalog = [p \in Passes |-> Embedded]
  /\ category = [s \in Segs |-> "unseen"]
  /\ cache = [b \in Bundles |-> NoEntry]
  /\ scan = [p \in Passes |-> NoScan]
  /\ edits = 0 /\ deaths = 0 /\ cutShort = {}

-----------------------------------------------------------------------------
(* classify: the first that says something. *)

Matches(rule, b, url) ==
  rule.value = IF rule.field \in {"domain", "url"} THEN url ELSE b

\* The first rule of a list that matches.
Says(list, b, url) ==
  LET hits == SelectSeq(list, LAMBDA r : Matches(r, b, url))
  IN  IF hits = <<>> THEN Unknown ELSE hits[1].category

Cached(b) == IF cache[b].source = "found" THEN cache[b].category ELSE Unknown

Classify(list, p, b, url) ==
  LET said == <<Says(list, b, url), Says(catalog[p], b, url), Plist[b], Cached(b)>>
      hits == {i \in 1 .. 4 : said[i] # Unknown}
  IN  IF hits = {} THEN Unknown ELSE said[CHOOSE i \in hits : \A j \in hits : i <= j]

Seen == {s \in Segs : category[s] # "unseen"}

-----------------------------------------------------------------------------
(* The daemon stores a segment. *)

\* Store, had it left the lookup's finding to the next pass.
StoreUncached(s) ==
  LET b == BundleOf[s]
      c == IF cache[b].source = "found" THEN Unknown
           ELSE Classify(rules, "daemon", b, UrlOf[s])
  IN  /\ category[s] = "unseen"
      /\ category' = [category EXCEPT ![s] = c]
      /\ UNCHANGED <<rules, file, catalog, cache, scan, edits, deaths, cutShort>>

\* materialize_activity_sample: rules, cache and row in one transaction; an
\* application nothing is known of is queued for the lookup.
Store(s) ==
  LET b == BundleOf[s]
      c == Classify(rules, "daemon", b, UrlOf[s])
  IN  /\ category[s] = "unseen"
      /\ category' = [category EXCEPT ![s] = c]
      /\ cache' = IF c = Unknown /\ cache[b] = NoEntry
                  THEN [cache EXCEPT ![b].source = "pending"] ELSE cache
      /\ UNCHANGED <<rules, file, catalog, scan, edits, deaths, cutShort>>

\* save_category_rules_and_reapply: the list and every row in one transaction.
\* Either process saves, with the catalog it has loaded.
SaveRules(p, list) ==
  /\ edits < MaxEdits /\ edits' = edits + 1
  /\ rules' = list
  /\ category' = [s \in Segs |->
       IF s \in Seen THEN Classify(list, p, BundleOf[s], UrlOf[s]) ELSE "unseen"]
  /\ UNCHANGED <<file, catalog, cache, scan, deaths, cutShort>>

\* The operator edits the catalog file, perhaps into something that does not parse.
EditCatalog(content) ==
  /\ edits < MaxEdits /\ edits' = edits + 1
  /\ file' = content
  /\ UNCHANGED <<rules, catalog, category, cache, scan, deaths, cutShort>>

\* wipe_sync: the segments and the kv table, the user's rules among it.  What
\* was looked up stays.
WipeSegments ==
  /\ edits < MaxEdits /\ edits' = edits + 1
  /\ rules' = <<>>
  /\ category' = [s \in Segs |-> "unseen"]
  /\ UNCHANGED <<file, catalog, cache, scan, deaths, cutShort>>

-----------------------------------------------------------------------------
(* A pass: process_category_enrichment. *)

At(p, pc) == scan[p].pc = pc

\* enqueue_uncategorized_bundles, then reload_category_rules.
StartPass(p) ==
  /\ At(p, "rest")
  /\ cache' = [b \in Bundles |->
       IF cache[b] = NoEntry /\ \E s \in Seen : BundleOf[s] = b /\ category[s] = Unknown
       THEN [NoEntry EXCEPT !.source = "pending"] ELSE cache[b]]
  /\ catalog' = [catalog EXCEPT ![p] = IF file = <<Unknown>> THEN Embedded ELSE file]
  /\ scan' = [scan EXCEPT ![p].pc = "select"]
  /\ UNCHANGED <<rules, file, category, edits, deaths, cutShort>>

\* The pending ones, and those that failed more than an hour ago.
Select(p) ==
  /\ At(p, "select")
  /\ \E old \in SUBSET {b \in Bundles : cache[b].source = "failed"} :
       scan' = [scan EXCEPT ![p].pc = "next",
                            ![p].todo = old \cup {b \in Bundles : cache[b].source = "pending"}]
  /\ UNCHANGED <<rules, file, catalog, category, cache, edits, deaths, cutShort>>

EndPass(p) ==
  /\ At(p, "next") /\ scan[p].todo = {}
  /\ scan' = [scan EXCEPT ![p] = NoScan]
  /\ UNCHANGED <<rules, file, catalog, category, cache, edits, deaths, cutShort>>

\* The index, the cask or the store page tells: write_cache_hit.
Finds(p, b, c) ==
  /\ At(p, "next") /\ b \in scan[p].todo
  /\ cache' = [cache EXCEPT ![b] = [source |-> "found", category |-> c]]
  /\ scan' = [scan EXCEPT ![p].pc = "found", ![p].bundle = b, ![p].todo = @ \ {b}]
  /\ UNCHANGED <<rules, file, catalog, category, edits, deaths, cutShort>>

\* Nothing there, or no network: mark_cache_failed keeps the category.
FindsNothing(p, b) ==
  /\ At(p, "next") /\ b \in scan[p].todo
  /\ cache' = [cache EXCEPT ![b].source = "failed"]
  /\ scan' = [scan EXCEPT ![p].todo = @ \ {b}]
  /\ UNCHANGED <<rules, file, catalog, category, edits, deaths, cutShort>>

\* reapply_categories_for_bundle reads the rules before it takes the lock again.
ReadsRules(p) ==
  /\ At(p, "found")
  /\ scan' = [scan EXCEPT ![p].pc = "reapply", ![p].rules = rules]
  /\ UNCHANGED <<rules, file, catalog, category, cache, edits, deaths, cutShort>>

\* ... and classifies every row of the bundle, without its url.
Reapplies(p) ==
  LET b == scan[p].bundle
  IN  /\ At(p, "reapply")
      /\ category' = [s \in Segs |->
           IF s \in Seen /\ BundleOf[s] = b THEN Classify(scan[p].rules, p, b, Unknown)
           ELSE category[s]]
      /\ scan' = [scan EXCEPT ![p] = [@ EXCEPT !.pc = "next", !.bundle = Unknown, !.rules = <<>>]]
      /\ UNCHANGED <<rules, file, catalog, cache, edits, deaths, cutShort>>

\* The process ends, or the store returns an error that ends the pass.
CutShort(p) ==
  /\ ~At(p, "rest") /\ deaths < MaxDeaths
  /\ deaths' = deaths + 1
  /\ cutShort' = cutShort \cup {scan[p].bundle}
  /\ scan' = [scan EXCEPT ![p] = NoScan]
  /\ UNCHANGED <<rules, file, catalog, category, cache, edits>>

CategoryNext ==
  \/ \E s \in Segs : Store(s)
  \/ \E p \in Passes, list \in RuleLists : SaveRules(p, list)
  \/ \E content \in Catalogs \cup {<<Unknown>>} : EditCatalog(content)
  \/ WipeSegments
  \/ \E p \in Passes :
       \/ StartPass(p) \/ Select(p) \/ EndPass(p) \/ ReadsRules(p) \/ Reapplies(p) \/ CutShort(p)
       \/ \E b \in Bundles : FindsNothing(p, b) \/ \E c \in Found : Finds(p, b, c)

CategorySpec == CategoryInit /\ [][CategoryNext]_categoryVars

-----------------------------------------------------------------------------
(* Properties. *)

\* What a lookup found reaches the segments stored before it: an uncategorised
\* row of an application that was found is being classified again, unless the
\* pass ended in between, for the queue does not hold that application any more.
HistoryCatchesUp ==
  \A s \in Seen :
    category[s] = Unknown /\ cache[BundleOf[s]].source = "found"
      => \/ \E p \in Passes : scan[p].bundle = BundleOf[s]
         \/ BundleOf[s] \in cutShort

\* "Priority (first match wins): 1. User rules": the code's own order.  It does
\* not hold: a pass classifies without the url, and with rules it read before.
UserRulesFirst ==
  \A s \in Seen :
    LET said == Says(rules, BundleOf[s], UrlOf[s])
    IN  said # Unknown => category[s] = said
=============================================================================
