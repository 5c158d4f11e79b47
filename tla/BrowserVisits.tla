---------------------------- MODULE BrowserVisits ----------------------------
(***************************************************************************)
(* The daemon's side of the browser events: the events table they are      *)
(* inserted into once each, the visit rows they are projected onto, the    *)
(* trim of old events and the wipe, and the export an importer follows     *)
(* with a cursor, which is a rowid: the table has no key of its own that   *)
(* SQLite would keep from being given again.                               *)
(***************************************************************************)
EXTENDS Naturals, Sequences, FiniteSets

CONSTANTS
  Observations,  \* [id, src, kind, visit, ts, url, hash, active, visible, scroll]
  None,          \* an absent field
  VisitBatch,    \* bound: new events of one append
  ExportLimit,   \* limit of the export
  MaxInserts,    \* bound: insertions
  MaxWipes       \* bound: wipes

ASSUME VisitsAssumption ==
  /\ \A e \in Observations :
       /\ DOMAIN e = {"id", "src", "kind", "visit", "ts", "url", "hash", "active", "visible", "scroll"}
       /\ e.ts \in Nat /\ e.scroll \in Nat \cup {None}
  /\ {VisitBatch, ExportLimit} \subseteq Nat \ {0} /\ {MaxInserts, MaxWipes} \subseteq Nat
  /\ None \notin Nat

VARIABLES
  events,    \* rows of events: [rowid, event, nth, fresh],
             \* nth its insertion, fresh if its rowid was given for the first time
  inserted,  \* the events inserted so far, in this order
  wiped,     \* how many of them the last wipe found
  visits,    \* browser_visits: visit_id -> row
  high,      \* the highest rowid ever given
  importer,  \* [cursor, page, answer, got]: of an answer in the making the rows still
             \* to be looked at and what was made of the others; got is what the
             \* importer was given, in this order: [rowid, nth, closed]
  wipes

visitsVars == <<events, inserted, wiped, visits, high, importer, wipes>>

Elements(s) == {s[i] : i \in DOMAIN s}

VisitsInit ==
  /\ events = {} /\ inserted = <<>> /\ wiped = 0 /\ visits = <<>> /\ high = 0
  /\ importer = [cursor |-> 0, page |-> {}, answer |-> <<>>, got |-> <<>>] /\ wipes = 0

-----------------------------------------------------------------------------
(* The projection. *)

\* The fields a later event replaces, and those the first event keeps.
NewWins == {"content", "last_visible", "closed_at", "active", "revisit"}
OldWins == {"opened_at", "ready_at", "first_visible"}

Coalesce(a, b) == IF a # None THEN a ELSE b

\* What an event is about: its snapshot, else its address.
Content(e) == Coalesce(e.hash, e.url)

\* What an event says of its visit, in the table rows as it finds it.
Facts(rows, e) ==
  LET old     == IF e.visit \in DOMAIN rows THEN rows[e.visit].content ELSE None
      content == Coalesce(Content(e), old)
      when(is) == IF is THEN e.ts ELSE None
      seen    == e.kind \in {"visibility", "closed"} /\ e.visible
  IN  [content  |-> Content(e),
       revisit  |-> IF content = None THEN None
                    ELSE Cardinality({v \in DOMAIN rows \ {e.visit} : rows[v].content = content}),
       opened_at     |-> when(e.kind = "navigation"), ready_at     |-> when(e.kind = "ready"),
       first_visible |-> when(seen),                  last_visible |-> when(seen),
       closed_at     |-> when(e.kind = "closed"),     active       |-> e.active,
       scroll |-> e.scroll, hashes |-> IF e.hash = None THEN <<>> ELSE <<e.hash>>]

Highest(a, b) == IF a = None THEN b ELSE IF b = None \/ a > b THEN a ELSE b

\* A snapshot is listed once.
Listed(old, new) == old \o SelectSeq(new, LAMBDA h : h \notin Elements(old))

Merged(old, new) ==
  [f \in DOMAIN new |->
     CASE f \in NewWins -> Coalesce(new[f], old[f])
       [] f \in OldWins -> Coalesce(old[f], new[f])
       [] f = "scroll"  -> Highest(old[f], new[f])
       [] f = "hashes"  -> Listed(old[f], new[f])]

\* project_browser_event
Projected(rows, e) ==
  IF e.src # "browser" \/ e.kind = "health" THEN rows
  ELSE [v \in DOMAIN rows \cup {e.visit} |->
          IF v # e.visit THEN rows[v]
          ELSE IF v \in DOMAIN rows THEN Merged(rows[v], Facts(rows, e)) ELSE Facts(rows, e)]

\* What the events of s after the k-th make of rows.
Replayed(rows, s, k) ==
  LET after[n \in k .. Len(s)] == IF n = k THEN rows ELSE Projected(after[n - 1], s[n])
  IN  after[Len(s)]

-----------------------------------------------------------------------------
(* The store. *)

Stored == {row.event.id : row \in events}

\* SQLite gives a new row the highest rowid of the table and one.
NextRowid ==
  CHOOSE n \in 1 .. high + 1 :
    /\ \A row \in events : row.rowid < n
    /\ n = 1 \/ \E row \in events : row.rowid = n - 1

\* insert_event_idempotent of each.
Inserted(order) ==
  /\ events' = events \cup
       {[rowid |-> NextRowid + i - 1, event |-> order[i], nth |-> Len(inserted) + i,
         fresh |-> NextRowid + i - 1 > high] : i \in DOMAIN order}
  /\ inserted' = inserted \o order
  /\ visits' = Replayed(visits, order, 0)
  /\ high' = IF NextRowid + Len(order) - 1 > high THEN NextRowid + Len(order) - 1 ELSE high

\* Over the quota the daemon appends a request without its snapshots.
Metadata(new, full) ==
  [i \in DOMAIN new |-> IF full THEN [new[i] EXCEPT !.hash = None] ELSE new[i]]

\* append_idempotent_with_artifacts_up_to_scoped: what is new of a request, which may
\* have been sent before, by time.
AppendBatch ==
  /\ \E n \in 1 .. VisitBatch, full \in BOOLEAN : \E new \in [1 .. n -> Observations] :
       /\ \A i \in 1 .. n : new[i].id \notin Stored
       /\ \A i, j \in 1 .. n : i < j => new[i].id # new[j].id /\ new[i].ts <= new[j].ts
       /\ Len(inserted) + n <= MaxInserts
       /\ full => \E i \in 1 .. n : new[i].hash # None
       /\ Inserted(Metadata(new, full))
  /\ UNCHANGED <<wiped, importer, wipes>>

\* trim_metadata_batch: the events before a cutoff, whatever their source.
TrimMetadata ==
  /\ \E row \in events : events' = {r \in events : r.event.ts > row.event.ts}
  /\ UNCHANGED <<inserted, wiped, visits, high, importer, wipes>>

WipeVisits ==
  /\ wipes < MaxWipes /\ events # {} /\ wipes' = wipes + 1
  /\ events' = {} /\ visits' = <<>> /\ wiped' = Len(inserted)
  /\ UNCHANGED <<inserted, high, importer>>

-----------------------------------------------------------------------------
(* The export. *)

\* After, had it begun with the row of the cursor.
AfterOrAt(cursor) == {row \in events : row.event.src = "browser" /\ row.rowid >= cursor}

\* The rows of list_source_after_cursor, without its limit.
After(cursor) == {row \in events : row.event.src = "browser" /\ row.rowid > cursor}

\* get_browser_export reads the first rows under one lock.
BeginExport ==
  /\ importer.page = {} /\ importer.answer = <<>>
  /\ \E rows \in {After(importer.cursor)} : \E first \in SUBSET rows :
       /\ first # {} /\ \A row \in first, later \in rows \ first : row.rowid < later.rowid
       /\ Cardinality(first) <= ExportLimit /\ (first = rows \/ Cardinality(first) = ExportLimit)
       /\ importer' = [importer EXCEPT !.page = first]
  /\ UNCHANGED <<events, inserted, wiped, visits, high, wipes>>

\* get_browser_visit, for the event that closes a visit.
Projection(e) ==
  IF e.kind = "closed" /\ e.visit \in DOMAIN visits THEN visits[e.visit].closed_at ELSE None

\* The next row; the visit it closes is looked up under a lock of its own.  (A lookup that
\* fails counts as no visit; the model's store reads what it has.)
LookUpVisit ==
  /\ \E row \in importer.page :
       /\ \A other \in importer.page : row.rowid <= other.rowid
       /\ importer' = [importer EXCEPT
            !.page = @ \ {row},
            !.answer = Append(@, [rowid |-> row.rowid, nth |-> row.nth,
                                  closed |-> Projection(row.event)])]
  /\ UNCHANGED <<events, inserted, wiped, visits, high, wipes>>

\* An answer that is lost is asked for again with the old cursor.
EndExport ==
  /\ importer.page = {} /\ importer.answer # <<>>
  /\ \/ importer' = [importer EXCEPT !.answer = <<>>]
     \/ importer' = [cursor |-> importer.answer[Len(importer.answer)].rowid, page |-> {}, answer |-> <<>>,
                     got |-> importer.got \o importer.answer]
  /\ UNCHANGED <<events, inserted, wiped, visits, high, wipes>>

VisitsNext ==
  AppendBatch \/ TrimMetadata \/ WipeVisits \/ BeginExport \/ LookUpVisit \/ EndExport

VisitsSpec == VisitsInit /\ [][VisitsNext]_visitsVars

-----------------------------------------------------------------------------
(* Properties. *)

\* Sending an event twice, or trimming it, changes no visit: a row is what the events
\* inserted since the last wipe say, each counted as often as it was inserted.
VisitsFollow == visits = Replayed(<<>>, inserted, wiped)

\* The importer has every browser event up to its cursor, each insertion once and in
\* order, unless it was given a rowid that had been given before; and with the event
\* that closes a visit the visit, unless a wipe came before it was looked up.
ExportKeepsUp ==
  /\ \A row \in events :
       row.event.src = "browser" /\ row.rowid <= importer.cursor /\ row.fresh
         => \E k \in DOMAIN importer.got : importer.got[k].nth = row.nth
  /\ \A j, k \in DOMAIN importer.got : j < k => importer.got[j].nth < importer.got[k].nth
  /\ \A k \in DOMAIN importer.got :
       LET got == importer.got[k]
       IN  IF inserted[got.nth].kind = "closed"
           THEN got.closed = None => got.nth <= wiped
           ELSE got.closed = None

\* What became of the events is what was sent.
VisitsHold == VisitsFollow /\ ExportKeepsUp

\* "The rebuildable visit projection" (docs/BROWSER_CAPTURE.md): the events stored
\* give the visits back.
VisitsRebuildable ==
  \E rows \in [1 .. Cardinality(events) -> events] :
    /\ \A i, j \in DOMAIN rows : i < j => rows[i].rowid < rows[j].rowid
    /\ visits = Replayed(<<>>, [i \in DOMAIN rows |-> rows[i].event], 0)

=============================================================================
