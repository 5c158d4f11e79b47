------------------------------ MODULE SearchIndex ------------------------------
(***************************************************************************)
(* Derived bodies and the search rows made of them.                        *)
(*                                                                         *)
(* `derived` holds one body per (event, kind); `ocr_docs`, with the full-  *)
(* text index its triggers maintain, one row per event.  Two workers of    *)
(* the daemon write both (OCR, and the accessibility walk of the same      *)
(* frame), retention and the wipe delete both, and a rebuild empties and   *)
(* refills ocr_docs from derived.  The daemon's store is one connection    *)
(* under a mutex, so its operations are single steps; the desktop shell    *)
(* opens the database a second time, and its rebuild is a read followed by *)
(* a separate write transaction.                                           *)
(*                                                                         *)
(* "ocr.v1" stands for "transcript.v1" as well, which audio events get the *)
(* same way, and with no accessibility walk beside it.                     *)
(***************************************************************************)
EXTENDS Naturals, FiniteSets

CONSTANTS
  Events,
  NoRow       \* no body, no row, no event in hand, no rebuild under way

Kinds == {"ocr.v1", "ax.v1"}

\* What a body's "text" field holds: the text the engine or the walk found, or
\* nothing (a blank frame, a window that was gone).
Bodies == {"ocr text", "ax text", "blank"}

ASSUME SearchAssumption == NoRow \notin Events /\ NoRow \notin Bodies

VARIABLES
  stage,     \* stage[e]: "unseen", "live" (event row present) or "gone"
  derived,   \* derived[e][k]: the body, or NoRow
  doc,       \* doc[e]: the text of the ocr_docs row, or NoRow
  engine,    \* engine[k]: the event worker k is busy with, or NoRow
  snapshot,  \* what the desktop's rebuild has read, or NoRow
  raced      \* history: events changed while such a rebuild was under way

indexVars == <<stage, derived, doc, engine, snapshot, raced>>

Unread == [e \in Events |-> NoRow]

IndexTypeOK ==
  /\ stage \in [Events -> {"unseen", "live", "gone"}]
  /\ derived \in [Events -> [Kinds -> Bodies \cup {NoRow}]]
  /\ doc \in [Events -> Bodies \cup {NoRow}]
  /\ engine \in [Kinds -> Events \cup {NoRow}]
  /\ snapshot \in [Events -> Bodies \cup {NoRow}] \cup {NoRow}
  /\ raced \subseteq Events

IndexInit ==
  /\ stage = [e \in Events |-> "unseen"]
  /\ derived = [e \in Events |-> [k \in Kinds |-> NoRow]]
  /\ doc = Unread
  /\ engine = [k \in Kinds |-> NoRow]
  /\ snapshot = NoRow
  /\ raced = {}

Racing(E) == IF snapshot = NoRow THEN raced ELSE raced \cup E

-----------------------------------------------------------------------------
(* The workers. *)

Persist(e) ==
  /\ stage[e] = "unseen"
  /\ stage' = [stage EXCEPT ![e] = "live"]
  /\ UNCHANGED <<derived, doc, engine, snapshot, raced>>

\* process_job up to the engine call.  The OCR worker looks for its own derived
\* row first and then needs the artifact; the walk needs the event's payload
\* only, and walks again when its job is claimed again after a crash.
Begin(k, e) ==
  /\ engine[k] = NoRow /\ stage[e] = "live"
  /\ k = "ocr.v1" => derived[e][k] = NoRow
  /\ engine' = [engine EXCEPT ![k] = e]
  /\ UNCHANGED <<stage, derived, doc, snapshot, raced>>

\* The job fails, is skipped, or dies with the daemon.
Abandon(k) ==
  /\ engine[k] # NoRow
  /\ engine' = [engine EXCEPT ![k] = NoRow]
  /\ UNCHANGED <<stage, derived, doc, snapshot, raced>>

TextOf(k) == IF k = "ocr.v1" THEN "ocr text" ELSE "ax text"

\* insert_derived: upsert of the derived row and of the search row, whichever
\* kind wrote that one last; no look at the event row.
Insert(k, body) ==
  LET e == engine[k]
  IN  /\ e # NoRow
      /\ derived' = [derived EXCEPT ![e][k] = body]
      /\ doc' = [doc EXCEPT ![e] = body]
      /\ engine' = [engine EXCEPT ![k] = NoRow]
      /\ raced' = Racing({e})
      /\ UNCHANGED <<stage, snapshot>>

-----------------------------------------------------------------------------
(* Deletions. *)

Blank(E) == [e \in Events |-> IF e \in E THEN [k \in Kinds |-> NoRow] ELSE derived[e]]

\* Trim, had it deleted derived and event rows only.
TrimKeepsDocs(e) ==
  /\ stage[e] = "live"
  /\ stage' = [stage EXCEPT ![e] = "gone"]
  /\ derived' = Blank({e})
  /\ raced' = Racing({e})
  /\ UNCHANGED <<doc, engine, snapshot>>

\* trim_metadata_batch walks event ids: rows of a deleted event are not found.
Trim(e) ==
  /\ stage[e] = "live"
  /\ stage' = [stage EXCEPT ![e] = "gone"]
  /\ derived' = Blank({e})
  /\ doc' = [doc EXCEPT ![e] = NoRow]
  /\ raced' = Racing({e})
  /\ UNCHANGED <<engine, snapshot>>

WipeIndex ==
  /\ stage' = [e \in Events |-> IF stage[e] = "live" THEN "gone" ELSE stage[e]]
  /\ derived' = Blank(Events)
  /\ doc' = Unread
  /\ raced' = Racing(Events)
  /\ UNCHANGED <<engine, snapshot>>

-----------------------------------------------------------------------------
(* Rebuilds. *)

\* The SELECT over derived leaves the walk's bodies out.
Rebuilt == [e \in Events |-> derived[e]["ocr.v1"]]

\* reindex_ocr_docs in the daemon (the control request): the mutex is held from
\* the SELECT to the commit.
Reindex ==
  /\ doc' = Rebuilt
  /\ raced' = IF snapshot = NoRow THEN {} ELSE raced
  /\ UNCHANGED <<stage, derived, engine, snapshot>>

\* The same function in the desktop shell, whose mutex is its own: the SELECT
\* ends before the transaction begins.
BeginReindex ==
  /\ snapshot = NoRow
  /\ snapshot' = Rebuilt
  /\ UNCHANGED <<stage, derived, doc, engine, raced>>

EndReindex ==
  /\ snapshot # NoRow
  /\ doc' = snapshot
  /\ snapshot' = NoRow
  /\ UNCHANGED <<stage, derived, engine, raced>>

-----------------------------------------------------------------------------

IndexDaemonNext ==
  \/ \E e \in Events : Persist(e) \/ Trim(e)
  \/ \E k \in Kinds, e \in Events : Begin(k, e)
  \/ \E k \in Kinds : Abandon(k)
  \/ \E k \in Kinds : \E body \in {TextOf(k), "blank"} : Insert(k, body)
  \/ WipeIndex \/ Reindex

IndexNext == IndexDaemonNext \/ BeginReindex \/ EndReindex

IndexSpec == IndexInit /\ [][IndexNext]_indexVars

\* Without the desktop shell.
IndexDaemonSpec == IndexInit /\ [][IndexDaemonNext]_indexVars

-----------------------------------------------------------------------------
(* Properties.  An event that a desktop rebuild raced with is set aside until *)
(* the next rebuild by the daemon.                                            *)

\* A search hit is backed by a derived row of the same event with that very
\* text, whichever worker, trim, wipe or rebuild came last.
DocHasSource ==
  \A e \in Events \ raced :
    doc[e] # NoRow => \E k \in Kinds : derived[e][k] = doc[e]

\* An event with an ocr.v1 row is in the index, with one of its texts.
OcrHasDoc ==
  \A e \in Events \ raced : derived[e]["ocr.v1"] # NoRow => doc[e] # NoRow

\* The index tells what was derived, no more and, of recognised text, no less.
IndexTrue == DocHasSource /\ OcrHasDoc

\* The text of a frame that was recognised is never replaced by another
\* recognition of it, whatever is redone after a crash; it goes when its event
\* or everything does.
OcrWrittenOnce ==
  [][\A e \in Events :
       derived[e]["ocr.v1"] # NoRow /\ derived'[e]["ocr.v1"] # derived[e]["ocr.v1"]
         => derived'[e]["ocr.v1"] = NoRow]_indexVars

-----------------------------------------------------------------------------
(* What the documentation says, and the code does not guarantee. *)

\* docs/OCR_PRODUCT.md, exit criteria: "OCR text is queryable via FTS / local
\* control API".
OcrTextQueryable ==
  \A e \in Events : derived[e]["ocr.v1"] = "ocr text" => doc[e] = "ocr text"

=============================================================================
