---------------------------- MODULE SlotEvidence ----------------------------
(***************************************************************************)
(* What stood on the screen in one 15-minute slot, as the card and the     *)
(* summarizer are told it: of the texts the AX and OCR workers have        *)
(* derived from the slot's screenshots one reading is chosen for each      *)
(* window and beginning of text, and the readings of an app are compressed *)
(* to a few lines.                                                         *)
(*                                                                         *)
(* A line stands for a fragment of a text, up to its normalized form; two  *)
(* orders of the code, of the keys of a map and of names, are those of     *)
(* numbers.                                                                *)
(***************************************************************************)
EXTENDS Integers, Sequences, FiniteSets

CONSTANTS
  DocApps,           \* applications, in the order of their names
  Heads,             \* a window and how a text begins (80 characters), in order
  TextLines,         \* the lines of texts
  Salient,           \* those keep_fragment keeps: long enough, no chrome, no secret
  MaxDocsPerApp, MaxSnippets, MaxShownApps,
  SlotReadings,      \* the derived rows a slot may have
  MaxReadings        \* bound: rows of a slot

Readings == [kind : {"ax", "ocr"}, app : DocApps, head : Heads,
             desynced : BOOLEAN, lines : Seq(TextLines)]

ASSUME SlotEvidenceAssumption ==
  /\ DocApps \subseteq Nat /\ Heads \subseteq Nat
  /\ Salient \subseteq TextLines /\ SlotReadings \subseteq Readings
  /\ {MaxDocsPerApp, MaxSnippets, MaxShownApps} \subseteq Nat \ {0} /\ MaxReadings \in Nat

VARIABLES
  readings,     \* the rows read so far, by the time of their screenshots
  best          \* by_event: the reading chosen for each app and head

evidenceVars == <<readings, best>>

EvidenceInit == readings = <<>> /\ best = [key \in {} |-> <<>>]

Key(d)      == <<d.app, d.head>>
IsUsable(d) == ~d.desynced /\ d.lines # <<>>

\* Whether a row replaces the reading there is.
Prefers(d) == best[Key(d)].kind = "ocr" /\ d.kind = "ax"

\* One row of the loop of compress_slot_docs; rows of one screenshot come in any order.
ReadsRow(d) ==
  /\ Len(readings) < MaxReadings
  /\ readings' = Append(readings, d)
  /\ best' = IF ~IsUsable(d) \/ (Key(d) \in DOMAIN best /\ ~Prefers(d)) THEN best
             ELSE [key \in DOMAIN best \cup {Key(d)} |-> IF key = Key(d) THEN d ELSE best[key]]

\* The loops of fill_pending_slot_narratives.
ReadsNextSlot ==
  /\ readings # <<>> /\ readings' = <<>>
  /\ best' = [key \in {} |-> <<>>]

EvidenceNext == ReadsNextSlot \/ \E d \in SlotReadings : ReadsRow(d)

EvidenceSpec == EvidenceInit /\ [][EvidenceNext]_evidenceVars

-----------------------------------------------------------------------------
(* The evidence. *)

Upto(seq, n) == SubSeq(seq, 1, IF Len(seq) < n THEN Len(seq) ELSE n)

InOrder(S) == [n \in 1 .. Cardinality(S) |-> CHOOSE i \in S : Cardinality({j \in S : j < i}) = n - 1]

\* A line is taken once.
Distinct(seq) ==
  LET first == InOrder({i \in 1 .. Len(seq) : \A j \in 1 .. i - 1 : seq[j] # seq[i]})
  IN  [n \in 1 .. Len(first) |-> seq[first[n]]]

\* One after the other.
Joint(seqs) ==
  LET upto[n \in 0 .. Len(seqs)] == IF n = 0 THEN <<>> ELSE upto[n - 1] \o seqs[n]
  IN  upto[Len(seqs)]

\* salient_fragments.
Fragments(d) == Upto(Distinct(SelectSeq(d.lines, LAMBDA l : l \in Salient)), MaxSnippets + 2)

\* The readings of an app that are looked at, in the order of their keys.
Looked(app) ==
  LET heads == {h \in Heads : <<app, h>> \in DOMAIN best}
      first == {h \in heads : Cardinality({g \in heads : g < h}) < MaxDocsPerApp}
      order == InOrder(first)
  IN  [i \in 1 .. Len(order) |-> best[<<app, order[i]>>]]

Seen(app) ==
  LET docs == Looked(app)
  IN  Upto(Distinct(Joint([i \in 1 .. Len(docs) |-> Fragments(docs[i])])), MaxSnippets)

Via(app) == IF \E i \in DOMAIN Looked(app) : Looked(app)[i].kind = "ax" THEN "ax" ELSE "ocr"

\* The apps shown: those with the most lines, by name where alike.
ShownApps ==
  LET some   == {a \in DocApps : Seen(a) # <<>>}
      more(a, b) == Len(Seen(a)) > Len(Seen(b)) \/ (Len(Seen(a)) = Len(Seen(b)) /\ a < b)
  IN  {a \in some : Cardinality({b \in some : more(b, a)}) < MaxShownApps}

-----------------------------------------------------------------------------
(* Properties. *)

EvidenceTypeOK ==
  /\ readings \in Seq(Readings)
  /\ DOMAIN best \subseteq DocApps \X Heads
  /\ \A key \in DOMAIN best : best[key] \in Readings

\* "AX wins over OCR for the same screenshot. Empty / desynced AX falls through to
\* OCR" (compress_slot_docs), where two texts begin alike: the reading chosen is
\* the first usable one of the tree, or the first of the picture if there is none,
\* in whatever order the two come.
IsFirst(i, kind) ==
  /\ IsUsable(readings[i]) /\ readings[i].kind = kind
  /\ \A j \in 1 .. i - 1 : ~(IsUsable(readings[j]) /\ readings[j].kind = kind /\ Key(readings[j]) = Key(readings[i]))

OneReadingEach ==
  /\ DOMAIN best = {Key(readings[i]) : i \in {n \in 1 .. Len(readings) : IsUsable(readings[n])}}
  /\ \A key \in DOMAIN best : \E i \in 1 .. Len(readings) :
       /\ best[key] = readings[i] /\ Key(readings[i]) = key
       /\ IsFirst(i, best[key].kind)
       /\ best[key].kind = "ocr" =>
            \A j \in 1 .. Len(readings) :
              ~(IsUsable(readings[j]) /\ readings[j].kind = "ax" /\ Key(readings[j]) = key)

\* An app is shown with lines of its own texts, each of them once and kept; that a
\* text gives no more than MaxSnippets + 2 of them costs it none it had room for.
LinesTrue ==
  \A a \in DocApps :
    LET lines == SelectSeq(Joint([i \in 1 .. Len(Looked(a)) |-> Looked(a)[i].lines]),
                           LAMBDA l : l \in Salient)
    IN  Seen(a) = Upto(Distinct(lines), MaxSnippets)

\* An app said to be read by OCR is shown no line of a tree, and no app is left out
\* for one with fewer lines.
ShownTrue ==
  \A a \in ShownApps :
    /\ Via(a) = "ocr" => \A i \in DOMAIN Looked(a) : Looked(a)[i].kind = "ocr"
    /\ \A b \in DocApps \ ShownApps : Len(Seen(b)) <= Len(Seen(a))

\* What the card and the model are told of the screen is the best reading of it.
EvidenceHolds == OneReadingEach /\ LinesTrue /\ ShownTrue

\* "`ax` when any kept snippet came from the accessibility tree" (SlotAppEvidence.via);
\* checked by no run: an app whose tree gave no line worth keeping is "ax" too.
ViaTrue ==
  \A a \in ShownApps : Via(a) = "ax" =>
    \E i \in DOMAIN Looked(a), n \in DOMAIN Seen(a), m \in 1 .. MaxSnippets + 2 :
      LET d == Looked(a)[i]
      IN  d.kind = "ax" /\ m \in DOMAIN Fragments(d) /\ Fragments(d)[m] = Seen(a)[n]

=============================================================================
