---------------------------- MODULE HistoryCards ----------------------------
(***************************************************************************)
(* The 15-minute cards of the History page.  Once a minute one task folds   *)
(* the segments of today and yesterday into cards, lays the stored cards    *)
(* over them, adds the digest of the documents seen, and writes all of them *)
(* back; then it asks the model for a title and a text of at most two       *)
(* closed cards, newest first, and for the workflow of one.  The store's    *)
(* mutex is released between these steps, and a wipe, a new segment or a    *)
(* crash may fall between any two.                                          *)
(***************************************************************************)
EXTENDS Integers, FiniteSets

CONSTANTS MaxSlot,      \* bound: the slots are 1 .. MaxSlot
          Workflows,       \* workflows the model may name
          NoCard,
          PerTick,      \* MAX_PER_TICK
          MaxUpheavals     \* wipes and crashes

\* A card in the kv table; "by" is where title and body come from.
StoredCards == [status : {"none", "extracted", "pending", "ready", "failed"}, by : {"fold", "digest", "model"},
                skills : SUBSET Workflows, checked : BOOLEAN]

ASSUME CardsAssumption == MaxSlot \in Nat \ {0} /\ NoCard \notin StoredCards

VARIABLES slot,          \* the open slot
          folded,       \* slots with active time in the segments
          texts,         \* slots with AX or OCR documents
          card,         \* kv, history.slot.*: the stored card of each slot
          job,          \* the task: what it does next, and what it read before
          promoted,     \* skills some card has put into the library
          backfilled,   \* kv, skills.backfill.v1
          starting,     \* the daemon has not come to the backfill yet
          answers,      \* for each slot, the texts the model was paid for
          wipes, crashes

cardVars == <<slot, folded, texts, card, job, promoted, backfilled, starting, answers, wipes, crashes>>

Slots == 1 .. MaxSlot

FoldCard   == [status |-> "none", by |-> "fold", skills |-> {}, checked |-> FALSE]
ReadyCards == {[status |-> "ready", by |-> "model", skills |-> ks, checked |-> c] :
                 ks \in SUBSET Workflows, c \in BOOLEAN}

Cards(S, c)  == [s \in S |-> c]
Stored       == {s \in Slots : card[s] # NoCard}
NoCards      == [s \in {} |-> NoCard]
NoJob         == [at |-> "idle", batch |-> NoCards]

\* Cards of a version that did not check for skills yet may be there.
CardsInit ==
  /\ slot = 2
  /\ folded \in {{}, {1}} /\ texts \in SUBSET folded
  /\ card \in [Slots -> {NoCard} \cup {c \in ReadyCards : ~c.checked}]
  /\ \A s \in Slots : card[s] # NoCard => s \in folded
  /\ job = NoJob
  /\ promoted = {} /\ backfilled = FALSE /\ starting = TRUE
  /\ answers = [s \in Slots |-> 0]
  /\ wipes = 0 /\ crashes = 0

IsClosed(s) == s < slot
At(pc)    == job.at = pc
Keep      == UNCHANGED <<slot, folded, texts, promoted, backfilled, starting, answers, wipes, crashes>>

-----------------------------------------------------------------------------
(* What a card becomes. *)

\* Overlay, had it been written for failed narratives only.
OverlayFailed(fresh, stored) ==
  IF stored # NoCard /\ stored.status \in {"extracted", "pending", "failed"} THEN stored ELSE fresh

\* overlay_slot_narrative.
Overlay(fresh, stored) ==
  IF stored # NoCard /\ stored.status \in {"ready", "extracted", "pending", "failed"}
  THEN stored ELSE fresh

\* apply_slot_evidence: nothing without documents, nothing on a ready card.
Digest(s, c) ==
  IF s \notin texts \/ c.status = "ready" THEN c
  ELSE [c EXCEPT !.by = "digest", !.status = IF @ = "pending" THEN @ ELSE "extracted"]

\* list_history_slots: a card that has a text keeps it.
Shown(s) ==
  LET c == Overlay(FoldCard, card[s])
  IN  IF c.status = "ready" \/ (c.status # "none" /\ c.by # "fold") THEN c ELSE Digest(s, c)

NewestOf(S, n) == {s \in S : Cardinality({t \in S : t > s}) < n}

-----------------------------------------------------------------------------
(* The task. *)

\* list_activity_segments of today and of yesterday.
ReadsFold ==
  /\ At("idle")
  /\ job' = [at |-> "overlay", batch |-> Cards(folded, FoldCard)]
  /\ Keep /\ UNCHANGED card

ReadsStored ==
  /\ At("overlay")
  /\ job' = [job EXCEPT !.at = "digest",
               !.batch = [s \in DOMAIN job.batch |-> Overlay(job.batch[s], card[s])]]
  /\ Keep /\ UNCHANGED card

ReadsDocuments ==
  /\ At("digest")
  /\ job' = [job EXCEPT !.at = "write",
               !.batch = [s \in DOMAIN job.batch |-> Digest(s, job.batch[s])]]
  /\ Keep /\ UNCHANGED card

WrittenBack(S) == [s \in Slots |-> IF s \in S THEN job.batch[s] ELSE card[s]]

WritesBack ==
  /\ At("write")
  /\ card' = WrittenBack(DOMAIN job.batch)
  /\ job' = [NoJob EXCEPT !.at = "list"]
  /\ Keep

\* list_closed_slots_needing_narrative, with and without a model configured.
ListsPending ==
  /\ At("list")
  /\ \E pending \in {NewestOf({s \in folded : IsClosed(s) /\ Shown(s).status \notin {"ready", "pending"}},
                              PerTick)} :
       \/ job' = [at |-> "narrate", batch |-> [s \in pending |-> Shown(s)]]
       \/ job' = NoJob
  /\ Keep /\ UNCHANGED card

\* apply_slot_narrative puts the skills into the library before the card, each in
\* a statement of its own; an error ends the tick.
Applies(s, status, by, skills) ==
  /\ card[s] # NoCard
  /\ card' = [card EXCEPT ![s] = [status |-> status, by |-> by, skills |-> skills, checked |-> TRUE]]
  /\ promoted' = promoted \cup skills

Next1(s)  == s \in DOMAIN job.batch /\ \A t \in DOMAIN job.batch : t <= s
Without(s) == [job EXCEPT !.batch = [t \in DOMAIN job.batch \ {s} |-> job.batch[t]]]

\* The model answers with a text and at most one workflow.
Answers(s) ==
  /\ At("narrate") /\ Next1(s)
  /\ answers' = [answers EXCEPT ![s] = @ + 1]
  /\ \/ \E named \in {{}} \cup {{k} : k \in Workflows} : Applies(s, "ready", "model", named)
        /\ job' = Without(s)
     \/ card[s] = NoCard /\ job' = NoJob /\ UNCHANGED <<card, promoted>>
  /\ UNCHANGED <<slot, folded, texts, backfilled, starting, wipes, crashes>>

\* The model fails: the card keeps what the list showed and the skills it had.
Declines(s) ==
  /\ At("narrate") /\ Next1(s)
  /\ card' = IF card[s] = NoCard THEN card
             ELSE [card EXCEPT ![s].status = "failed", ![s].by = job.batch[s].by]
  /\ job' = Without(s)
  /\ Keep

\* list_ready_slots_missing_skill(1).
ListsUnchecked ==
  /\ At("narrate") /\ job.batch = NoCards
  /\ \E unchecked \in {NewestOf({s \in folded : IsClosed(s) /\ Shown(s).status = "ready" /\ ~Shown(s).checked}, 1)} :
       job' = [at |-> "check", batch |-> [s \in unchecked |-> Shown(s)]]
  /\ Keep /\ UNCHANGED card

\* A slot that cannot hold a workflow and a model that fails count as checked.
Checks(s) ==
  /\ At("check") /\ s \in DOMAIN job.batch
  /\ \/ \E named \in {{}} \cup {{k} : k \in Workflows} : Applies(s, "ready", job.batch[s].by, named)
     \/ card[s] = NoCard /\ UNCHANGED <<card, promoted>>
  /\ job' = NoJob
  /\ UNCHANGED <<slot, folded, texts, backfilled, starting, answers, wipes, crashes>>

NothingToCheck ==
  /\ At("check") /\ job.batch = NoCards
  /\ job' = NoJob
  /\ Keep /\ UNCHANGED card

-----------------------------------------------------------------------------
(* The rest of the process. *)

\* At start, beside the task: the claim first, then the rows in one transaction.
Backfill ==
  /\ starting /\ starting' = FALSE
  /\ backfilled' = TRUE
  /\ promoted' = promoted \cup (IF backfilled THEN {} ELSE UNION {card[s].skills : s \in Stored})
  /\ UNCHANGED <<slot, folded, texts, card, job, answers, wipes, crashes>>

Records(s) ==
  /\ s \in {slot - 1, slot} \ folded
  /\ folded' = folded \cup {s}
  /\ UNCHANGED <<slot, texts, card, job, promoted, backfilled, starting, answers, wipes, crashes>>

SeesText(s) ==
  /\ s \in folded \ texts
  /\ texts' = texts \cup {s}
  /\ UNCHANGED <<slot, folded, card, job, promoted, backfilled, starting, answers, wipes, crashes>>

SlotCloses ==
  /\ slot < MaxSlot /\ slot' = slot + 1
  /\ UNCHANGED <<folded, texts, card, job, promoted, backfilled, starting, answers, wipes, crashes>>

\* kv goes with the segments and the documents, the library stays.
WipesCards ==
  /\ wipes + crashes < MaxUpheavals /\ wipes' = wipes + 1
  /\ card' = [s \in Slots |-> NoCard]
  /\ folded' = {} /\ texts' = {}
  /\ backfilled' = FALSE
  /\ UNCHANGED <<slot, job, promoted, starting, answers, crashes>>

\* The daemon dies: in the middle of the rows being written back, between the
\* library and the card, between the claim and the backfill, or elsewhere.
DaemonDies ==
  /\ wipes + crashes < MaxUpheavals /\ crashes' = crashes + 1
  /\ job' = NoJob /\ starting' = TRUE
  /\ \/ UNCHANGED <<card, promoted, backfilled, answers>>
     \/ starting /\ backfilled' = TRUE /\ UNCHANGED <<card, promoted, answers>>
     \/ At("write") /\ \E S \in SUBSET DOMAIN job.batch : card' = WrittenBack(S)
        /\ UNCHANGED <<promoted, backfilled, answers>>
     \/ At("narrate") /\ \E s \in DOMAIN job.batch, k \in Workflows :
          /\ Next1(s) /\ card[s] # NoCard
          /\ promoted' = promoted \cup {k}
          /\ answers' = [answers EXCEPT ![s] = @ + 1]
        /\ UNCHANGED <<card, backfilled>>
  /\ UNCHANGED <<slot, folded, texts, wipes>>

CardsNext ==
  \/ ReadsFold \/ ReadsStored \/ ReadsDocuments \/ WritesBack
  \/ ListsPending \/ ListsUnchecked \/ NothingToCheck
  \/ \E s \in Slots : Answers(s) \/ Declines(s) \/ Checks(s) \/ Records(s) \/ SeesText(s)
  \/ Backfill \/ SlotCloses \/ WipesCards \/ DaemonDies

CardsSpec == CardsInit /\ [][CardsNext]_cardVars

-----------------------------------------------------------------------------
(* Properties. *)

\* "An existing `ready` narrative is never overwritten by the fold"
\* (persist_closed_history_slots): once the model's text of a card is stored, it
\* stays, and with it that its skills were looked for, unless all is wiped.
ReadyStays ==
  [][\A s \in Stored : card[s].status = "ready" /\ wipes' = wipes =>
       /\ card'[s] # NoCard /\ card'[s].status = "ready" /\ card'[s].by = card[s].by
       /\ card[s].checked => card'[s] = card[s]]_cardVars

\* The model is paid for a text of a slot at most twice, whatever comes in late: an
\* answer is lost only when the slot had no stored card yet, as its first segment
\* came after the fold, and the next fold stores one.  A crash costs one more, and
\* after a wipe it all begins anew.
ToldOnce == \A s \in Slots : answers[s] <= 2 * (1 + wipes) + crashes

\* Once the daemon has come up, a stored card names no workflow the library was
\* not given: cards of an older version are backfilled, later ones promote theirs
\* first.  (After a wipe the task may write back the old cards it still holds, and
\* a crash between claim and backfill loses the backfill.)
NamedIsPromoted ==
  ~starting /\ crashes = 0 /\ wipes = 0 => \A s \in Stored : card[s].skills \subseteq promoted

\* Whatever comes between the task's reads and writes - a first segment, a wipe, a
\* crash -, what the model was paid for is accounted for: it is not paid again and
\* again for the same text, and the workflows a card names are in the library.
NarrativesAccounted == ToldOnce /\ NamedIsPromoted

\* A narrative is paid for once and kept.
NarrativesKept == []NarrativesAccounted /\ ReadyStays

=============================================================================
