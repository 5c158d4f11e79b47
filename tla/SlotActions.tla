----------------------------- MODULE SlotActions -----------------------------
(***************************************************************************)
(* What the user did in one 15-minute slot, as the summarizer is told it.  *)
(* The slot's input rows are folded, oldest first, into a short trace: a   *)
(* "focus" where the window changes, one entry for a run of like actions,  *)
(* and for a click the name of the element under it, looked up in the      *)
(* nearest accessibility walk of the same app.  Then the model may propose *)
(* a workflow that Computer Use could replay; what it proposes is          *)
(* sanitized, and where that leaves nothing the trace is the proposal.     *)
(*                                                                         *)
(* A place on the screen is a cell, a box the set of its cells; the place  *)
(* within a box, the host and the verbs of the card are left out.          *)
(***************************************************************************)
EXTENDS Integers, Sequences, FiniteSets
LOCAL INSTANCE FiniteSetsExt

CONSTANTS
  HitApps,       \* names of applications
  NoApp,         \* an input row without one
  Unknown,       \* the name such a row gets
  Chats,         \* is_messaging_app: messengers and mail
  Consoles,      \* is_terminal_or_ide_app
  HitWindows,    \* window titles, none included
  Chords,        \* keys of an input row
  Quitting,         \* is_dangerous_shortcut
  NoChord,
  Cells, NoPlace,
  Labels,        \* titles of elements
  Secrets,       \* looks_secret
  NoLabel,
  MaxFolded,     \* MAX_FOLDED
  MaxReplay,     \* steps of a workflow
  SlotWalks,     \* the accessibility walks a slot may have, oldest first
  SlotRows,      \* the input rows it may have
  SlotAnswers,   \* the steps a model may propose
  MaxHits        \* bound: input rows of a slot

Actions == {"click", "context_menu", "drag", "shortcut", "submit", "type"}

\* InteractionHit: an input row; "ts" is NoTime where it does not parse.
NoTime == -1
Hits   == [action : Actions, app : HitApps \cup {NoApp}, window : HitWindows,
           chord : Chords \cup {NoChord}, place : Cells \cup {NoPlace}, ts : Nat \cup {NoTime}]

\* AxSnapshot.
Boxes     == [cells : SUBSET Cells, label : Labels]
Snapshots == [app : HitApps \cup {NoApp}, ts : Nat \cup {NoTime}, boxes : Seq(Boxes)]

\* SkillStepDto and FoldedAction, which also counts what it stands for.
TraceApps   == HitApps \cup {Unknown}
ReplaySteps == [action : Actions \cup {"focus"}, app : TraceApps, window : HitWindows,
                chord : Chords \cup {NoChord}, label : Labels \cup {NoLabel}]
Folded      == [action : Actions \cup {"focus"}, app : TraceApps, window : HitWindows,
                chord : Chords \cup {NoChord}, label : Labels \cup {NoLabel},
                place : Cells \cup {NoPlace}, count : Nat]

\* The spelled names do not name a chat "unknown", and "" is no application.
ASSUME SlotActionsAssumption ==
  /\ NoApp \notin HitApps \cup {Unknown} /\ Unknown \notin Chats \cup Consoles
  /\ NoChord \notin Chords /\ Quitting \subseteq Chords
  /\ IsFiniteSet(Cells) /\ NoPlace \notin Cells
  /\ NoLabel \notin Labels /\ Secrets \subseteq Labels
  /\ SlotWalks \subseteq Seq(Snapshots) /\ SlotRows \subseteq Hits
  /\ SlotAnswers \subseteq Seq(ReplaySteps)
  /\ MaxFolded \in Nat \ {0} /\ MaxReplay \in Nat \ {0, 1} /\ MaxHits \in Nat

VARIABLES
  walks,        \* the walks of the slot
  trace,        \* what the rows read so far are folded into
  lastFocus,    \* <<app, window>> of the last row, NoFocus before the first
  tally,        \* SlotActionTrace: events, clicks, shortcuts, submits
  step,         \* "fold", "told" once the trace is cut to length, "done"
  skill         \* the workflow proposed: NoSkill, or its steps and whose they are

actionVars == <<walks, trace, lastFocus, tally, step, skill>>

NoFocus == <<>>
NoSkill == [by |-> "nobody", steps |-> <<>>]

ActionsInit ==
  /\ walks \in SlotWalks
  /\ trace = <<>> /\ lastFocus = NoFocus
  /\ tally = [events |-> 0, click |-> 0, shortcut |-> 0, submit |-> 0]
  /\ step = "fold" /\ skill = NoSkill

-----------------------------------------------------------------------------
(* The element under a click. *)

Distance(h, w) == IF h.ts < w.ts THEN w.ts - h.ts ELSE h.ts - w.ts
IsDated(h, w)  == h.ts # NoTime /\ w.ts # NoTime

\* Closer, if need be by being dated at all; the earlier of two alike.
IsNearer(h, i, j) ==
  \/ IsDated(h, walks[i]) /\ (~IsDated(h, walks[j]) \/ Distance(h, walks[i]) < Distance(h, walks[j]))
  \/ /\ IsDated(h, walks[i]) <=> IsDated(h, walks[j])
     /\ IsDated(h, walks[i]) => Distance(h, walks[i]) = Distance(h, walks[j])
     /\ i < j

WalksOf(app) == {i \in 1 .. Len(walks) : walks[i].app = app}

\* pick_snapshot: its index, 0 for none.
Picked(h) ==
  IF h.app = NoApp \/ WalksOf(h.app) = {} THEN 0
  ELSE CHOOSE i \in WalksOf(h.app) : \A j \in WalksOf(h.app) \ {i} : IsNearer(h, i, j)

\* The boxes around a place, of which the smallest is meant, the first of its size.
Around(boxes, place) == {b \in 1 .. Len(boxes) : place \in boxes[b].cells}
IsSmaller(boxes, b, c) ==
  LET area(x) == Cardinality(boxes[x].cells)
  IN  area(b) < area(c) \/ (area(b) = area(c) /\ b < c)

\* map_click.
Label(h) ==
  LET boxes == walks[Picked(h)].boxes
  IN  IF h.action # "click" \/ Picked(h) = 0 \/ Around(boxes, h.place) = {} THEN NoLabel
      ELSE boxes[CHOOSE b \in Around(boxes, h.place) :
                   \A c \in Around(boxes, h.place) \ {b} : IsSmaller(boxes, b, c)].label

-----------------------------------------------------------------------------
(* The fold. *)

AppOf(h) == IF h.app = NoApp THEN Unknown ELSE h.app

FocusOn(h) == [action |-> "focus", app |-> AppOf(h), window |-> h.window,
               chord |-> NoChord, label |-> NoLabel, place |-> NoPlace, count |-> 1]
Entry(h)   == [action |-> h.action, app |-> AppOf(h), window |-> h.window,
               chord |-> h.chord, label |-> Label(h), place |-> h.place, count |-> 1]

IsLike(a, b) == a.action = b.action /\ a.app = b.app /\ a.window = b.window /\ a.chord = b.chord

\* push_folded: a run of like actions keeps the label of the first and the place of
\* the last.
Pushed(seq, e) ==
  LET n == Len(seq)
  IN  IF n > 0 /\ IsLike(seq[n], e) /\ e.action # "focus"
      THEN [seq EXCEPT ![n].count = @ + e.count,
                       ![n].place = IF e.place = NoPlace THEN @ ELSE e.place]
      ELSE Append(seq, e)

Counted(t, action) ==
  [a \in DOMAIN t |-> IF a \in {"events", action} THEN t[a] + 1 ELSE t[a]]

\* The trace, with a focus where the row is in another window than the last.
Focused(h) ==
  IF lastFocus = <<AppOf(h), h.window>> THEN trace ELSE Append(trace, FocusOn(h))

Folds(h) ==
  /\ step = "fold" /\ tally.events < MaxHits
  /\ trace' = Pushed(Focused(h), Entry(h))
  /\ lastFocus' = <<AppOf(h), h.window>>
  /\ tally' = Counted(tally, h.action)
  /\ UNCHANGED <<walks, step, skill>>

Shorter(n, m) == IF n < m THEN n ELSE m

EndsFold ==
  /\ step = "fold"
  /\ trace' = SubSeq(trace, 1, Shorter(Len(trace), MaxFolded))
  /\ step' = "told"
  /\ UNCHANGED <<walks, lastFocus, tally, skill>>

-----------------------------------------------------------------------------
(* The workflow. *)

StepOf(e) == [action |-> e.action, app |-> e.app, window |-> e.window,
              chord |-> e.chord, label |-> e.label]

Kept(e) == e.app \notin Chats
First(seq) == SubSeq(seq, 1, Shorter(Len(seq), MaxReplay))

\* steps_from_actions.
TraceSteps ==
  LET steps == First(SelectSeq(trace, Kept))
  IN  [i \in 1 .. Len(steps) |-> StepOf(steps[i])]

\* sanitize_step: what may be replayed, and what is kept of it.
IsReplayable(s) ==
  /\ s.action = "shortcut" => s.chord # NoChord
  /\ s.action = "submit" => s.app \notin Consoles
  /\ s.chord \notin Quitting

Cleaned(steps) ==
  [i \in 1 .. Len(steps) |->
     [steps[i] EXCEPT !.label = IF @ \in Secrets THEN NoLabel ELSE @]]

\* sanitize_suggested_skill, of a proposal whose wording passes.
Sanitized(steps, by) ==
  LET clean == First(Cleaned(SelectSeq(steps, IsReplayable)))
  IN  IF Len(clean) < 2 THEN NoSkill ELSE [by |-> by, steps |-> clean]

\* skill_from_actions; the card's title is the name, and may not do for one.
FromTrace(titled) ==
  IF Len(TraceSteps) < 2 \/ ~titled THEN NoSkill ELSE Sanitized(TraceSteps, "trace")

\* fill_steps.
Filled(s) ==
  IF s # NoSkill /\ Len(s.steps) < 2 THEN [s EXCEPT !.steps = TraceSteps] ELSE s

\* slot_may_hold_skill, with the apps of the card and of its documents.
MayHoldSkill(longEnough, others) ==
  LET apps == others \cup {trace[i].app : i \in DOMAIN trace}
  IN  /\ longEnough
      /\ Len(trace) >= 3 \/ tally.click >= 4 \/ tally.submit >= 2
      /\ ~(apps # {} /\ apps \subseteq Chats)

\* summarize_slot and extract_skill_only: the model proposes "answer", or nothing
\* that can be worded as a workflow.
Proposes(longEnough, others, answer, worded, titled) ==
  /\ step = "told" /\ step' = "done"
  /\ LET proposed == IF worded THEN Sanitized(answer, "model") ELSE NoSkill
         chosen   == IF proposed # NoSkill THEN proposed ELSE FromTrace(titled)
     IN  skill' = IF MayHoldSkill(longEnough, others) THEN Filled(chosen) ELSE NoSkill
  /\ UNCHANGED <<walks, trace, lastFocus, tally>>

\* The loops of fill_pending_slot_narratives: nothing of a slot is left for the next.
TakesUp ==
  /\ step = "done" /\ step' = "fold"
  /\ walks' \in SlotWalks
  /\ trace' = <<>> /\ lastFocus' = NoFocus
  /\ tally' = [a \in DOMAIN tally |-> 0]
  /\ skill' = NoSkill

ActionsNext ==
  \/ \E h \in SlotRows : Folds(h)
  \/ EndsFold \/ TakesUp
  \/ \E longEnough, worded, titled \in BOOLEAN, others \in {{}} \cup {{a} : a \in HitApps},
       answer \in SlotAnswers : Proposes(longEnough, others, answer, worded, titled)

ActionsSpec == ActionsInit /\ [][ActionsNext]_actionVars

-----------------------------------------------------------------------------
(* Properties. *)

\* The state is of the shape of SlotActionTrace and SuggestedSkillDto.
ActionsTypeOK ==
  /\ walks \in Seq(Snapshots)
  /\ trace \in Seq(Folded)
  /\ lastFocus = NoFocus \/ lastFocus \in TraceApps \X HitWindows
  /\ tally \in [{"events", "click", "shortcut", "submit"} -> Nat]
  /\ step \in {"fold", "told", "done"}
  /\ skill \in [by : {"nobody", "model", "trace"}, steps : Seq(ReplaySteps)]

\* Every entry that is not a focus comes, without another focus between, after a
\* focus of its own app and window.
UnderItsFocus(seq) ==
  \A i \in 1 .. Len(seq) : seq[i].action # "focus" =>
    \E j \in 1 .. i - 1 :
      /\ seq[j].action = "focus" /\ seq[j].app = seq[i].app /\ seq[j].window = seq[i].window
      /\ \A k \in j + 1 .. i - 1 : seq[k].action # "focus"

\* "insert `focus` on window change" (fold_slot_actions): nothing in the trace is to
\* be replayed in a window that was not brought to the front just before.
TraceFocused == UnderItsFocus(trace)

\* "Clicks are hit-tested only against the same app's nearest AX snapshot": no
\* entry carries the name of another app's element.
LabelsOwn ==
  \A i \in 1 .. Len(trace) : trace[i].label # NoLabel =>
    /\ trace[i].action = "click"
    /\ \E w \in 1 .. Len(walks) :
         /\ walks[w].app = trace[i].app
         /\ \E b \in 1 .. Len(walks[w].boxes) : walks[w].boxes[b].label = trace[i].label

Sum(action) ==
  MapThenSumSet(LAMBDA i : trace[i].count,
                {i \in 1 .. Len(trace) : trace[i].action # "focus" /\ action \in {"events", trace[i].action}})

\* However rows are merged, until it is cut to length the trace stands for each row
\* it was told of, and for no other.
TraceAccounts == step = "fold" => \A a \in DOMAIN tally : Sum(a) = tally[a]

\* A workflow that is stored has at least two steps and not too many, each of which
\* may be replayed, names no secret, and was sanitized whoever proposed it; the one
\* made of the trace leaves chats out and still focuses each window first.
SkillReplayable ==
  skill # NoSkill =>
    /\ Len(skill.steps) \in 2 .. MaxReplay
    /\ \A i \in 1 .. Len(skill.steps) : IsReplayable(skill.steps[i]) /\ skill.steps[i].label \notin Secrets
    /\ skill.by = "trace" =>
         /\ UnderItsFocus(skill.steps)
         /\ \A i \in 1 .. Len(skill.steps) : skill.steps[i].app \notin Chats

\* What the summarizer is told of the user's actions is what they were, and what is
\* kept for replay can be replayed.
ActionsHold == TraceFocused /\ LabelsOwn /\ TraceAccounts /\ SkillReplayable

=============================================================================
