------------------------------ MODULE HidInput ------------------------------
(***************************************************************************)
(* What the keyboard and the mouse leave in the store: the tap that queues *)
(* raw presses and counts them, the input task that looks at the policy    *)
(* gate and drains the tap on a short tick, the coalescer that joins keys  *)
(* to texts and a press and a release to a click, and the counters flushed *)
(* on a long tick.                                                         *)
(*                                                                         *)
(* Both ticks are arms of one select!, so one handler runs at a time.  The *)
(* desktop may have become anything by the time a handler looks at it: what *)
(* it sees of the flags and of the window in front is a choice.  Sessions  *)
(* change between the drain and the lock on them.                          *)
(***************************************************************************)
EXTENDS Naturals, Sequences, SequencesExt, FiniteSets

CONSTANTS
  Places,      \* windows an app shows: records [app, title]
  HidBlocked,  \* apps of privacy.app_blocklist
  NoPlace,     \* nothing known in front
  Inputs,      \* raw presses: records [kind, button, at]
  MaxPresses,  \* bound: presses on the tap
  MaxOwners,   \* bound: sessions opened
  MaxFailures  \* bound: events the store refuses

ASSUME HidAssumption ==
  /\ Places # {} /\ NoPlace \notin Places
  /\ {MaxPresses, MaxOwners, MaxFailures} \subseteq Nat

VARIABLES
  settings,  \* [observe, text]: observe_interactions and record_text of this start
  owners,    \* owners[s]: the app session s was opened for
  open,      \* the session the binder holds, 0 for none
  tap,       \* raw presses not drained: [id, kind, button, at]
  pressed,   \* pressed[id]: the kind of every press so far
  counts,    \* the counters of the tap
  cut,       \* were presses taken off the counters since, and by no closed gate?
  task,      \* where the input task is
  coal,      \* InteractionCoalescer: [text, ctx, drag], and out, what it returned last
  kept,      \* interaction events stored: [kind, of, ctx]
  flushed,   \* does the last input.stats event have its whole interval?
  dropped,   \* ids of the presses given up
  failures   \* note_persist_failed

hidVars == <<settings, owners, open, tap, pressed, counts, cut,
             task, coal, kept, flushed, dropped, failures>>

Windows  == Places \cup {NoPlace}
NoCtx   == [place |-> NoPlace, session |-> 0]
AtRest == [at |-> "waiting", raw |-> <<>>, ctx |-> NoCtx, typed |-> FALSE]
Ids(s)  == {s[i].id : i \in DOMAIN s}

HidInit ==
  /\ settings \in [observe : BOOLEAN, text : BOOLEAN]
  /\ owners = <<>> /\ open = 0
  /\ tap = <<>> /\ pressed = <<>> /\ counts = 0 /\ cut = FALSE
  /\ task = AtRest
  /\ coal = [text |-> <<>>, ctx |-> NoCtx, drag |-> <<>>, out |-> <<>>]
  /\ kept = <<>> /\ flushed = TRUE /\ dropped = {} /\ failures = 0

-----------------------------------------------------------------------------
(* The user, and the activity owner who switches sessions. *)

Press ==
  /\ Len(pressed) < MaxPresses
  /\ \E input \in Inputs :
       tap' = Append(tap, [id |-> Len(pressed) + 1, kind |-> input.kind,
                           button |-> input.button, at |-> input.at])
       /\ pressed' = Append(pressed, input.kind)
  /\ counts' = counts + 1
  /\ UNCHANGED <<settings, owners, open, cut, task, coal, kept, dropped, failures, flushed>>

\* The screen loop opens, changes or closes the session; not under session_persist,
\* and for no blocked app.
ActivityBinds ==
  /\ Len(owners) < MaxOwners
  /\ \/ open # 0 /\ open' = 0 /\ UNCHANGED owners
     \/ /\ \E place \in {place \in Places : place.app \notin HidBlocked} :
             /\ open # 0 => owners[open] # place.app
             /\ owners' = Append(owners, place.app)
        /\ open' = Len(owners')
  /\ UNCHANGED <<settings, tap, pressed, counts, cut, task, coal, kept,
                 dropped, failures, flushed>>

-----------------------------------------------------------------------------
(* The coalescer. *)

\* flush_text
TextFlushed(c) ==
  IF c.text = <<>> THEN c
  ELSE [c EXCEPT !.text = <<>>, !.ctx = NoCtx,
                 !.out = Append(@, [kind |-> "text", of |-> c.text, ctx |-> c.ctx])]

WithEvent(c, kind, of, ctx) ==
  [c EXCEPT !.out = Append(@, [kind |-> kind, of |-> of, ctx |-> ctx])]

\* Mutant of Typed: a change of window does not end the text.
TypedAnywhere(c, r, ctx) ==
  [c EXCEPT !.text = Append(@, [id |-> r.id, ctx |-> ctx]), !.ctx = ctx]

\* text_identity: one app, window and session.
Typed(c, r, ctx) ==
  [(IF c.ctx # ctx THEN TextFlushed(c) ELSE c)
     EXCEPT !.text = Append(@, [id |-> r.id, ctx |-> ctx]), !.ctx = ctx]

\* The events of a release; the task stores what is selected before that of the mouse.
Released(c, r, ctx, selected) ==
  LET down == c.drag[1]
      kind == IF down.at # r.at THEN "drag"
              ELSE IF r.button = "right" THEN "menu" ELSE "click"
      before == IF selected THEN WithEvent(TextFlushed(c), "selection", <<>>, ctx) ELSE TextFlushed(c)
  IN  IF c.drag = <<>> THEN TextFlushed(c)
      ELSE [WithEvent(before, kind, <<down, r>>, ctx) EXCEPT !.drag = <<>>]

\* push; a key that is no character leaves nothing.
Pushed(c, r, ctx, selected) ==
  CASE r.kind \in {"submit", "shortcut"} -> WithEvent(TextFlushed(c), r.kind, <<r>>, ctx)
    [] r.kind = "key"  -> Typed(c, r, ctx)
    [] r.kind = "down" -> [c EXCEPT !.drag = <<r>>]
    [] r.kind = "up"   -> Released(c, r, ctx, selected)
    [] OTHER           -> c

WithoutText == [coal EXCEPT !.text = <<>>, !.ctx = NoCtx]

Mouse(e) == e.kind \in {"click", "menu", "drag"}

-----------------------------------------------------------------------------
(* The input task. *)

\* observe_policy_gate with the flags open: the windows it lets through.
Allowed ==
  IF HidBlocked = {} THEN Windows ELSE {place \in Places : place.app \notin HidBlocked}

Discards ==
  /\ task.at = "waiting"
  /\ tap' = <<>> /\ counts' = 0 /\ coal' = WithoutText
  /\ dropped' = dropped \cup Ids(tap) \cup Ids(coal.text)
  /\ UNCHANGED <<settings, owners, open, pressed, task, kept, failures, flushed>>

\* The gate is closed or interactions are off: the tap and the text are discarded,
\* a press whose release is to come is not.
TickClosed == Discards /\ UNCHANGED cut
TickOff    == ~settings.observe /\ Discards /\ cut' = (cut \/ counts > 0)

\* Nothing was pressed; whether the text has been idle for 450 ms is a choice.
\* (Without record_text there is no text between two drains.)
TickQuiet ==
  /\ task.at = "waiting" /\ settings.observe /\ settings.text /\ tap = <<>> /\ coal.text # <<>>
  /\ coal' = TextFlushed(coal) /\ task' = [AtRest EXCEPT !.at = "pushing"]
  /\ UNCHANGED <<settings, owners, open, tap, pressed, counts, cut, kept, dropped, failures, flushed>>

TickDrains ==
  /\ task.at = "waiting" /\ settings.observe /\ tap # <<>>
  /\ \E place \in Allowed :
       task' = [at |-> "locking", raw |-> tap, ctx |-> [NoCtx EXCEPT !.place = place], typed |-> FALSE]
  /\ tap' = <<>>
  /\ UNCHANGED <<settings, owners, open, pressed, counts, cut, coal, kept, dropped, failures, flushed>>

AppOf(place) == IF place = NoPlace THEN "" ELSE place.app

\* ensure_session_if_absent finds the session of another app: the drain is lost.
TickHasNoSession ==
  /\ task.at = "locking" /\ open # 0 /\ owners[open] # AppOf(task.ctx.place)
  /\ coal' = WithoutText
  /\ dropped' = dropped \cup Ids(task.raw) \cup Ids(coal.text)
  /\ task' = AtRest
  /\ UNCHANGED <<settings, owners, open, tap, pressed, counts, cut, kept, failures, flushed>>

\* It finds the session of the app drained for, or opens it.
TickBinds ==
  /\ task.at = "locking" /\ (open # 0 => owners[open] = AppOf(task.ctx.place))
  /\ \/ open # 0 /\ UNCHANGED <<owners, open>>
     \/ /\ open = 0
        /\ owners' = Append(owners, AppOf(task.ctx.place)) /\ open' = Len(owners')
  /\ task' = [task EXCEPT !.at = "pushing", !.ctx.session = open']
  /\ UNCHANGED <<settings, tap, pressed, counts, cut, coal, kept, dropped, failures, flushed>>

\* coal.push of the next press; with record_text, focused_selection may have an answer.
Pushes ==
  /\ task.at = "pushing" /\ task.raw # <<>> /\ coal.out = <<>>
  /\ LET r == Head(task.raw)
     IN  /\ \E selected \in {FALSE, settings.text} : coal' = Pushed(coal, r, task.ctx, selected)
         /\ task' = [task EXCEPT !.raw = Tail(@), !.typed = @ \/ r.kind = "key"]
  /\ UNCHANGED <<settings, owners, open, tap, pressed, counts, cut, kept, dropped, failures, flushed>>

\* persist_interaction_events, event by event: what the store refuses is counted and
\* gone; texts are left out when record_text is off.
Persists ==
  /\ coal.out # <<>> /\ coal' = [coal EXCEPT !.out = Tail(@)]
  /\ LET e == Head(coal.out)
     IN  IF ~settings.text /\ e.kind = "text"
         THEN dropped' = dropped \cup Ids(e.of) /\ UNCHANGED <<kept, failures>>
         ELSE \/ kept' = Append(kept, e) /\ UNCHANGED <<dropped, failures>>
              \/ /\ failures < MaxFailures /\ failures' = failures + 1
                 /\ dropped' = dropped \cup Ids(e.of) /\ UNCHANGED kept
  /\ UNCHANGED <<settings, owners, open, tap, pressed, counts, cut, task, flushed>>

\* flush_due: a text this drain added nothing to may have been idle for 450 ms.
FlushesDue ==
  /\ task.at = "pushing" /\ task.raw = <<>> /\ coal.out = <<>>
  /\ settings.text /\ coal.text # <<>> /\ ~task.typed
  /\ coal' = TextFlushed(coal)
  /\ UNCHANGED <<settings, owners, open, tap, pressed, counts, cut, task, kept, dropped, failures, flushed>>

TickEnds ==
  /\ task.at = "pushing" /\ task.raw = <<>> /\ coal.out = <<>>
  /\ \/ settings.text /\ UNCHANGED <<coal, dropped>>
     \/ ~settings.text /\ coal' = WithoutText /\ dropped' = dropped \cup Ids(coal.text)
  /\ task' = AtRest
  /\ UNCHANGED <<settings, owners, open, tap, pressed, counts, cut, kept, failures, flushed>>

\* The long tick: the counters are reset, and stored before if the gate is open.
Stats ==
  /\ task.at = "waiting"
  /\ \/ UNCHANGED <<flushed, failures>>
     \/ flushed' = ~cut /\ UNCHANGED failures
     \/ failures < MaxFailures /\ failures' = failures + 1 /\ UNCHANGED flushed
  /\ counts' = 0 /\ cut' = FALSE
  /\ UNCHANGED <<settings, owners, open, tap, pressed, task, coal, kept, dropped>>

InputTask ==
  \/ TickClosed \/ TickOff \/ TickQuiet \/ TickDrains \/ TickHasNoSession \/ TickBinds
  \/ Pushes \/ Persists \/ FlushesDue \/ TickEnds \/ Stats

HidNext == Press \/ ActivityBinds \/ InputTask

HidSpec == HidInit /\ [][HidNext]_hidVars

-----------------------------------------------------------------------------
(* Properties. *)

Texts(events) == {events[i] : i \in {i \in DOMAIN events : events[i].kind = "text"}}
KeysOf(texts) == UNION {Ids(e.of) : e \in texts}

\* Every key typed is in one place: on the tap or in a drain, in the text being
\* joined, in one text, or given up for a reason (a closed gate, no session of this
\* app, no record_text, a refused write).  What was given up never comes back, and
\* texts keep the order of the keys.
KeysAccounted ==
  LET keys    == {k \in DOMAIN pressed : pressed[k] = "key"}
      places  == <<Ids(tap) \cup Ids(task.raw), Ids(coal.text),
                   KeysOf(Texts(coal.out)), KeysOf(Texts(kept)), dropped>>
  IN  /\ keys \subseteq UNION {places[i] : i \in DOMAIN places}
      /\ \A i, j \in DOMAIN places : i # j => places[i] \cap places[j] = {}
      /\ \A i, j \in DOMAIN kept : kept[i].kind = "text" /\ kept[j].kind = "text" =>
           \A m \in DOMAIN kept[i].of, n \in DOMAIN kept[j].of :
             i < j \/ (i = j /\ m < n) => kept[i].of[m].id < kept[j].of[n].id

\* An event names the window and the session of everything in it; the session is
\* of its app, the app is not a blocked one; without record_text it holds no text.
EventsInPlace ==
  \A i \in DOMAIN kept : \E e \in {kept[i]} :
    /\ e.kind = "text" => \A k \in DOMAIN e.of : e.of[k].ctx = e.ctx
    /\ e.ctx.session # 0 /\ owners[e.ctx.session] = AppOf(e.ctx.place)
    /\ AppOf(e.ctx.place) \notin HidBlocked /\ (e.ctx.place = NoPlace => HidBlocked = {})
    /\ ~settings.text => e.kind \notin {"text", "selection"}

\* A release ends one press, made before it, and neither is in two events.
PressesPaired ==
  \A i, j \in DOMAIN kept :
    Mouse(kept[i]) =>
      /\ kept[i].of[1].id < kept[i].of[2].id
      /\ i # j => Ids(kept[i].of) \cap Ids(kept[j].of) = {}

\* All of it: what was typed and clicked is stored once, where it was done.
InputAccounted == KeysAccounted /\ EventsInPlace /\ PressesPaired

\* "Each event carries the counters of the flush interval ending at its ts"
\* (input_active_ranges): every press since the last flush that no closed gate hid.
CountsOfTheInterval == flushed

=============================================================================
