------------------------------ MODULE MCProjections ------------------------------
(***************************************************************************)
(* Small instances of what the store is opened as and what is derived from *)
(* its rows: the search index, the activity time line and its reports, the *)
(* history cards and what their summarizer is told, the facts of a day and *)
(* its roast.  At this grain they share no state: a behaviour runs one     *)
(* part and leaves the others where they started.                          *)
(***************************************************************************)
EXTENDS SearchIndex, ActivityTime, DayRoast, HistoryCards, SlotActions, SlotEvidence,
        DailyRoast, Migration, TLC

CONSTANTS u1, u2

\* The parts share no state, so that one pair may be permuted in all of them.
\* Everything checked is safety.
MCPair    == {u1, u2}
Symmetric == Permutations(MCPair)

MCDayEnds == <<3, 4>>
MCHourOf  == [t \in 0..4 |-> IF t < 3 THEN 23 ELSE 0]
MCFrom    == 0..13

MCDomainOf    == [app \in MCPair |-> "site"]
MCNear        == [before |-> 1, after |-> 1]
MCWide        == [before |-> 2, after |-> 1]
MCFlushBounds == <<1, 2>>
MCFacts       == 3       \* bound: rows and input events together

\* The actions of a slot: a messenger and a shell, with and without a walk each.
MCRow(action, app, window, chord, place, ts) ==
  [action |-> action, app |-> app, window |-> window, chord |-> chord, place |-> place, ts |-> ts]
MCRows ==
  {MCRow("click", "chat", "main", "none", 1, 1),  MCRow("click", "shell", "main", "none", 1, 3),
   MCRow("click", "shell", "other", "none", 2, 4), MCRow("click", "", "main", "none", 0, -1),
   MCRow("submit", "shell", "main", "none", 0, 4), MCRow("shortcut", "shell", "main", "save", 0, 4),
   MCRow("shortcut", "shell", "main", "quit", 0, 4)}

MCBox(cells, label)    == [cells |-> cells, label |-> label]
MCWalk(app, ts, boxes) == [app |-> app, ts |-> ts, boxes |-> boxes]
MCTwoApps ==
  <<MCWalk("shell", 1, <<MCBox({1, 2}, "all"), MCBox({1}, "key")>>), MCWalk("chat", 3, <<MCBox({1}, "all")>>)>>
MCOneApp ==
  <<MCWalk("shell", 2, <<MCBox({1}, "key")>>), MCWalk("shell", 4, <<MCBox({1, 2}, "all")>>)>>
MCWalks == {MCTwoApps, MCOneApp}

MCStep(action, app, label) ==
  [action |-> action, app |-> app, window |-> "main", chord |-> "none", label |-> label]
MCAnswers ==
  {<<MCStep("focus", "shell", "nothing"), MCStep("submit", "shell", "nothing")>>,
   <<MCStep("focus", "chat", "key"), MCStep("click", "chat", "key")>>}

\* The texts of a slot: more lines than are shown, lines not kept, no text at all.
MCReading(kind, app, head, desynced, lines) ==
  [kind |-> kind, app |-> app, head |-> head, desynced |-> desynced, lines |-> lines]
MCReadings ==
  {MCReading(kind, 1, head, FALSE, lines) : kind \in {"ax", "ocr"}, head \in 1..3,
     lines \in {<<"a", "menu", "b", "a", "c", "d", "e">>, <<"menu">>}}
  \cup {MCReading("ax", 1, 1, TRUE, <<"a">>), MCReading("ocr", 1, 1, FALSE, <<"c", "e">>),
        MCReading("ocr", 2, 1, FALSE, <<>>), MCReading("ocr", 2, 1, FALSE, <<"b">>)}

VARIABLE part

toldVars == <<actionVars, evidenceVars>>

projectionsVars == <<part, indexVars, vars, roastVars2, cardVars, roastVars, migrationVars, toldVars>>

\* A part that does not run starts in one of its initial states.
ProjectionsInit ==
  /\ part \in {"index", "activity", "reports", "cards", "actions", "evidence", "roasts", "schema"}
  /\ IndexInit /\ Init /\ RoastFactsInit
  /\ CardsInit /\ (part # "cards" => folded = {} /\ Stored = {})
  /\ ActionsInit /\ (part # "actions" => walks = MCOneApp) /\ EvidenceInit
  /\ RoastInit /\ (part # "roasts" => active = {})
  /\ MigrationInit /\ (part # "schema" => version = Latest)

ProjectionsNext ==
  \/ part = "index" /\ IndexNext /\ UNCHANGED <<part, vars, roastVars2, cardVars, roastVars, migrationVars, toldVars>>
  \/ part = "activity" /\ Next /\ UNCHANGED <<part, indexVars, roastVars2, cardVars, roastVars, migrationVars, toldVars>>
  \/ /\ part = "reports"          \* without room for more, there is only the wipe
     /\ \/ Cardinality(rows) + Cardinality(inputs) < MCFacts /\ RoastFactsNext
        \/ WipeActivity /\ UNCHANGED inputs
     /\ UNCHANGED <<part, indexVars, vars, cardVars, roastVars, migrationVars, toldVars>>
  \/ /\ part = "cards" /\ CardsNext
     /\ slot' + wipes' + crashes' <= MaxSlot       \* a wipe or a crash takes a slot's place
     /\ UNCHANGED <<part, indexVars, vars, roastVars2, roastVars, migrationVars, toldVars>>
  \/ part = "roasts" /\ RoastNext /\ UNCHANGED <<part, indexVars, vars, roastVars2, cardVars, migrationVars, toldVars>>
  \/ part = "schema" /\ MigrationNext /\ UNCHANGED <<part, indexVars, vars, roastVars2, cardVars, roastVars, toldVars>>
  \/ /\ part = "actions" /\ ActionsNext
     /\ UNCHANGED <<part, indexVars, vars, roastVars2, cardVars, roastVars, migrationVars, evidenceVars>>
  \/ /\ part = "evidence" /\ EvidenceNext
     /\ UNCHANGED <<part, indexVars, vars, roastVars2, cardVars, roastVars, migrationVars, actionVars>>

ProjectionsSpec == ProjectionsInit /\ [][ProjectionsNext]_projectionsVars

\* What a model is told - the facts of a day, the actions and the screen of a slot -
\* is what the rows say, and what it proposes is kept only where it can be replayed.
FactsHold ==
  /\ RoastFactsHold
  /\ part = "actions" => ActionsHold
  /\ part = "evidence" => EvidenceHolds
=============================================================================
