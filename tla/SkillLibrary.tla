---------------------------- MODULE SkillLibrary ----------------------------
(***************************************************************************)
(* The skills table: workflows the model found on History cards, kept by    *)
(* name, switched by the user, offered in the menu bar for the app in       *)
(* front, and replayed.  Rows are written by the daemon (promotion, the     *)
(* control socket) and by the desktop (settings, menu), each call under the *)
(* store's mutex; the menu shows what a query of up to 30 s ago returned.   *)
(***************************************************************************)
EXTENDS Integers, FiniteSets

CONSTANTS Skills, Apps, NoSkill,
          Cooldown,     \* hours between two offers of one skill
          Window,       \* LIMIT of the query behind an offer
          MaxHours,     \* bound of the clock
          MaxEditCount  \* bound of the promotions, the replays and the user's edits

\* A row of the table.
Rows == [apps : SUBSET Apps, on : BOOLEAN, last : Nat, uses : Nat]

ASSUME SkillAssumption == NoSkill \notin Skills /\ NoSkill \notin Rows

VARIABLES library,      \* the rows by name, NoSkill where there is none
          front,        \* app of the last segment that is not idle
          offered,      \* what the menu shows
          replayed,     \* what the menu last ran
          hour,
          switchedOff,  \* what the user switched off and has not deleted since
          edits         \* replays and edits so far

skillVars == <<library, front, offered, replayed, hour, switchedOff, edits>>

InLibrary == {k \in Skills : library[k] # NoSkill}
Promoted(apps) == [apps |-> apps, on |-> TRUE, last |-> 0, uses |-> 0]

SkillInit ==
  /\ library = [k \in Skills |-> NoSkill]
  /\ front \in Apps
  /\ offered = NoSkill /\ replayed = NoSkill
  /\ hour = 1 /\ switchedOff = {} /\ edits = 0

-----------------------------------------------------------------------------
(* Calls that change rows. *)

\* The rows after a card's skills were promoted, had the conflict clause set
\* `enabled` too.
UpsertSkillsOn(found, apps) ==
  [k \in Skills |-> IF k \in found THEN Promoted(apps) ELSE library[k]]

\* The rows after a card's skills were promoted: the switch and the offers of a
\* row that is there survive, its apps are replaced unless the card has none.
UpsertSkills(found, apps) ==
  [k \in Skills |->
     CASE k \notin found        -> library[k]
       [] library[k] = NoSkill  -> Promoted(apps)
       [] OTHER -> [library[k] EXCEPT !.apps = IF apps = {} THEN @ ELSE apps]]

\* Enabled rows for the app that cooled down, among the first ones by the time of
\* their last offer; rows that were never offered come first, and rows of one time
\* come in any order.
Before(k)   == {j \in InLibrary : library[j].on /\ library[j].last < library[k].last}
NotAfter(k) == {j \in InLibrary \ {k} : library[j].on /\ library[j].last <= library[k].last}

Matching(cooldown) ==
  {k \in InLibrary :
     /\ library[k].on /\ front \in library[k].apps
     /\ library[k].last = 0 \/ hour - library[k].last >= cooldown}

\* What suggest_skill_for_app may return for the app in front.
Suggestions(cooldown) ==
  {k \in Matching(cooldown) :
     Before(k) \cap Matching(cooldown) = {} /\ Cardinality(Before(k)) < Window}

\* The LIMIT may leave out every row that matches.
NoSuggestion(cooldown) ==
  \A k \in Matching(cooldown) : Cardinality(NotAfter(k) \ Matching(cooldown)) >= Window

Suggested(k, used) == library' = [library EXCEPT ![k].last = hour, ![k].uses = @ + used]

Promote(found, apps) ==
  /\ edits < MaxEditCount /\ edits' = edits + 1
  /\ library' = UpsertSkills(found, apps)
  /\ UNCHANGED <<front, offered, replayed, hour, switchedOff>>

SetEnabled(k, on) ==
  /\ edits < MaxEditCount /\ edits' = edits + 1
  /\ k \in InLibrary
  /\ library' = [library EXCEPT ![k].on = on]
  /\ switchedOff' = IF on THEN switchedOff \ {k} ELSE switchedOff \cup {k}
  /\ UNCHANGED <<front, offered, replayed, hour>>

DeleteSkill(k) ==
  /\ edits < MaxEditCount /\ edits' = edits + 1
  /\ k \in InLibrary
  /\ library' = [library EXCEPT ![k] = NoSkill]
  /\ switchedOff' = switchedOff \ {k}
  /\ UNCHANGED <<front, offered, replayed, hour>>

-----------------------------------------------------------------------------
(* The menu bar and the control socket. *)

RefreshMenu ==
  /\ \/ \E k \in Suggestions(Cooldown) : Suggested(k, 0) /\ offered' = k
     \/ NoSuggestion(Cooldown) /\ offered' = NoSkill /\ UNCHANGED library
  /\ UNCHANGED <<front, replayed, hour, switchedOff, edits>>

\* Request::SkillSuggestion, which counts as an offer too.
ControlSuggests ==
  /\ \E k \in Suggestions(Cooldown) : Suggested(k, 0)
  /\ UNCHANGED <<front, offered, replayed, hour, switchedOff, edits>>

\* A click asks again, with no cooldown; a replay that succeeds is counted.
ClickMenu ==
  /\ edits < MaxEditCount /\ edits' = edits + 1
  /\ offered # NoSkill
  /\ \E k \in Suggestions(0), used \in {0, 1} : Suggested(k, used) /\ replayed' = k
  /\ UNCHANGED <<front, offered, hour, switchedOff>>

\* skill_replay, from the settings, where the switch is not asked.
ReplaySkill(k) ==
  /\ edits < MaxEditCount /\ edits' = edits + 1
  /\ k \in InLibrary
  /\ library' = [library EXCEPT ![k].uses = @ + 1]
  /\ UNCHANGED <<front, offered, replayed, hour, switchedOff>>

SwitchApp ==
  /\ front' \in Apps \ {front}
  /\ UNCHANGED <<library, offered, replayed, hour, switchedOff, edits>>

HourPasses ==
  /\ hour < MaxHours /\ hour' = hour + 1
  /\ UNCHANGED <<library, front, offered, replayed, switchedOff, edits>>

SkillNext ==
  \/ \E found \in SUBSET Skills, apps \in SUBSET Apps : Promote(found, apps)
  \/ \E k \in Skills, on \in BOOLEAN : SetEnabled(k, on)
  \/ \E k \in Skills : DeleteSkill(k) \/ ReplaySkill(k)
  \/ ControlSuggests \/ RefreshMenu \/ ClickMenu \/ SwitchApp \/ HourPasses

SkillSpec == SkillInit /\ [][SkillNext]_skillVars

-----------------------------------------------------------------------------
(* Properties. *)

\* "existing enable/use counters survive" (upsert_skills_tx): no promotion, offer
\* or replay switches a skill back on that the user switched off, or resets its
\* uses, and what is off is neither offered nor run from the menu, which may show
\* it still.
UserHasTheSwitch ==
  [][/\ \A k \in InLibrary' : library'[k].on <=> k \notin switchedOff'
     /\ \A k \in InLibrary \cap InLibrary' : library'[k].uses >= library[k].uses
     /\ replayed' # replayed => replayed' \notin switchedOff
     /\ offered' # offered => offered' \notin switchedOff]_skillVars

\* "Replay the freshest library skill for the current frontmost app (the one the
\* menu was built from)" (tray): with the app in front that the skill was offered
\* for, a click runs the skill the menu shows.
ClickRunsOffer ==
  [][replayed' # replayed /\ offered \in Matching(0) => replayed' = offered]_skillVars

=============================================================================
