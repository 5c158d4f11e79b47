----------------------------- MODULE Desktop_proofs -----------------------------
(***************************************************************************)
(* The desktop process: the menu of skills, the windows of the selection   *)
(* assistant and the daemon it keeps alive.                                *)
(***************************************************************************)
EXTENDS SkillLibrary, SelectionAssistant, ObserveShell, SequenceTheorems, TLAPS

-----------------------------------------------------------------------------
(* The library of skills. *)

SkillType ==
  /\ library \in [Skills -> Rows \cup {NoSkill}]
  /\ hour \in Nat

\* What the user switched off is there, and off; everything else is on.
SwitchKept ==
  /\ switchedOff \subseteq InLibrary
  /\ \A k \in InLibrary : library[k].on <=> k \notin switchedOff

SkillInv == SkillType /\ SwitchKept

UsesKept == \A k \in InLibrary \cap InLibrary' : library'[k].uses >= library[k].uses

LEMMA RowsAreRows ==
  ASSUME SkillType
  PROVE  /\ InLibrary \subseteq Skills
         /\ \A k \in InLibrary : library[k] \in Rows
  BY DEF SkillType, InLibrary

LEMMA PromotedIsARow ==
  ASSUME NEW apps \in SUBSET Apps
  PROVE  Promoted(apps) \in Rows /\ Promoted(apps) # NoSkill
<1>1. Promoted(apps) \in Rows
  BY DEF Promoted, Rows
<1>. QED BY <1>1, SkillAssumption

\* An offer takes a row that is on, and changes no switch.
LEMMA OffersKeepSwitch ==
  ASSUME SkillInv, NEW k \in InLibrary, NEW times \in {0, 1}, Suggested(k, times)
  PROVE  /\ library' \in [Skills -> Rows \cup {NoSkill}]
         /\ InLibrary' = InLibrary
         /\ \A j \in InLibrary : library'[j].on = library[j].on /\ library'[j].uses >= library[j].uses
<1>1. k \in Skills /\ library[k] \in Rows
  BY RowsAreRows DEF SkillInv
<1>. DEFINE row == [library[k] EXCEPT !.last = hour, !.uses = @ + times]
<1>2. library' = [library EXCEPT ![k] = row]
  BY <1>1 DEF Suggested, SkillInv, SkillType
<1>3. row \in Rows /\ row.on = library[k].on /\ row.uses >= library[k].uses
  <2>1. hour \in Nat /\ times \in Nat
    BY DEF SkillInv, SkillType
  <2>. DEFINE uses == library[k].uses + times
  <2>2. library[k].uses \in Nat
    BY <1>1 DEF Rows
  <2>3. uses \in Nat /\ uses >= library[k].uses
    BY <2>1, <2>2
  <2>. HIDE DEF uses
  <2>4. row = [library[k] EXCEPT !.last = hour, !.uses = uses]
    BY DEF uses
  <2>5. row \in Rows /\ row.on = library[k].on /\ row.uses = uses
    BY <1>1, <2>1, <2>3, <2>4 DEF Rows
  <2>. QED BY <2>3, <2>5
<1>4. row # NoSkill
  BY <1>3, SkillAssumption
<1>. HIDE DEF row
<1>5. library' \in [Skills -> Rows \cup {NoSkill}]
  BY <1>2, <1>3 DEF SkillInv, SkillType
<1>6. \A j \in Skills : library'[j] = IF j = k THEN row ELSE library[j]
  BY <1>2 DEF SkillInv, SkillType
<1>7. InLibrary' = InLibrary
  BY <1>1, <1>4, <1>6 DEF InLibrary
<1>8. \A j \in InLibrary : library[j].uses \in Nat
  BY RowsAreRows DEF SkillInv, Rows
<1>9. \A j \in InLibrary : library'[j].on = library[j].on /\ library'[j].uses >= library[j].uses
  BY <1>3, <1>6, <1>8 DEF InLibrary
<1>. QED BY <1>5, <1>7, <1>9

LEMMA SuggestionsAreOn ==
  ASSUME SkillInv, NEW cooldown, NEW k \in Suggestions(cooldown)
  PROVE  k \in InLibrary /\ k \notin switchedOff
  BY DEF SkillInv, SwitchKept, Suggestions, Matching

\* Whatever is promoted, offered, replayed or edited, the user has the switch.
LEMMA SkillSteps ==
  ASSUME SkillInv, SkillNext
  PROVE  /\ SkillInv'
         /\ UsesKept
         /\ replayed' # replayed => replayed' \notin switchedOff
         /\ offered' # offered => offered' \notin switchedOff
<1>. USE DEF SkillInv
<1>0. switchedOff \subseteq Skills /\ NoSkill \notin switchedOff
  BY RowsAreRows, SkillAssumption DEF SwitchKept
<1>1. ASSUME NEW found \in SUBSET Skills, NEW apps \in SUBSET Apps, Promote(found, apps)
      PROVE  SkillInv' /\ UsesKept /\ UNCHANGED <<replayed, offered>>
  <2>. DEFINE Row(k) == CASE k \notin found        -> library[k]
                          [] library[k] = NoSkill  -> Promoted(apps)
                          [] OTHER -> [library[k] EXCEPT !.apps = IF apps = {} THEN @ ELSE apps]
  <2>1. library' = [k \in Skills |-> Row(k)]
    BY <1>1 DEF Promote, UpsertSkills
  <2>2. ASSUME NEW k \in Skills, library[k] = NoSkill
        PROVE  Row(k) = NoSkill \/ (Row(k) = Promoted(apps) /\ Row(k) \in Rows /\ Row(k).on)
    BY <2>2, PromotedIsARow DEF Promoted
  <2>3. ASSUME NEW k \in Skills, library[k] # NoSkill
        PROVE  /\ Row(k) \in Rows /\ Row(k) # NoSkill
               /\ Row(k).on = library[k].on /\ Row(k).uses = library[k].uses
    <3>1. library[k] \in Rows
      BY <2>3 DEF SkillType
    <3>2. Row(k) \in Rows
      BY <2>3, <3>1 DEF Rows
    <3>3. Row(k).on = library[k].on /\ Row(k).uses = library[k].uses
      BY <2>3, <3>1 DEF Rows
    <3>. QED BY <3>2, <3>3, SkillAssumption
  <2>. HIDE DEF Row
  <2>4. SkillType'
    BY <1>1, <2>1, <2>2, <2>3 DEF Promote, SkillType
  <2>5. InLibrary \subseteq InLibrary'
    BY <2>1, <2>3 DEF InLibrary
  <2>6. SwitchKept'
    <3>1. switchedOff' \subseteq InLibrary'
      BY <1>1, <2>5 DEF Promote, SwitchKept
    <3>2. ASSUME NEW k \in InLibrary'
          PROVE  library'[k].on <=> k \notin switchedOff'
      <4>1. k \in Skills /\ library'[k] = Row(k) /\ Row(k) # NoSkill
        BY <2>1, <3>2 DEF InLibrary
      <4>2. CASE library[k] = NoSkill
        BY <1>1, <2>2, <4>1, <4>2 DEF Promote, SwitchKept, InLibrary
      <4>3. CASE library[k] # NoSkill
        BY <1>1, <2>3, <4>1, <4>3 DEF Promote, SwitchKept, InLibrary
      <4>. QED BY <4>2, <4>3
    <3>. QED BY <3>1, <3>2 DEF SwitchKept
  <2>7. UsesKept
    <3>1. ASSUME NEW k \in InLibrary
          PROVE  library'[k].uses >= library[k].uses
      <4>1. k \in Skills /\ library[k] # NoSkill /\ library[k].uses \in Nat
        BY RowsAreRows DEF InLibrary, Rows
      <4>. QED BY <2>1, <2>3, <4>1
    <3>. QED BY <3>1 DEF UsesKept
  <2>. QED BY <1>1, <2>4, <2>6, <2>7 DEF Promote
<1>2. ASSUME NEW k \in Skills, NEW on \in BOOLEAN, SetEnabled(k, on)
      PROVE  SkillInv' /\ UsesKept /\ UNCHANGED <<replayed, offered>>
  <2>. DEFINE row == [library[k] EXCEPT !.on = on]
  <2>1. k \in InLibrary /\ library' = [library EXCEPT ![k] = row]
    BY <1>2 DEF SetEnabled
  <2>2. row \in Rows /\ row.on = on /\ row.uses = library[k].uses
    BY <2>1, RowsAreRows DEF Rows
  <2>3. row # NoSkill
    BY <2>2, SkillAssumption
  <2>. HIDE DEF row
  <2>4. SkillType'
    BY <1>2, <2>1, <2>2 DEF SetEnabled, SkillType
  <2>5. \A j \in Skills : library'[j] = IF j = k THEN row ELSE library[j]
    BY <2>1 DEF SkillType
  <2>6. InLibrary' = InLibrary
    BY <2>1, <2>3, <2>5 DEF InLibrary
  <2>7. switchedOff' = IF on THEN switchedOff \ {k} ELSE switchedOff \cup {k}
    BY <1>2 DEF SetEnabled
  <2>8. SwitchKept'
    BY <2>1, <2>2, <2>5, <2>6, <2>7, RowsAreRows DEF SwitchKept
  <2>9. UsesKept
    <3>1. \A j \in InLibrary : library[j].uses \in Nat
      BY RowsAreRows DEF Rows
    <3>. QED BY <2>2, <2>5, <3>1, RowsAreRows DEF UsesKept
  <2>. QED BY <1>2, <2>4, <2>8, <2>9 DEF SetEnabled
<1>3. ASSUME NEW k \in Skills, DeleteSkill(k)
      PROVE  SkillInv' /\ UsesKept /\ UNCHANGED <<replayed, offered>>
  <2>1. \A j \in Skills : library'[j] = IF j = k THEN NoSkill ELSE library[j]
    BY <1>3 DEF DeleteSkill, SkillType
  <2>2. InLibrary' = InLibrary \ {k} /\ switchedOff' = switchedOff \ {k}
    BY <1>3, <2>1 DEF DeleteSkill, InLibrary
  <2>3. SkillType'
    BY <1>3 DEF DeleteSkill, SkillType
  <2>4. SwitchKept'
    BY <2>1, <2>2, RowsAreRows DEF SwitchKept
  <2>5. UsesKept
    <3>1. \A j \in InLibrary : library[j].uses \in Nat
      BY RowsAreRows DEF Rows
    <3>. QED BY <2>1, <2>2, <3>1, RowsAreRows DEF UsesKept
  <2>. QED BY <1>3, <2>3, <2>4, <2>5 DEF DeleteSkill
<1>4. ASSUME NEW k \in InLibrary, NEW times \in {0, 1}, Suggested(k, times), UNCHANGED <<hour, switchedOff>>
      PROVE  SkillInv' /\ UsesKept
  <2>1. SkillType'
    BY <1>4, OffersKeepSwitch DEF SkillType
  <2>2. SwitchKept'
    BY <1>4, OffersKeepSwitch DEF SwitchKept
  <2>3. UsesKept
    BY <1>4, OffersKeepSwitch DEF UsesKept
  <2>. QED BY <2>1, <2>2, <2>3
<1>5. ASSUME UNCHANGED <<library, switchedOff>>, hour' \in Nat
      PROVE  SkillInv' /\ UsesKept
  <2>1. SkillType' /\ SwitchKept' /\ InLibrary' = InLibrary
    BY <1>5 DEF SkillType, SwitchKept, InLibrary
  <2>2. \A j \in InLibrary : library[j].uses \in Nat
    BY RowsAreRows DEF Rows
  <2>. QED BY <1>5, <2>1, <2>2 DEF UsesKept
<1>6. CASE RefreshMenu
  <2>1. CASE \E k \in Suggestions(Cooldown) : Suggested(k, 0) /\ offered' = k
    <3>1. PICK k \in Suggestions(Cooldown) : Suggested(k, 0) /\ offered' = k
      BY <2>1
    <3>2. k \in InLibrary /\ k \notin switchedOff
      BY SuggestionsAreOn
    <3>3. SkillInv' /\ UsesKept
      BY <1>4, <1>6, <3>1, <3>2 DEF RefreshMenu
    <3>. QED BY <1>6, <3>1, <3>2, <3>3 DEF RefreshMenu
  <2>2. CASE NoSuggestion(Cooldown) /\ offered' = NoSkill /\ UNCHANGED library
    <3>1. SkillInv' /\ UsesKept
      BY <1>5, <1>6, <2>2 DEF RefreshMenu, SkillType
    <3>. QED BY <1>0, <1>6, <2>2, <3>1 DEF RefreshMenu
  <2>. QED BY <1>6, <2>1, <2>2 DEF RefreshMenu
<1>7. CASE ControlSuggests
  <2>1. PICK k \in Suggestions(Cooldown) : Suggested(k, 0)
    BY <1>7 DEF ControlSuggests
  <2>2. k \in InLibrary
    BY SuggestionsAreOn
  <2>3. SkillInv' /\ UsesKept
    BY <1>4, <1>7, <2>1, <2>2 DEF ControlSuggests
  <2>. QED BY <1>7, <2>3 DEF ControlSuggests
<1>8. CASE ClickMenu
  <2>1. PICK k \in Suggestions(0), times \in {0, 1} : Suggested(k, times) /\ replayed' = k
    BY <1>8 DEF ClickMenu
  <2>2. k \in InLibrary /\ k \notin switchedOff
    BY SuggestionsAreOn
  <2>3. SkillInv' /\ UsesKept
    BY <1>4, <1>8, <2>1, <2>2 DEF ClickMenu
  <2>. QED BY <1>8, <2>1, <2>2, <2>3 DEF ClickMenu
<1>9. ASSUME NEW k \in Skills, ReplaySkill(k)
      PROVE  SkillInv' /\ UsesKept /\ UNCHANGED <<replayed, offered>>
  <2>. DEFINE row == [library[k] EXCEPT !.uses = @ + 1]
  <2>1. k \in InLibrary /\ library' = [library EXCEPT ![k] = row]
    BY <1>9 DEF ReplaySkill
  <2>2. row \in Rows /\ row.on = library[k].on /\ row.uses >= library[k].uses
    BY <2>1, RowsAreRows DEF Rows
  <2>3. row # NoSkill
    BY <2>2, SkillAssumption
  <2>. HIDE DEF row
  <2>4. SkillType'
    BY <1>9, <2>1, <2>2 DEF ReplaySkill, SkillType
  <2>5. \A j \in Skills : library'[j] = IF j = k THEN row ELSE library[j]
    BY <2>1 DEF SkillType
  <2>6. InLibrary' = InLibrary /\ switchedOff' = switchedOff
    BY <1>9, <2>1, <2>3, <2>5 DEF InLibrary, ReplaySkill
  <2>7. SwitchKept'
    BY <2>2, <2>5, <2>6, RowsAreRows DEF SwitchKept
  <2>8. UsesKept
    <3>1. \A j \in InLibrary : library[j].uses \in Nat
      BY RowsAreRows DEF Rows
    <3>. QED BY <2>2, <2>5, <3>1, RowsAreRows DEF UsesKept
  <2>. QED BY <1>9, <2>4, <2>7, <2>8 DEF ReplaySkill
<1>10. CASE SwitchApp \/ HourPasses
  <2>1. hour' \in Nat /\ UNCHANGED <<library, switchedOff, replayed, offered>>
    BY <1>10 DEF SwitchApp, HourPasses, SkillType
  <2>. QED BY <1>5, <2>1
<1>. QED BY <1>1, <1>2, <1>3, <1>6, <1>7, <1>8, <1>9, <1>10 DEF SkillNext

\* No promotion, offer or replay gives a skill back that the user switched off, or
\* forgets how often one was times, and the menu neither offers nor runs what is off.
THEOREM SwitchIsTheirs == SkillSpec => UserHasTheSwitch
<1>1. SkillInit => SkillInv
  <2>. SUFFICES ASSUME SkillInit PROVE SkillInv
    OBVIOUS
  <2>1. SkillType
    BY DEF SkillInit, SkillType
  <2>2. SwitchKept
    BY DEF SkillInit, SwitchKept, InLibrary
  <2>. QED BY <2>1, <2>2 DEF SkillInv
<1>2. SkillInv /\ [SkillNext]_skillVars => SkillInv'
  <2>1. CASE UNCHANGED skillVars
    BY <2>1 DEF skillVars, SkillInv, SkillType, SwitchKept, InLibrary
  <2>. QED BY <2>1, SkillSteps
<1>3. SkillInv /\ SkillInv' /\ [SkillNext]_skillVars
      => [/\ \A k \in InLibrary' : library'[k].on <=> k \notin switchedOff'
          /\ \A k \in InLibrary \cap InLibrary' : library'[k].uses >= library[k].uses
          /\ replayed' # replayed => replayed' \notin switchedOff
          /\ offered' # offered => offered' \notin switchedOff]_skillVars
  BY SkillSteps DEF SkillInv, SwitchKept, UsesKept
<1>. QED BY <1>1, <1>2, <1>3, PTL DEF SkillSpec, UserHasTheSwitch

-----------------------------------------------------------------------------
(* The selection assistant. *)

AnApp  == FrontApps \cup {NoApp}
ARun   == [by : Windows, over : AnApp, agent : BOOLEAN, at : {"running", "told", "ended", "aborted"}]
APage  == [over : AnApp, result : SUBSET Nat, streaming : BOOLEAN, req : Nat \cup {NoRun}]
AQuery == [epoch : Nat, app : FrontApps, at : {"query", "show", "hide"}]
AnEvent ==
  [kind : {"selection-changed", "composer-shown"}, of : FrontApps] \cup
  [kind : {"assistant-stream", "assistant-done"}, of : Nat]

AssistantType ==
  /\ queries \subseteq AQuery /\ mainQueue \in Seq(AnApp) /\ epoch \in Nat
  /\ page \in [Windows -> APage] /\ runs \in Seq(ARun)
  /\ events \in [Windows -> Seq(AnEvent)]
  /\ replies \subseteq [run : Nat, stored : BOOLEAN]
  /\ cancelled \subseteq DOMAIN runs

\* The run a page takes for its own is one it asked for and has not cancelled.
ReqsOwn ==
  \A w \in Windows : page[w].req # NoRun =>
    /\ page[w].req \in DOMAIN runs \ cancelled
    /\ runs[page[w].req].by = w

\* A number is told once, and before that no page can cancel the run.
ToldOnce ==
  \A r \in replies :
    /\ r.run \in DOMAIN runs \ cancelled
    /\ \A w \in Windows : page[w].req # r.run
    /\ \A q \in replies : q.run = r.run => q = r

AssistantInv == AssistantType /\ ReqsOwn /\ ToldOnce

LEMMA AssistantStarts == AssistantInit => AssistantInv
<1>. SUFFICES ASSUME AssistantInit PROVE AssistantInv
  OBVIOUS
<1>1. EmptyPage \in APage
  BY DEF EmptyPage, APage, AnApp
<1>2. AssistantType
  BY <1>1 DEF AssistantInit, AssistantType
<1>3. ReqsOwn /\ ToldOnce
  BY DEF AssistantInit, ReqsOwn, ToldOnce, EmptyPage
<1>. QED BY <1>2, <1>3 DEF AssistantInv

\* A page may forget its run, and what is newly cancelled is what a page forgets.
LEMMA Forgetting ==
  ASSUME AssistantInv,
         DOMAIN runs \subseteq DOMAIN runs',
         \A r \in DOMAIN runs : runs'[r].by = runs[r].by,
         replies' = replies,
         \A w \in Windows : page'[w].req \in {NoRun, page[w].req},
         \A r \in cancelled' \ cancelled :
           \E w \in Windows : page[w].req = r /\ page[w].req # NoRun /\ page'[w].req = NoRun
  PROVE  ReqsOwn' /\ ToldOnce'
<1>1. ASSUME NEW w \in Windows, page'[w].req # NoRun
      PROVE  page'[w].req \in DOMAIN runs' \ cancelled' /\ runs'[page'[w].req].by = w
  BY <1>1 DEF AssistantInv, ReqsOwn
<1>2. ASSUME NEW r \in replies
      PROVE  /\ r.run \in DOMAIN runs' \ cancelled'
             /\ \A w \in Windows : page'[w].req # r.run
    <2>1. r.run \in DOMAIN runs \ cancelled /\ \A w \in Windows : page[w].req # r.run
      BY DEF AssistantInv, ToldOnce
    <2>2. r.run # NoRun
      BY AssistantAssumption DEF AssistantInv, AssistantType
    <2>. QED BY <2>1, <2>2
<1>. QED BY <1>1, <1>2 DEF ReqsOwn, ToldOnce, AssistantInv

\* A run that is written in another field is still its window's.
LEMMA RunWritten ==
  ASSUME runs \in Seq(ARun), NEW r \in DOMAIN runs, NEW run \in ARun, run.by = runs[r].by,
         runs' = [runs EXCEPT ![r] = run]
  PROVE  /\ runs' \in Seq(ARun)
         /\ DOMAIN runs' = DOMAIN runs
         /\ \A q \in DOMAIN runs : runs'[q].by = runs[q].by
<1>1. DOMAIN runs = 1 .. Len(runs) /\ r \in 1 .. Len(runs)
  BY LenProperties
<1>2. runs' \in Seq(ARun) /\ Len(runs') = Len(runs)
  BY <1>1, ExceptSeq
<1>3. DOMAIN runs' = DOMAIN runs
  BY <1>1, <1>2, LenProperties
<1>. QED BY <1>2, <1>3

LEMMA TellingKeepsRuns ==
  ASSUME AssistantType, NEW r \in DOMAIN runs, NEW at \in {"told", "ended"},
         runs' = [runs EXCEPT ![r].at = at]
  PROVE  /\ runs' \in Seq(ARun) /\ DOMAIN runs' = DOMAIN runs
         /\ \A q \in DOMAIN runs : runs'[q].by = runs[q].by
<1>. DEFINE run == [runs[r] EXCEPT !.at = at]
<1>1. runs[r] \in ARun
  BY ElementOfSeq, LenProperties DEF AssistantType
<1>2. run \in ARun /\ run.by = runs[r].by
  BY <1>1 DEF ARun
<1>3. runs' = [runs EXCEPT ![r] = run]
  OBVIOUS
<1>. HIDE DEF run
<1>. QED BY <1>2, <1>3, RunWritten DEF AssistantType

\* An event to some of the windows.
LEMMA EventsTyped ==
  ASSUME AssistantType, NEW ws, NEW e \in AnEvent, Send(ws, e)
  PROVE  events' \in [Windows -> Seq(AnEvent)]
<1>1. \A w \in Windows : Append(events[w], e) \in Seq(AnEvent)
  BY AppendProperties DEF AssistantType
<1>. QED BY <1>1 DEF Send, AssistantType

\* What assistant_cancel does to the runs.
LEMMA CancelsItsOwn ==
  ASSUME AssistantInv, NEW w \in Windows, Cancels(w)
  PROVE  /\ runs' \in Seq(ARun) /\ DOMAIN runs' = DOMAIN runs
         /\ \A r \in DOMAIN runs : runs'[r].by = runs[r].by
         /\ cancelled' \subseteq DOMAIN runs'
         /\ \A r \in cancelled' \ cancelled : r = page[w].req /\ page[w].req # NoRun
<1>1. CASE page[w].req = NoRun
  BY <1>1 DEF Cancels, AssistantInv, AssistantType
<1>2. CASE page[w].req # NoRun
  <2>1. PICK r \in {page[w].req} :
          /\ cancelled' = cancelled \cup {r}
          /\ runs' = IF r \in tasks /\ ~runs[r].agent /\ runs[r].at # "ended"
                     THEN [runs EXCEPT ![r].at = "aborted"] ELSE runs
    BY <1>2 DEF Cancels
  <2>2. r \in DOMAIN runs
    BY <1>2 DEF AssistantInv, ReqsOwn
  <2>. DEFINE run == [runs[r] EXCEPT !.at = "aborted"]
  <2>3. runs[r] \in ARun
    BY <2>2, ElementOfSeq DEF AssistantInv, AssistantType
  <2>4. run \in ARun /\ run.by = runs[r].by
    BY <2>3 DEF ARun
  <2>5. runs' = runs \/ runs' = [runs EXCEPT ![r] = run]
    BY <2>1
  <2>. HIDE DEF run
  <2>6. /\ runs' \in Seq(ARun) /\ DOMAIN runs' = DOMAIN runs
        /\ \A q \in DOMAIN runs : runs'[q].by = runs[q].by
    <3>1. CASE runs' = [runs EXCEPT ![r] = run]
      BY <2>2, <2>4, <3>1, RunWritten DEF AssistantInv, AssistantType
    <3>2. CASE runs' = runs
      BY <3>2 DEF AssistantInv, AssistantType
    <3>. QED BY <2>5, <3>1, <3>2
  <2>. QED BY <1>2, <2>1, <2>2, <2>6 DEF AssistantInv, AssistantType
<1>. QED BY <1>1, <1>2

\* A page that is written in one field keeps its type and the others.
LEMMA PageTyped ==
  ASSUME AssistantType, NEW w \in Windows, NEW p \in APage, page' = [page EXCEPT ![w] = p]
  PROVE  /\ page' \in [Windows -> APage]
         /\ page'[w] = p /\ \A v \in Windows \ {w} : page'[v] = page[v]
  BY DEF AssistantType

NoNewAnswers == \A w \in Windows : page'[w].result \subseteq page[w].result

\* Nothing that these steps do concerns a run of a page.
LEMMA WindowSteps ==
  ASSUME AssistantInv, UNCHANGED <<page, runs, replies, cancelled>>,
         queries' \subseteq AQuery, mainQueue' \in Seq(AnApp), epoch' \in Nat,
         events' \in [Windows -> Seq(AnEvent)]
  PROVE  AssistantInv' /\ NoNewAnswers
<1>1. AssistantType'
  BY DEF AssistantInv, AssistantType
<1>2. ReqsOwn' /\ ToldOnce'
  BY Forgetting
<1>. QED BY <1>1, <1>2 DEF AssistantInv, NoNewAnswers

LEMMA HidingQueues ==
  ASSUME AssistantType, HidePopup PROVE mainQueue' \in Seq(AnApp)
  BY AppendProperties DEF AssistantType, HidePopup, AnApp

\* A page's window, its run forgotten or kept, with the cancelling that goes with it.
LEMMA PageForgets ==
  ASSUME AssistantInv, NEW w \in Windows, NEW p \in APage, page' = [page EXCEPT ![w] = p],
         \/ Cancels(w) /\ p.req = NoRun
         \/ UNCHANGED <<runs, cancelled>> /\ p.req \in {NoRun, page[w].req},
         UNCHANGED <<queries, epoch, replies>>,
         mainQueue' \in Seq(AnApp), events' \in [Windows -> Seq(AnEvent)]
  PROVE  AssistantInv'
<1>1. /\ runs' \in Seq(ARun) /\ DOMAIN runs' = DOMAIN runs
      /\ \A r \in DOMAIN runs : runs'[r].by = runs[r].by
      /\ cancelled' \subseteq DOMAIN runs'
      /\ \A r \in cancelled' \ cancelled : r = page[w].req /\ page[w].req # NoRun /\ p.req = NoRun
  BY CancelsItsOwn DEF AssistantInv, AssistantType
<1>2. /\ page' \in [Windows -> APage]
      /\ page'[w] = p /\ \A v \in Windows \ {w} : page'[v] = page[v]
  BY PageTyped DEF AssistantInv
<1>3. AssistantType'
  BY <1>1, <1>2 DEF AssistantInv, AssistantType
<1>4. \A v \in Windows : page'[v].req \in {NoRun, page[v].req}
  BY <1>2
<1>5. ReqsOwn' /\ ToldOnce'
  BY <1>1, <1>2, <1>4, Forgetting
<1>. QED BY <1>3, <1>5 DEF AssistantInv

LEMMA MouseSteps ==
  ASSUME AssistantInv,
         \/ \E anApp \in FrontApps : MouseUp(anApp) \/ ToggleComposer(anApp)
         \/ \E q \in queries : LooksAtEpoch(q) \/ ShowsPopup(q) \/ HidesPopup(q)
         \/ MainThreadRuns
  PROVE  AssistantInv' /\ NoNewAnswers
<1>. USE DEF KeepRuns
<1>0. AssistantType
  BY DEF AssistantInv
<1>1. ASSUME NEW anApp \in FrontApps, MouseUp(anApp)
      PROVE  AssistantInv' /\ NoNewAnswers
  <2>1. queries' \subseteq AQuery /\ epoch' \in Nat
    BY <1>0, <1>1 DEF MouseUp, AssistantType, AQuery
  <2>. QED BY <1>0, <1>1, <2>1, WindowSteps DEF MouseUp, AssistantType
<1>2. ASSUME NEW anApp \in FrontApps, ToggleComposer(anApp)
      PROVE  AssistantInv' /\ NoNewAnswers
  <2>1. [kind |-> "composer-shown", of |-> anApp] \in AnEvent
    BY DEF AnEvent
  <2>2. events' \in [Windows -> Seq(AnEvent)]
    BY <1>0, <1>2, <2>1, EventsTyped DEF ToggleComposer, AssistantType
  <2>. QED BY <1>0, <1>2, <2>2, WindowSteps DEF ToggleComposer, AssistantType
<1>3. ASSUME NEW q \in queries, LooksAtEpoch(q)
      PROVE  AssistantInv' /\ NoNewAnswers
  <2>1. \A at \in {"show", "hide"} : [q EXCEPT !.at = at] \in AQuery
    BY <1>0 DEF AssistantType, AQuery
  <2>2. queries' \subseteq AQuery
    BY <1>0, <1>3, <2>1 DEF LooksAtEpoch, AssistantType
  <2>. QED BY <1>0, <1>3, <2>2, WindowSteps DEF LooksAtEpoch, AssistantType
<1>4. ASSUME NEW q \in queries, ShowsPopup(q)
      PROVE  AssistantInv' /\ NoNewAnswers
  <2>1. q.app \in AnApp
    BY <1>0 DEF AssistantType, AQuery, AnApp
  <2>2. mainQueue' \in Seq(AnApp)
    BY <1>0, <1>4, <2>1, AppendProperties DEF ShowsPopup, AssistantType
  <2>3. queries' \subseteq AQuery
    BY <1>0, <1>4 DEF ShowsPopup, AssistantType
  <2>. QED BY <1>0, <1>4, <2>2, <2>3, WindowSteps DEF ShowsPopup, AssistantType
<1>5. ASSUME NEW q \in queries, HidesPopup(q)
      PROVE  AssistantInv' /\ NoNewAnswers
  <2>1. mainQueue' \in Seq(AnApp)
    BY <1>0, <1>5, HidingQueues DEF HidesPopup
  <2>2. queries' \subseteq AQuery
    BY <1>0, <1>5 DEF HidesPopup, AssistantType
  <2>. QED BY <1>0, <1>5, <2>1, <2>2, WindowSteps DEF HidesPopup, AssistantType
<1>6. CASE MainThreadRuns
  <2>1. Head(mainQueue) \in AnApp /\ mainQueue' \in Seq(AnApp)
    BY <1>0, <1>6, HeadTailProperties DEF MainThreadRuns, AssistantType
  <2>2. Head(mainQueue) # NoApp => [kind |-> "selection-changed", of |-> Head(mainQueue)] \in AnEvent
    BY <2>1 DEF AnEvent, AnApp
  <2>3. events' \in [Windows -> Seq(AnEvent)]
    BY <1>0, <1>6, <2>2, EventsTyped DEF MainThreadRuns, AssistantType
  <2>. QED BY <1>0, <1>6, <2>1, <2>3, WindowSteps DEF MainThreadRuns, AssistantType
<1>. QED BY <1>1, <1>2, <1>3, <1>4, <1>5, <1>6

LEMMA RunSteps ==
  ASSUME AssistantInv,
         \/ \E w \in Windows, agent \in BOOLEAN : Starts(w, agent)
         \/ \E r \in replies : Stores(r) \/ ReplyArrives(r)
         \/ \E r \in DOMAIN runs : Tells(r) \/ Ends(r)
  PROVE  AssistantInv' /\ NoNewAnswers
<1>0. AssistantType /\ DOMAIN runs = 1 .. Len(runs) /\ Len(runs) \in Nat
  BY LenProperties DEF AssistantInv, AssistantType
<1>1. ASSUME NEW w \in Windows, NEW agent \in BOOLEAN, Starts(w, agent)
      PROVE  AssistantInv' /\ NoNewAnswers
  <2>. DEFINE run == [by |-> w, over |-> page[w].over, agent |-> agent, at |-> "running"]
              p   == [page[w] EXCEPT !.result = {}, !.streaming = TRUE]
  <2>1. page[w] \in APage
    BY <1>0 DEF AssistantType
  <2>2. p \in APage /\ p.req = page[w].req /\ p.result = {} /\ page' = [page EXCEPT ![w] = p]
    BY <1>1, <2>1 DEF APage, Starts
  <2>3. run \in ARun /\ runs' = Append(runs, run) /\ run.by = w
    BY <1>1, <2>1 DEF ARun, APage, Starts
  <2>. HIDE DEF run, p
  <2>4. /\ page' \in [Windows -> APage]
        /\ page'[w] = p /\ \A v \in Windows \ {w} : page'[v] = page[v]
    BY <1>0, <2>2, PageTyped
  <2>5. /\ runs' \in Seq(ARun) /\ Len(runs') = Len(runs) + 1
        /\ \A r \in 1 .. Len(runs) : runs'[r] = runs[r]
    BY <2>3, <1>0, AppendProperties DEF AssistantType
  <2>6. DOMAIN runs' = 1 .. Len(runs) + 1
    BY <2>5, LenProperties
  <2>. DEFINE new == [run |-> Len(runs) + 1, stored |-> FALSE]
  <2>7. replies' = replies \cup {new} /\ new.run = Len(runs) + 1 /\ new \in [run : Nat, stored : BOOLEAN]
    BY <1>0, <1>1 DEF Starts
  <2>. HIDE DEF new
  <2>8. AssistantType'
    <3>1. cancelled' \subseteq DOMAIN runs'
      BY <1>0, <1>1, <2>6 DEF Starts, AssistantType
    <3>2. replies' \subseteq [run : Nat, stored : BOOLEAN]
      BY <1>0, <2>7 DEF AssistantType
    <3>. QED BY <1>0, <1>1, <2>4, <2>5, <3>1, <3>2 DEF Starts, AssistantType
  <2>9. ReqsOwn'
    BY <1>0, <1>1, <2>2, <2>4, <2>5, <2>6 DEF Starts, AssistantInv, ReqsOwn
  <2>10. \A v \in Windows : page'[v].req = page[v].req
    BY <2>2, <2>4
  <2>11. ToldOnce'
    <3>1. \A v \in Windows : page[v].req # Len(runs) + 1
      BY <1>0, AssistantAssumption DEF AssistantInv, ReqsOwn
    <3>2. Len(runs) + 1 \notin cancelled /\ \A r \in replies : r.run # Len(runs) + 1
      BY <1>0 DEF AssistantInv, AssistantType, ToldOnce
    <3>3. cancelled' = cancelled
      BY <1>1 DEF Starts
    <3>. QED BY <1>0, <2>6, <2>7, <2>10, <3>1, <3>2, <3>3 DEF AssistantInv, ToldOnce
  <2>12. NoNewAnswers
    BY <2>2, <2>4 DEF NoNewAnswers
  <2>. QED BY <2>8, <2>9, <2>11, <2>12 DEF AssistantInv
<1>2. ASSUME NEW r \in replies, Stores(r)
      PROVE  AssistantInv' /\ NoNewAnswers
  <2>. DEFINE new == [r EXCEPT !.stored = TRUE]
  <2>1. r \in [run : Nat, stored : BOOLEAN]
    BY <1>0 DEF AssistantType
  <2>2. new \in [run : Nat, stored : BOOLEAN] /\ new.run = r.run
    BY <2>1
  <2>3. replies' = (replies \ {r}) \cup {new}
    BY <1>2 DEF Stores
  <2>. HIDE DEF new
  <2>4. AssistantType'
    BY <1>0, <1>2, <2>2, <2>3 DEF Stores, AssistantType
  <2>5. ReqsOwn'
    BY <1>2 DEF Stores, AssistantInv, ReqsOwn
  <2>6. ToldOnce'
    BY <1>2, <2>2, <2>3 DEF Stores, AssistantInv, ToldOnce
  <2>. QED BY <1>2, <2>4, <2>5, <2>6 DEF Stores, AssistantInv, NoNewAnswers
<1>3. ASSUME NEW r \in replies, ReplyArrives(r)
      PROVE  AssistantInv' /\ NoNewAnswers
  <2>. DEFINE w == runs[r.run].by
  <2>1. r.run \in DOMAIN runs \ cancelled /\ r.run \in Nat
    BY <1>0 DEF AssistantInv, ToldOnce, AssistantType
  <2>2. PICK v \in Windows : v = w
    <3>1. runs[r.run] \in ARun
      BY <1>0, <2>1, ElementOfSeq DEF AssistantType
    <3>. QED BY <3>1 DEF ARun
  <2>. DEFINE p == [page[v] EXCEPT !.req = r.run]
  <2>3. page' = [page EXCEPT ![v] = p]
    BY <1>3, <2>2 DEF ReplyArrives
  <2>4. p \in APage /\ p.req = r.run /\ p.result = page[v].result
    BY <1>0, <2>1 DEF AssistantType, APage
  <2>. HIDE DEF p
  <2>5. /\ page' \in [Windows -> APage]
        /\ page'[v] = p /\ \A u \in Windows \ {v} : page'[u] = page[u]
    BY <1>0, <2>3, <2>4, PageTyped
  <2>6. AssistantType'
    BY <1>0, <1>3, <2>5 DEF ReplyArrives, AssistantType
  <2>7. ReqsOwn'
    BY <1>3, <2>1, <2>2, <2>4, <2>5 DEF ReplyArrives, AssistantInv, ReqsOwn
  <2>8. ToldOnce'
    <3>1. replies' = replies \ {r} /\ UNCHANGED <<runs, cancelled>>
      BY <1>3 DEF ReplyArrives
    <3>2. ASSUME NEW q \in replies'
          PROVE  q.run # r.run /\ q.run \in DOMAIN runs \ cancelled /\ \A u \in Windows : page[u].req # q.run
      BY <3>1 DEF AssistantInv, ToldOnce
    <3>3. \A q \in replies' : \A u \in Windows : page'[u].req # q.run
      BY <2>2, <2>4, <2>5, <3>2
    <3>. QED BY <3>1, <3>2, <3>3 DEF AssistantInv, ToldOnce
  <2>9. NoNewAnswers
    BY <2>4, <2>5 DEF NoNewAnswers
  <2>. QED BY <2>6, <2>7, <2>8, <2>9 DEF AssistantInv
<1>4. ASSUME NEW r \in DOMAIN runs, Tells(r) \/ Ends(r)
      PROVE  AssistantInv' /\ NoNewAnswers
  <2>1. /\ runs' \in Seq(ARun) /\ DOMAIN runs' = DOMAIN runs
        /\ \A q \in DOMAIN runs : runs'[q].by = runs[q].by
    BY <1>0, <1>4, TellingKeepsRuns DEF Tells, Ends
  <2>2. \A kind \in {"assistant-stream", "assistant-done"} : [kind |-> kind, of |-> r] \in AnEvent
    BY <1>0 DEF AnEvent
  <2>3. events' \in [Windows -> Seq(AnEvent)]
    BY <1>0, <1>4, <2>2, EventsTyped DEF Tells, Ends
  <2>4. UNCHANGED <<epoch, queries, mainQueue, page, replies, cancelled>>
    BY <1>4 DEF Tells, Ends
  <2>5. AssistantType'
    BY <1>0, <2>1, <2>3, <2>4 DEF AssistantType
  <2>6. ReqsOwn' /\ ToldOnce'
    BY <2>1, <2>4, Forgetting
  <2>. QED BY <2>4, <2>5, <2>6 DEF AssistantInv, NoNewAnswers
<1>. QED BY <1>1, <1>2, <1>3, <1>4

\* What a page has of answers comes from its own run, which it has not cancelled.
OwnAnswers ==
  \A w \in Windows : \A r \in page'[w].result \ page[w].result :
    runs[r].by = w /\ r \notin cancelled

LEMMA PageSteps ==
  ASSUME AssistantInv, NEW w \in Windows, PageHears(w) \/ Stops(w) \/ Closes(w) \/ Injects(w)
  PROVE  AssistantInv' /\ OwnAnswers
<1>0. AssistantType /\ page[w] \in APage
  BY DEF AssistantInv, AssistantType
<1>1. CASE PageHears(w)
  <2>1. /\ UNCHANGED <<queries, epoch, replies, mainQueue>>
        /\ events' = [events EXCEPT ![w] = Tail(@)]
    BY <1>1 DEF PageHears
  <2>2. events[w] # <<>>
    BY <1>1 DEF PageHears, Hears, HearsEnd, HearsShown
  <2>3. Head(events[w]) \in AnEvent /\ Tail(events[w]) \in Seq(AnEvent)
    BY <1>0, <2>2, HeadTailProperties DEF AssistantType
  <2>4. events' \in [Windows -> Seq(AnEvent)] /\ mainQueue' \in Seq(AnApp)
    BY <1>0, <2>1, <2>3 DEF AssistantType
  <2>5. CASE Hears(w)
    <3>. DEFINE r == Head(events[w]).of
                p == [page[w] EXCEPT !.result = @ \cup {r}]
    <3>1. CASE r = page[w].req
      <4>1. r \in Nat
        BY <2>3, <2>5 DEF Hears, AnEvent
      <4>2. page[w].req # NoRun
        BY <3>1, <4>1, AssistantAssumption
      <4>3. p \in APage /\ p.req = page[w].req /\ p.result = page[w].result \cup {r}
        BY <1>0, <4>1 DEF APage
      <4>4. page' = [page EXCEPT ![w] = p] /\ UNCHANGED <<runs, cancelled>>
        BY <2>5, <3>1 DEF Hears
      <4>5. PICK q : q = r
        OBVIOUS
      <4>6. PICK new : new = p
        OBVIOUS
      <4>7. AssistantInv'
        BY <2>1, <2>4, <4>3, <4>4, <4>6, PageForgets
      <4>8. /\ page'[w] = new /\ \A v \in Windows \ {w} : page'[v] = page[v]
        BY <1>0, <4>3, <4>4, <4>6, PageTyped
      <4>9. runs[q].by = w /\ q \notin cancelled
        BY <3>1, <4>2, <4>5 DEF AssistantInv, ReqsOwn
      <4>10. new.result = page[w].result \cup {q}
        BY <4>3, <4>5, <4>6
      <4>. QED BY <4>7, <4>8, <4>9, <4>10 DEF OwnAnswers
    <3>2. CASE r # page[w].req
      <4>1. UNCHANGED <<page, runs, cancelled>>
        BY <2>5, <3>2 DEF Hears
      <4>. QED BY <1>0, <2>1, <2>4, <4>1, WindowSteps DEF AssistantType, OwnAnswers
    <3>. QED BY <3>1, <3>2
  <2>6. CASE HearsEnd(w)
    <3>. DEFINE p == [page[w] EXCEPT !.req = NoRun, !.streaming = FALSE]
    <3>1. p \in APage /\ p.req = NoRun /\ p.result = page[w].result
      BY <1>0 DEF APage
    <3>2. UNCHANGED <<runs, cancelled>> /\ (page' = page \/ page' = [page EXCEPT ![w] = p])
      BY <2>6 DEF HearsEnd
    <3>3. PICK new : new = p
      OBVIOUS
    <3>. HIDE DEF p
    <3>4. CASE page' = page
      BY <1>0, <2>1, <2>4, <3>2, <3>4, WindowSteps DEF AssistantType, OwnAnswers
    <3>5. CASE page' = [page EXCEPT ![w] = p]
      <4>1. AssistantInv'
        BY <2>1, <2>4, <3>1, <3>2, <3>3, <3>5, PageForgets
      <4>2. page'[w] = new /\ \A v \in Windows \ {w} : page'[v] = page[v]
        BY <1>0, <3>1, <3>3, <3>5, PageTyped
      <4>. QED BY <3>1, <3>3, <4>1, <4>2 DEF OwnAnswers
    <3>. QED BY <3>2, <3>4, <3>5
  <2>7. CASE HearsShown(w)
    <3>. DEFINE p == [EmptyPage EXCEPT !.over = Head(events[w]).of,
                                       !.req = IF w = "popup" THEN NoRun ELSE page[w].req]
    <3>1. Head(events[w]).of \in AnApp
      BY <2>3, <2>7 DEF HearsShown, AnEvent, AnApp
    <3>2. p \in APage /\ p.req = (IF w = "popup" THEN NoRun ELSE page[w].req) /\ p.result = {}
      BY <1>0, <3>1 DEF APage, EmptyPage
    <3>3. page' = [page EXCEPT ![w] = p]
      BY <2>7 DEF HearsShown
    <3>4. IF w = "popup" THEN Cancels(w) ELSE UNCHANGED <<runs, cancelled>>
      BY <2>7 DEF HearsShown
    <3>5. PICK new : new = p
      OBVIOUS
    <3>. HIDE DEF p
    <3>6. AssistantInv'
      BY <2>1, <2>4, <3>2, <3>3, <3>4, <3>5, PageForgets
    <3>7. page'[w] = new /\ \A v \in Windows \ {w} : page'[v] = page[v]
      BY <1>0, <3>2, <3>3, <3>5, PageTyped
    <3>. QED BY <3>2, <3>5, <3>6, <3>7 DEF OwnAnswers
  <2>. QED BY <1>1, <2>5, <2>6, <2>7 DEF PageHears
<1>2. CASE Stops(w)
  <2>. DEFINE p == [page[w] EXCEPT !.req = NoRun, !.streaming = FALSE]
  <2>1. p \in APage /\ p.req = NoRun /\ p.result = page[w].result
    BY <1>0 DEF APage
  <2>2. page' = [page EXCEPT ![w] = p] /\ Cancels(w)
    BY <1>2 DEF Stops
  <2>3. PICK new : new = p
    OBVIOUS
  <2>. HIDE DEF p
  <2>4. AssistantInv'
    BY <1>0, <1>2, <2>1, <2>2, <2>3, PageForgets DEF Stops, AssistantType
  <2>5. page'[w] = new /\ \A v \in Windows \ {w} : page'[v] = page[v]
    BY <1>0, <2>1, <2>2, <2>3, PageTyped
  <2>. QED BY <2>1, <2>3, <2>4, <2>5 DEF OwnAnswers
<1>3. CASE Closes(w)
  <2>. DEFINE p == [page[w] EXCEPT !.req = NoRun]
  <2>1. p \in APage /\ p.req = NoRun /\ p.result = page[w].result
    BY <1>0 DEF APage
  <2>2. page' = [page EXCEPT ![w] = p] /\ Cancels(w)
    BY <1>3 DEF Closes
  <2>3. PICK new : new = p
    OBVIOUS
  <2>4. mainQueue' \in Seq(AnApp)
    BY <1>0, <1>3, HidingQueues DEF Closes, AssistantType
  <2>. HIDE DEF p
  <2>5. AssistantInv'
    BY <1>0, <1>3, <2>1, <2>2, <2>3, <2>4, PageForgets DEF Closes, AssistantType
  <2>6. page'[w] = new /\ \A v \in Windows \ {w} : page'[v] = page[v]
    BY <1>0, <2>1, <2>2, <2>3, PageTyped
  <2>. QED BY <2>1, <2>3, <2>5, <2>6 DEF OwnAnswers
<1>4. CASE Injects(w)
  <2>1. mainQueue' \in Seq(AnApp)
    BY <1>0, <1>4, HidingQueues DEF Injects
  <2>. QED BY <1>0, <1>4, <2>1, WindowSteps DEF Injects, AssistantType, OwnAnswers
<1>. QED BY <1>1, <1>2, <1>3, <1>4

\* A page shows nothing of a run it did not ask for or has cancelled, however the
\* numbers of the runs, their events and the cancellations overtake each other.
THEOREM AnswersAreTheirs == AssistantSpec => OwnAnswersOnly
<1>1. AssistantInit => AssistantInv
  BY AssistantStarts
<1>2. AssistantInv /\ [AssistantNext]_assistantVars => AssistantInv' /\ (OwnAnswers \/ UNCHANGED assistantVars)
  <2>1. CASE UNCHANGED assistantVars
    BY <2>1, WindowSteps DEF assistantVars, AssistantInv, AssistantType
  <2>2. NoNewAnswers => OwnAnswers
    BY DEF NoNewAnswers, OwnAnswers
  <2>. QED BY <2>1, <2>2, MouseSteps, RunSteps, PageSteps DEF AssistantNext
<1>3. AssistantInv /\ [AssistantNext]_assistantVars =>
        [\A w \in Windows : \A r \in page'[w].result \ page[w].result :
           runs[r].by = w /\ r \notin cancelled]_assistantVars
  BY <1>2 DEF OwnAnswers
<1>. QED BY <1>1, <1>2, <1>3, PTL DEF AssistantSpec, OwnAnswersOnly

-----------------------------------------------------------------------------
(* The shell and its daemon. *)

ADaemon == Daemons \cup {NoDaemon}
States  == {"none", "booting", "locking", "running", "serving", "elsewhere", "dead"}
Places  == {"idle", "paused?", "probing socket", "acquiring", "running?", "loading", "filling", "spawn",
            "spawned", "up", "failed", "flag", "kill", "awaiting"}
ATask   == [pc : Places, cfg : {"yes", "no"}, then : {"spawn", "flag"}]

ShellType ==
  /\ daemon \in [Daemons -> States] /\ seen \in [Daemons -> BOOLEAN]
  /\ child \in ADaemon /\ file \in {"yes", "no", "torn"}
  /\ used \in Nat /\ crashed \in Nat
  /\ task \in [Tasks -> ATask]
  /\ done => In("ui", "idle")
  /\ app = "down" => command = "none"

\* Each task keeps to its own places.
OwnPlaces ==
  /\ \A t \in Autos : task[t].then = "spawn" /\ task[t].pc \notin {"flag", "kill", "awaiting"}
  /\ task["ui"].pc \notin Watching \ {"idle"} /\ task[S].pc \notin {"paused?", "acquiring"}

\* While a command that nothing overlaps runs, the others only look.
OthersWatch ==
  clean /\ ~In("ui", "idle") => \A t \in Autos : task[t].pc \in Watching

NoneAlive == \A d \in Daemons : ~Alive(d)

\* How far a stop is.
StopProgress ==
  command = "stop" /\ clean =>
    /\ task["ui"].pc \in {"flag", "kill", "idle"}
    /\ ~In("ui", "idle") => Foreign = {}
    /\ ~In("ui", "flag") => stopping /\ In(S, "idle") /\ In(M, "idle")
    /\ In("ui", "idle") => NoneAlive

Setting == IF command = "pause" THEN "yes" ELSE "no"

\* No daemon works with another setting.
Settled ==
  \A d \in Daemons : daemon[d] \in {"locking", "running", "serving"} => seen[d] = (command = "pause")

\* The two halves of a reload: the setting is written and the old daemon stopped, a
\* new one is started.
First  == task["ui"].then = "flag" /\ task["ui"].pc \in {"loading", "filling", "flag", "kill"}
Second ==
  /\ task["ui"].then = "spawn"
  /\ task["ui"].pc \in {"running?", "loading", "filling", "spawn", "spawned", "up", "awaiting"}

\* Before the flag of a reload is set the daemon is the shell's own, then there is
\* none, and the one that is started has the new setting.
ReloadProgress ==
  Reload /\ clean =>
    /\ First \/ Second \/ task["ui"].pc \in {"idle", "failed"}
    /\ First => Foreign = {}
    /\ Second /\ task["ui"].pc \in {"running?", "loading", "filling", "spawn"} => NoneAlive
    /\ (Second /\ task["ui"].pc \in {"spawned", "up", "awaiting"}) \/ done => Settled

\* What the file says, and what whoever is writing it will write.
FileProgress ==
  Reload /\ clean =>
    /\ In("ui", "filling") => task["ui"].cfg = Setting
    /\ (First /\ task["ui"].pc \in {"flag", "kill"}) \/ (Second /\ ~In("ui", "filling"))
         => file = Setting
    /\ done => /\ file \in {Setting, "torn"}
               /\ \A t \in Autos : In(t, "filling") => task[t].cfg = Setting
               /\ command = "pause" => /\ paused /\ task[M].pc \in {"idle", "paused?"}
                                       /\ file = "torn" => In(S, "filling")

\* A reload keeps the flag, and those who look at it away; a pause is not seen unset.
FlagKept ==
  Reloading /\ clean =>
    /\ stopping /\ \A t \in Autos : In(t, "idle") \/ t \in early
    /\ command = "pause" => paused /\ task[M].pc \in {"idle", "paused?"}

ShellInv ==
  /\ ShellType /\ OwnPlaces /\ OthersWatch /\ StopProgress
  /\ ReloadProgress /\ FileProgress /\ FlagKept

LEMMA TaskWritten ==
  ASSUME ShellType, NEW t \in Tasks, NEW pc \in Places, NEW cfg \in {"yes", "no"},
         task' = [task EXCEPT ![t].pc = pc, ![t].cfg = cfg]
  PROVE  /\ task' \in [Tasks -> ATask]
         /\ task'[t].pc = pc /\ task'[t].cfg = cfg /\ task'[t].then = task[t].then
         /\ \A u \in Tasks \ {t} : task'[u] = task[u]
<1>. DEFINE row == [task[t] EXCEPT !.pc = pc, !.cfg = cfg]
<1>1. task[t] \in ATask
  BY DEF ShellType
<1>2. row \in ATask /\ row.pc = pc /\ row.cfg = cfg /\ row.then = task[t].then
  BY <1>1 DEF ATask
<1>3. task' = [task EXCEPT ![t] = row]
  OBVIOUS
<1>. HIDE DEF row
<1>. QED BY <1>2, <1>3 DEF ShellType

LEMMA IdleWith ==
  ASSUME NEW pc \in Places
  PROVE  /\ [Idle EXCEPT !.pc = pc] \in ATask
         /\ [Idle EXCEPT !.pc = pc].pc = pc /\ [Idle EXCEPT !.pc = pc].then = "spawn"
  BY DEF ATask, Idle

CommandRow(c) ==
  CASE c = "start" -> [Idle EXCEPT !.pc = "running?"]
    [] c = "stop"  -> [Idle EXCEPT !.pc = "flag"]
    [] OTHER       -> [Idle EXCEPT !.pc = "loading", !.then = "flag"]

LEMMA RowOfCommand ==
  ASSUME NEW c \in {"start", "stop", "pause", "resume"}
  PROVE  /\ CommandRow(c) \in ATask
         /\ CommandRow(c).pc = (IF c = "start" THEN "running?" ELSE IF c = "stop" THEN "flag" ELSE "loading")
         /\ CommandRow(c).then = (IF c \in {"start", "stop"} THEN "spawn" ELSE "flag")
<1>1. CASE c = "start"
  BY <1>1, IdleWith DEF CommandRow, Places
<1>2. CASE c = "stop"
  BY <1>2, IdleWith DEF CommandRow, Places
<1>3. CASE c \in {"pause", "resume"}
  <2>1. CommandRow(c) = [pc |-> "loading", cfg |-> "no", then |-> "flag"]
    BY <1>3 DEF CommandRow, Idle
  <2>. QED BY <1>3, <2>1 DEF ATask, Places
<1>. QED BY <1>1, <1>2, <1>3

LEMMA TaskMoves ==
  ASSUME ShellType, NEW t \in Tasks, NEW pc \in Places, Goes(t, pc)
  PROVE  /\ task' \in [Tasks -> ATask]
         /\ task'[t].pc = pc /\ task'[t].cfg = task[t].cfg /\ task'[t].then = task[t].then
         /\ \A u \in Tasks \ {t} : task'[u] = task[u]
<1>. DEFINE row == [task[t] EXCEPT !.pc = pc]
<1>1. task[t] \in ATask
  BY DEF ShellType
<1>2. row \in ATask /\ row.pc = pc /\ row.cfg = task[t].cfg /\ row.then = task[t].then
  BY <1>1 DEF ATask
<1>3. task' = [task EXCEPT ![t] = row]
  BY DEF Goes
<1>. HIDE DEF row
<1>. QED BY <1>2, <1>3 DEF ShellType

\* What the file says and will say is not told otherwise by a step of an auto that does
\* not write it.
LEMMA FileLeftAlone ==
  ASSUME FileProgress, UNCHANGED <<file, command, done, paused>>, clean' => clean,
         task'["ui"] = task["ui"], In(S, "filling") => In(S, "filling")',
         \A u \in Autos : In(u, "filling")' => task'[u] = task[u],
         task[M].pc \in {"idle", "paused?"} => task'[M].pc \in {"idle", "paused?"}
  PROVE  FileProgress'
<1>. USE DEF In
<1>1. UNCHANGED <<First, Second, Setting, Reload>>
  BY DEF First, Second, Setting, Reload
<1>2. SUFFICES ASSUME Reload, clean'
      PROVE  /\ In("ui", "filling") => task["ui"].cfg = Setting
             /\ (First /\ task["ui"].pc \in {"flag", "kill"}) \/ (Second /\ ~In("ui", "filling"))
                  => file = Setting
             /\ done => /\ file \in {Setting, "torn"}
                        /\ \A u \in Autos : In(u, "filling")' => task'[u].cfg = Setting
                        /\ command = "pause" => /\ paused /\ task'[M].pc \in {"idle", "paused?"}
                                                /\ file = "torn" => In(S, "filling")'
  BY <1>1 DEF FileProgress
<1>3. \A u \in Autos : In(u, "filling")' => In(u, "filling") /\ task'[u].cfg = task[u].cfg
  OBVIOUS
<1>. QED BY <1>2, <1>3 DEF FileProgress

LEMMA FindsDaemonKeeps ==
  ASSUME ShellInv, NEW t \in Tasks, FindsDaemon(t)
  PROVE  ShellInv'
<1>. USE DEF ShellInv, In, Watching, Alive, Reaped, Foreign, Reload, Reloading, NoneAlive, Setting, Settled, First, Second, Autos, Tasks, S, M
<1>0. ShellType
  OBVIOUS
<1>1. PICK pc \in {"up", "awaiting", "idle", "loading"} :
        Goes(t, pc) /\ pc = IF Alive(child) \/ SocketAlive THEN Up(t) ELSE "loading"
  BY DEF FindsDaemon, Up
<1>2. /\ task' \in [Tasks -> ATask] /\ task'[t].pc = pc
      /\ task'[t].cfg = task[t].cfg /\ task'[t].then = task[t].then
      /\ \A u \in Tasks \ {t} : task'[u] = task[u]
  BY <1>0, <1>1, TaskMoves DEF Places
<1>3. t \in Autos /\ clean' => clean /\ In("ui", "idle") /\ command # "stop"
  BY <1>2 DEF Moves, FindsDaemon, OthersWatch, StopProgress
<1>4. NoneAlive => pc = "loading"
  BY <1>1, ObserveAssumption DEF ShellType, ADaemon, SocketAlive
<1>5. ShellType'
  BY <1>1, <1>2, <1>3, <1>4 DEF FindsDaemon, Up, Moves, ShellType, OwnPlaces, OthersWatch, States, ADaemon, daemons, sup, mon
<1>6. OwnPlaces'
  BY <1>1, <1>2, <1>3, <1>4 DEF FindsDaemon, Up, Moves, OwnPlaces, ShellType, OthersWatch, daemons, sup, mon
<1>7. OthersWatch'
  BY <1>1, <1>2, <1>3, <1>4 DEF FindsDaemon, Up, Moves, OthersWatch, OwnPlaces, ShellType, daemons, sup, mon
<1>8. StopProgress'
  BY <1>1, <1>2, <1>3, <1>4 DEF FindsDaemon, Up, Moves, StopProgress, OwnPlaces, ShellType, OthersWatch, daemons, sup, mon
<1>9. ReloadProgress'
  <2>1. CASE t = "ui"
    BY <1>1, <1>2, <1>3, <1>4, <2>1 DEF FindsDaemon, Up, Moves, ReloadProgress, OwnPlaces, ShellType, OthersWatch, daemons, sup, mon
  <2>2. CASE t \in Autos
    BY <1>1, <1>2, <1>3, <1>4, <2>2 DEF FindsDaemon, Up, Moves, ReloadProgress, OwnPlaces, ShellType, OthersWatch, daemons, sup, mon
  <2>. QED BY <2>1, <2>2
<1>10. FileProgress'
  <2>1. CASE t = "ui"
    BY <1>1, <1>2, <1>3, <1>4, <2>1 DEF FindsDaemon, Up, Moves, FileProgress, OwnPlaces, ShellType, OthersWatch, daemons, sup, mon
  <2>2. CASE t \in Autos
    <3>1. UNCHANGED <<file, command, done, paused>> /\ (clean' => clean) /\ In(t, "running?")
      BY DEF FindsDaemon, Moves
    <3>. QED BY <1>1, <1>2, <2>2, <3>1, FileLeftAlone
  <2>. QED BY <2>1, <2>2
<1>11. FlagKept'
  BY <1>1, <1>2, <1>3, <1>4 DEF FindsDaemon, Up, Moves, FlagKept, OwnPlaces, ShellType, OthersWatch, daemons, sup, mon
<1>. QED BY <1>5, <1>6, <1>7, <1>8, <1>9, <1>10, <1>11

LEMMA TruncatesKeeps ==
  ASSUME ShellInv, NEW t \in Tasks, Truncates(t)
  PROVE  ShellInv'
<1>0. ShellType
  BY DEF ShellInv
<1>1. PICK cfg \in {"yes", "no"} :
        /\ cfg = IF task[t].then = "flag" THEN (IF command = "pause" THEN "yes" ELSE "no")
                 ELSE IF file = "torn" THEN "no" ELSE file
        /\ task' = [task EXCEPT ![t].pc = "filling", ![t].cfg = cfg]
  BY <1>0 DEF ShellType, Truncates
<1>2. "filling" \in Places /\ task' = [task EXCEPT ![t].pc = "filling", ![t].cfg = cfg]
  BY <1>1 DEF Places
<1>3. /\ task' \in [Tasks -> ATask] /\ task'[t].pc = "filling"
      /\ task'[t].cfg = cfg /\ task'[t].then = task[t].then
      /\ \A u \in Tasks \ {t} : task'[u] = task[u]
  BY <1>0, <1>2, TaskWritten
<1>4. /\ In(t, "loading") /\ file' = "torn" /\ Moves(t)
      /\ UNCHANGED <<daemon, seen, child, stopping, paused, used, command, done, crashed, early, app>>
  BY DEF Truncates, daemons, sup
<1>. USE DEF ShellInv, In, Watching, Alive, Reaped, Foreign, Reload, Reloading, NoneAlive, Setting, Settled, First, Second, Autos, Tasks, S, M
<1>5. task[t].then \in {"spawn", "flag"} /\ (clean' => clean)
  BY <1>0, <1>4 DEF Moves, ShellType, ATask
<1>6. t \in Autos /\ clean' => In("ui", "idle") /\ command # "stop"
  BY <1>3, <1>4 DEF Moves, OthersWatch, StopProgress
<1>7. ShellType'
  BY <1>1, <1>2, <1>3, <1>4, <1>5, <1>6 DEF ShellType, OwnPlaces, OthersWatch, Places, States, ADaemon
<1>8. OwnPlaces'
  BY <1>1, <1>2, <1>3, <1>4, <1>5, <1>6 DEF OwnPlaces, ShellType, OthersWatch
<1>9. OthersWatch'
  BY <1>1, <1>2, <1>3, <1>4, <1>5, <1>6 DEF OthersWatch, OwnPlaces, ShellType
<1>10. StopProgress'
  BY <1>1, <1>2, <1>3, <1>4, <1>5, <1>6 DEF StopProgress, OwnPlaces, ShellType, OthersWatch
<1>11. ReloadProgress'
  <2>1. CASE t = "ui"
    BY <1>1, <1>2, <1>3, <1>4, <1>5, <1>6, <2>1 DEF ReloadProgress, OwnPlaces, ShellType, OthersWatch
  <2>2. CASE t \in Autos
    BY <1>1, <1>2, <1>3, <1>4, <1>5, <1>6, <2>2 DEF ReloadProgress, OwnPlaces, ShellType, OthersWatch
  <2>. QED BY <2>1, <2>2
<1>12. FileProgress'
  <2>1. CASE t = "ui"
    <3>1. Reload /\ clean => cfg = Setting
      BY <1>1, <1>4, <1>5, <2>1 DEF ReloadProgress, FileProgress
    <3>2. ~done' /\ In("ui", "filling")'
      BY <1>0, <1>3, <1>4, <2>1 DEF ShellType
    <3>. QED BY <1>3, <1>4, <1>5, <2>1, <3>1, <3>2 DEF FileProgress
  <2>2. CASE t \in Autos
    <3>. SUFFICES ASSUME Reload, clean'
          PROVE  /\ In("ui", "idle")'
                 /\ done => /\ \A u \in Autos : In(u, "filling")' => task'[u].cfg = Setting
                            /\ command = "pause" => /\ paused /\ task'[M].pc \in {"idle", "paused?"}
                                                    /\ In(S, "filling")'
      BY <1>4 DEF FileProgress
    <3>1. In("ui", "idle")' /\ clean
      BY <1>3, <1>5, <1>6, <2>2
    <3>2. ASSUME done
          PROVE  task[t].then = "spawn" /\ cfg = Setting /\ (command = "pause" => t = S)
      BY <1>1, <1>4, <2>2, <3>1, <3>2 DEF OwnPlaces, FileProgress
    <3>. QED BY <1>3, <1>4, <2>2, <3>1, <3>2 DEF FileProgress
  <2>. QED BY <2>1, <2>2
<1>13. FlagKept'
  <2>1. CASE t = "ui"
    BY <1>2, <1>3, <1>4, <1>5, <2>1 DEF FlagKept
  <2>2. CASE t \in Autos
    <3>1. clean' => In("ui", "idle")'
      BY <1>3, <1>6, <2>2
    <3>. QED BY <3>1 DEF FlagKept
  <2>. QED BY <2>1, <2>2
<1>. QED BY <1>7, <1>8, <1>9, <1>10, <1>11, <1>12, <1>13

LEMMA FillsKeeps ==
  ASSUME ShellInv, NEW t \in Tasks, Fills(t)
  PROVE  ShellInv'
<1>. USE DEF ShellInv, In, Watching, Alive, Reaped, Foreign, Reload, Reloading, NoneAlive, Setting, Settled, First, Second, Autos, Tasks, S, M
<1>0. ShellType
  OBVIOUS
<1>1. /\ In(t, "filling") /\ file' = task[t].cfg /\ Moves(t)
      /\ UNCHANGED <<daemon, seen, child, stopping, paused, used, command, done, crashed, early, app>>
  BY DEF Fills, daemons, sup
<1>2. task[t].then \in {"spawn", "flag"} /\ task[t].cfg \in {"yes", "no"}
  BY <1>0 DEF ShellType, ATask
<1>3. /\ task' \in [Tasks -> ATask] /\ task'[t].pc = task[t].then
      /\ task'[t].cfg = "no" /\ task'[t].then = task[t].then
      /\ \A u \in Tasks \ {t} : task'[u] = task[u]
  BY <1>0, <1>2, TaskWritten DEF Places, Fills
<1>4. clean' => clean
  BY <1>1 DEF Moves
<1>5. t \in Autos /\ clean' => In("ui", "idle") /\ command # "stop"
  BY <1>1, <1>2, <1>3 DEF Moves, OthersWatch, StopProgress
<1>6. ShellType'
  BY <1>1, <1>2, <1>3, <1>4, <1>5 DEF ShellType, OwnPlaces, OthersWatch, States, ADaemon
<1>7. OwnPlaces'
  BY <1>1, <1>2, <1>3, <1>4, <1>5 DEF OwnPlaces, ShellType, OthersWatch
<1>8. OthersWatch'
  BY <1>1, <1>2, <1>3, <1>4, <1>5 DEF OthersWatch, OwnPlaces, ShellType
<1>9. StopProgress'
  BY <1>1, <1>2, <1>3, <1>4, <1>5 DEF StopProgress, OwnPlaces, ShellType, OthersWatch
<1>10. ReloadProgress'
  <2>1. CASE t = "ui"
    BY <1>1, <1>2, <1>3, <1>4, <1>5, <2>1 DEF ReloadProgress, OwnPlaces, ShellType, OthersWatch
  <2>2. CASE t \in Autos
    BY <1>1, <1>2, <1>3, <1>4, <1>5, <2>2 DEF ReloadProgress, OwnPlaces, ShellType, OthersWatch
  <2>. QED BY <2>1, <2>2
<1>11. FileProgress'
  <2>1. CASE t = "ui"
    BY <1>1, <1>2, <1>3, <1>4, <1>5, <2>1 DEF FileProgress, OwnPlaces, ShellType, OthersWatch
  <2>2. CASE t \in Autos
    BY <1>1, <1>2, <1>3, <1>4, <1>5, <2>2 DEF FileProgress, OwnPlaces, ShellType, OthersWatch
  <2>. QED BY <2>1, <2>2
<1>12. FlagKept'
  BY <1>1, <1>2, <1>3, <1>4, <1>5 DEF FlagKept, OwnPlaces, ShellType, OthersWatch
<1>. QED BY <1>6, <1>7, <1>8, <1>9, <1>10, <1>11, <1>12

LEMMA SpawnsDaemonKeeps ==
  ASSUME ShellInv, NEW t \in Tasks, NEW d \in Daemons, SpawnsDaemon(t, d)
  PROVE  ShellInv'
<1>. USE DEF ShellInv, In, Watching, Alive, Reaped, Foreign, Reload, Reloading, NoneAlive, Setting, Settled, First, Second, Autos, Tasks, S, M
<1>0. ShellType
  OBVIOUS
<1>1. /\ task' \in [Tasks -> ATask] /\ task'[t].pc = "spawned"
      /\ task'[t].cfg = task[t].cfg /\ task'[t].then = task[t].then
      /\ \A u \in Tasks \ {t} : task'[u] = task[u]
  BY <1>0, TaskMoves DEF SpawnsDaemon, Places
<1>2. t \in Autos /\ clean' => clean /\ In("ui", "idle") /\ command # "stop"
  BY <1>1 DEF Moves, SpawnsDaemon, OthersWatch, StopProgress
<1>3. \A e \in Daemons : daemon[e] \in {"locking", "running", "serving"} => Alive(e)
  BY ObserveAssumption
<1>4. Settled => Settled'
  BY DEF SpawnsDaemon, ShellType
<1>5. ShellType'
  BY <1>1, <1>2, <1>3, <1>4 DEF SpawnsDaemon, Moves, ShellType, OwnPlaces, OthersWatch, States, ADaemon, sup, mon
<1>6. OwnPlaces'
  BY <1>1, <1>2, <1>3, <1>4 DEF SpawnsDaemon, Moves, OwnPlaces, ShellType, OthersWatch, sup, mon
<1>7. OthersWatch'
  BY <1>1, <1>2, <1>3, <1>4 DEF SpawnsDaemon, Moves, OthersWatch, OwnPlaces, ShellType, sup, mon
<1>8. StopProgress'
  BY <1>1, <1>2, <1>3, <1>4 DEF SpawnsDaemon, Moves, StopProgress, OwnPlaces, ShellType, OthersWatch, sup, mon
<1>9. ReloadProgress'
  <2>1. CASE t = "ui"
    BY <1>1, <1>3, <2>1 DEF SpawnsDaemon, Moves, ReloadProgress, ShellType
  <2>2. CASE t \in Autos
    <3>1. task'["ui"] = task["ui"] /\ UNCHANGED <<command, done>>
      BY <1>1, <2>2 DEF SpawnsDaemon
    <3>2. clean' => ~First' /\ ~Second'
      BY <1>2, <2>2, <3>1
    <3>. QED BY <1>2, <1>4, <2>2, <3>1, <3>2 DEF ReloadProgress
  <2>. QED BY <2>1, <2>2
<1>10. FileProgress'
  <2>1. CASE t = "ui"
    BY <1>1, <1>3, <2>1 DEF SpawnsDaemon, Moves, FileProgress, ShellType
  <2>2. CASE t \in Autos
    <3>1. /\ task'["ui"] = task["ui"] /\ UNCHANGED <<command, done, file, paused>>
          /\ ~In(t, "filling")' /\ task[t].pc \notin {"filling", "idle", "paused?"}
          /\ \A u \in Autos \ {t} : task'[u] = task[u]
      BY <1>1, <2>2 DEF SpawnsDaemon
    <3>2. clean' => ~First' /\ ~Second'
      BY <1>2, <2>2, <3>1
    <3>. QED BY <1>2, <2>2, <3>1, <3>2 DEF FileProgress
  <2>. QED BY <2>1, <2>2
<1>11. FlagKept'
  BY <1>1, <1>2, <1>3, <1>4 DEF SpawnsDaemon, Moves, FlagKept, OwnPlaces, ShellType, OthersWatch, sup, mon
<1>. QED BY <1>5, <1>6, <1>7, <1>8, <1>9, <1>10, <1>11

LEMMA StartFailsKeeps ==
  ASSUME ShellInv, NEW t \in Tasks, StartFails(t)
  PROVE  ShellInv'
<1>. USE DEF ShellInv, In, Watching, Alive, Reaped, Foreign, Reload, Reloading, NoneAlive, Setting, Settled, First, Second, Autos, Tasks, S, M
<1>0. ShellType
  OBVIOUS
<1>1. /\ task' \in [Tasks -> ATask] /\ task'[t].pc = "failed"
      /\ task'[t].cfg = task[t].cfg /\ task'[t].then = task[t].then
      /\ \A u \in Tasks \ {t} : task'[u] = task[u]
  BY <1>0, TaskMoves DEF StartFails, Places
<1>2. ShellType'
  BY <1>1 DEF StartFails, Moves, ShellType, OwnPlaces, OthersWatch, States, ADaemon, daemons, sup, mon, Faulty, Faultless
<1>3. OwnPlaces'
  BY <1>1 DEF StartFails, Moves, OwnPlaces, ShellType, OthersWatch, daemons, sup, mon, Faulty, Faultless
<1>4. OthersWatch'
  BY <1>1 DEF StartFails, Moves, OthersWatch, OwnPlaces, ShellType, daemons, sup, mon, Faulty, Faultless
<1>5. StopProgress'
  BY <1>1 DEF StartFails, Moves, StopProgress, OwnPlaces, ShellType, OthersWatch, daemons, sup, mon, Faulty, Faultless
<1>6. ReloadProgress'
  BY <1>1 DEF StartFails, Moves, ReloadProgress, OwnPlaces, ShellType, OthersWatch, daemons, sup, mon, Faulty, Faultless
<1>7. FileProgress'
  BY <1>1 DEF StartFails, Moves, FileProgress, OwnPlaces, ShellType, OthersWatch, daemons, sup, mon, Faulty, Faultless
<1>8. FlagKept'
  BY <1>1 DEF StartFails, Moves, FlagKept, OwnPlaces, ShellType, OthersWatch, daemons, sup, mon, Faulty, Faultless
<1>. QED BY <1>2, <1>3, <1>4, <1>5, <1>6, <1>7, <1>8

LEMMA ClearsFlagKeeps ==
  ASSUME ShellInv, NEW t \in Tasks, ClearsFlag(t)
  PROVE  ShellInv'
<1>. USE DEF ShellInv, In, Watching, Alive, Reaped, Foreign, Reload, Reloading, NoneAlive, Setting, Settled, First, Second, Autos, Tasks, S, M
<1>0. ShellType
  OBVIOUS
<1>1. Up(t) \in {"up", "awaiting", "idle"} /\ Goes(t, Up(t))
  BY DEF ClearsFlag, Up
<1>2. /\ task' \in [Tasks -> ATask] /\ task'[t].pc = Up(t)
      /\ task'[t].cfg = task[t].cfg /\ task'[t].then = task[t].then
      /\ \A u \in Tasks \ {t} : task'[u] = task[u]
  BY <1>0, <1>1, TaskMoves DEF Places
<1>3. ShellType'
  BY <1>1, <1>2 DEF ClearsFlag, Up, Moves, ShellType, OwnPlaces, OthersWatch, States, ADaemon, daemons, sup, mon
<1>4. OwnPlaces'
  BY <1>1, <1>2 DEF ClearsFlag, Up, Moves, OwnPlaces, ShellType, OthersWatch, daemons, sup, mon
<1>5. OthersWatch'
  BY <1>1, <1>2 DEF ClearsFlag, Up, Moves, OthersWatch, OwnPlaces, ShellType, daemons, sup, mon
<1>6. StopProgress'
  BY <1>1, <1>2 DEF ClearsFlag, Up, Moves, StopProgress, OwnPlaces, ShellType, OthersWatch, daemons, sup, mon
<1>7. ReloadProgress'
  BY <1>1, <1>2 DEF ClearsFlag, Up, Moves, ReloadProgress, OwnPlaces, ShellType, OthersWatch, daemons, sup, mon
<1>8. FileProgress'
  <2>1. UNCHANGED <<file, command, done, paused>> /\ (clean' => clean) /\ In(t, "spawned")
    BY DEF ClearsFlag, Moves
  <2>2. CASE t \in Autos
    BY <1>1, <1>2, <2>1, <2>2, FileLeftAlone DEF Up
  <2>3. CASE t = "ui"
    <3>1. ~done
      BY <2>1, <2>3 DEF ShellType
    <3>2. Reload => In("ui", "awaiting")'
      BY <1>1, <1>2, <2>3 DEF Up
    <3>3. Reload /\ clean /\ task["ui"].then = "spawn" => file = Setting
      BY <2>1, <2>3 DEF FileProgress
    <3>4. ASSUME Reload, clean' PROVE (First => FALSE)' /\ ((Second)' => file = Setting)
      BY <1>2, <2>1, <2>3, <3>2, <3>3, <3>4
    <3>. QED BY <2>1, <3>1, <3>2, <3>4 DEF FileProgress
  <2>. QED BY <2>2, <2>3
<1>9. FlagKept'
  BY <1>1, <1>2 DEF ClearsFlag, Up, Moves, FlagKept, OwnPlaces, ShellType, OthersWatch, daemons, sup, mon
<1>. QED BY <1>3, <1>4, <1>5, <1>6, <1>7, <1>8, <1>9

LEMMA CommandsKeeps ==
  ASSUME ShellInv, NEW c \in {"start", "stop", "pause", "resume"}, Commands(c)
  PROVE  ShellInv'
<1>. USE DEF ShellInv, In, Watching, Alive, Reaped, Foreign, Reload, Reloading, NoneAlive, Setting, Settled, First, Second, Autos, Tasks, S, M
<1>0. ShellType
  OBVIOUS
<1>1. PICK row \in ATask : row = CommandRow(c)
  BY RowOfCommand
<1>2. /\ row.pc = (IF c = "start" THEN "running?" ELSE IF c = "stop" THEN "flag" ELSE "loading")
      /\ row.then = (IF c \in {"start", "stop"} THEN "spawn" ELSE "flag")
      /\ task' = [task EXCEPT !["ui"] = row]
  BY <1>1, RowOfCommand DEF Commands, CommandRow
<1>3. /\ task' \in [Tasks -> ATask] /\ task'["ui"] = row
      /\ \A u \in Tasks \ {"ui"} : task'[u] = task[u]
  BY <1>0, <1>1, <1>2 DEF ShellType
<1>4. ShellType'
  BY <1>1, <1>2, <1>3 DEF Commands, ShellType, OwnPlaces, OthersWatch, States, ADaemon, daemons, sup, mon
<1>5. OwnPlaces'
  BY <1>1, <1>2, <1>3 DEF Commands, OwnPlaces, ShellType, OthersWatch, daemons, sup, mon
<1>6. OthersWatch'
  BY <1>1, <1>2, <1>3 DEF Commands, OthersWatch, OwnPlaces, ShellType, daemons, sup, mon
<1>7. StopProgress'
  BY <1>1, <1>2, <1>3 DEF Commands, StopProgress, OwnPlaces, ShellType, OthersWatch, daemons, sup, mon
<1>8. ReloadProgress'
  BY <1>1, <1>2, <1>3 DEF Commands, ReloadProgress, OwnPlaces, ShellType, OthersWatch, daemons, sup, mon
<1>9. FileProgress'
  BY <1>1, <1>2, <1>3 DEF Commands, FileProgress, OwnPlaces, ShellType, OthersWatch, daemons, sup, mon
<1>10. FlagKept'
  BY <1>1, <1>2, <1>3 DEF Commands, FlagKept, OwnPlaces, ShellType, OthersWatch, daemons, sup, mon
<1>. QED BY <1>4, <1>5, <1>6, <1>7, <1>8, <1>9, <1>10

LEMMA FlagsKeeps ==
  ASSUME ShellInv, Flags
  PROVE  ShellInv'
<1>. USE DEF ShellInv, In, Watching, Alive, Reaped, Foreign, Reload, Reloading, NoneAlive, Setting, Settled, First, Second, Autos, Tasks, S, M
<1>0. ShellType
  OBVIOUS
<1>1. /\ task' \in [Tasks -> ATask] /\ task'["ui"].pc = "kill"
      /\ task'["ui"].cfg = task["ui"].cfg /\ task'["ui"].then = task["ui"].then
      /\ \A u \in Tasks \ {"ui"} : task'[u] = task[u]
  BY <1>0, TaskMoves DEF Flags, Places
<1>2. ShellType'
  BY <1>1 DEF Flags, ShellType, OwnPlaces, OthersWatch, States, ADaemon, daemons, sup, mon
<1>3. OwnPlaces'
  BY <1>1 DEF Flags, OwnPlaces, ShellType, OthersWatch, daemons, sup, mon
<1>4. OthersWatch'
  BY <1>1 DEF Flags, OthersWatch, OwnPlaces, ShellType, daemons, sup, mon
<1>5. StopProgress'
  BY <1>1 DEF Flags, StopProgress, OwnPlaces, ShellType, OthersWatch, daemons, sup, mon
<1>6. ReloadProgress'
  BY <1>1 DEF Flags, ReloadProgress, OwnPlaces, ShellType, OthersWatch, daemons, sup, mon
<1>7. FileProgress'
  BY <1>1 DEF Flags, FileProgress, OwnPlaces, ShellType, OthersWatch, daemons, sup, mon
<1>8. FlagKept'
  BY <1>1 DEF Flags, FlagKept, OwnPlaces, ShellType, OthersWatch, daemons, sup, mon
<1>. QED BY <1>2, <1>3, <1>4, <1>5, <1>6, <1>7, <1>8

LEMMA KillsKeeps ==
  ASSUME ShellInv, Kills
  PROVE  ShellInv'
<1>. USE DEF ShellInv, In, Watching, Alive, Reaped, Foreign, Reload, Reloading, NoneAlive, Setting, Settled, First, Second, Autos, Tasks, S, M
<1>0. ShellType
  OBVIOUS
<1>1. PICK pc \in {"idle", "running?"} : pc = IF command = "stop" THEN "idle" ELSE "running?"
  OBVIOUS
<1>2. PICK row \in ATask : row = [Idle EXCEPT !.pc = pc] /\ row.pc = pc /\ row.then = "spawn"
  BY IdleWith DEF Places
<1>3. task' = [task EXCEPT !["ui"] = row]
  BY <1>1, <1>2 DEF Kills, Dies
<1>4. /\ task' \in [Tasks -> ATask] /\ task'["ui"] = row
      /\ \A u \in Tasks \ {"ui"} : task'[u] = task[u]
  BY <1>0, <1>3 DEF ShellType
<1>5. ShellType'
  BY <1>1, <1>2, <1>3, <1>4 DEF Kills, Dies, ShellType, OwnPlaces, OthersWatch, States, ADaemon, daemons, sup, mon, ghosts
<1>6. OwnPlaces'
  BY <1>1, <1>2, <1>3, <1>4 DEF Kills, Dies, OwnPlaces, ShellType, OthersWatch, daemons, sup, mon, ghosts
<1>7. OthersWatch'
  BY <1>1, <1>2, <1>3, <1>4 DEF Kills, Dies, OthersWatch, OwnPlaces, ShellType, daemons, sup, mon, ghosts
<1>8. StopProgress'
  BY <1>1, <1>2, <1>3, <1>4 DEF Kills, Dies, StopProgress, OwnPlaces, ShellType, OthersWatch, daemons, sup, mon, ghosts
<1>9. ReloadProgress'
  BY <1>1, <1>2, <1>3, <1>4 DEF Kills, Dies, ReloadProgress, OwnPlaces, ShellType, OthersWatch, daemons, sup, mon, ghosts
<1>10. FileProgress'
  BY <1>1, <1>2, <1>3, <1>4 DEF Kills, Dies, FileProgress, OwnPlaces, ShellType, OthersWatch, ReloadProgress, daemons, sup, mon, ghosts
<1>11. FlagKept'
  BY <1>1, <1>2, <1>3, <1>4 DEF Kills, Dies, FlagKept, OwnPlaces, ShellType, OthersWatch, daemons, sup, mon, ghosts
<1>. QED BY <1>5, <1>6, <1>7, <1>8, <1>9, <1>10, <1>11

LEMMA EndsReloadKeeps ==
  ASSUME ShellInv, EndsReload
  PROVE  ShellInv'
<1>. USE DEF ShellInv, In, Watching, Alive, Reaped, Foreign, Reload, Reloading, NoneAlive, Setting, Settled, First, Second, Autos, Tasks, S, M
<1>0. ShellType
  OBVIOUS
<1>1. /\ task' \in [Tasks -> ATask] /\ task'["ui"].pc = "idle"
      /\ task'["ui"].cfg = task["ui"].cfg /\ task'["ui"].then = task["ui"].then
      /\ \A u \in Tasks \ {"ui"} : task'[u] = task[u]
  BY <1>0, TaskMoves DEF EndsReload, Places
<1>2. ShellType'
  BY <1>1 DEF EndsReload, ShellType, OwnPlaces, OthersWatch, States, ADaemon, daemons, sup, mon, Faulty, Faultless
<1>3. OwnPlaces'
  BY <1>1 DEF EndsReload, OwnPlaces, ShellType, OthersWatch, daemons, sup, mon, Faulty, Faultless
<1>4. OthersWatch'
  BY <1>1 DEF EndsReload, OthersWatch, OwnPlaces, ShellType, daemons, sup, mon, Faulty, Faultless
<1>5. StopProgress'
  BY <1>1 DEF EndsReload, StopProgress, OwnPlaces, ShellType, OthersWatch, daemons, sup, mon, Faulty, Faultless
<1>6. ReloadProgress'
  BY <1>1 DEF EndsReload, ReloadProgress, OwnPlaces, ShellType, OthersWatch, daemons, sup, mon, Faulty, Faultless
<1>7. FileProgress'
  <2>1. SUFFICES ASSUME Reload, clean
        PROVE  /\ file \in {Setting, "torn"} /\ ~In("ui", "filling")'
               /\ \A t \in Autos : ~In(t, "filling")
               /\ command = "pause" => paused /\ task[M].pc \in {"idle", "paused?"} /\ file # "torn"
    BY <1>1 DEF EndsReload, FileProgress, daemons, sup, mon
  <2>2. Second /\ In("ui", "awaiting")
    BY <2>1 DEF ReloadProgress, EndsReload
  <2>3. file = Setting
    BY <2>1, <2>2 DEF FileProgress
  <2>4. \A t \in Autos : ~In(t, "filling")
    BY <2>1, <2>2 DEF OthersWatch
  <2>5. command = "pause" => paused /\ task[M].pc \in {"idle", "paused?"}
    BY <2>1, <2>2 DEF FlagKept
  <2>. QED BY <1>1, <2>3, <2>4, <2>5
<1>8. FlagKept'
  BY <1>1 DEF EndsReload, FlagKept, OwnPlaces, ShellType, OthersWatch, daemons, sup, mon, Faulty, Faultless
<1>. QED BY <1>2, <1>3, <1>4, <1>5, <1>6, <1>7, <1>8

LEMMA FailedKeeps ==
  ASSUME ShellInv, Failed
  PROVE  ShellInv'
<1>. USE DEF ShellInv, In, Watching, Alive, Reaped, Foreign, Reload, Reloading, NoneAlive, Setting, Settled, First, Second, Autos, Tasks, S, M
<1>0. ShellType
  OBVIOUS
<1>1. /\ task' \in [Tasks -> ATask] /\ task'["ui"].pc = "idle"
      /\ task'["ui"].cfg = task["ui"].cfg /\ task'["ui"].then = task["ui"].then
      /\ \A u \in Tasks \ {"ui"} : task'[u] = task[u]
  BY <1>0, TaskMoves DEF Failed, Places
<1>2. ShellType'
  BY <1>1 DEF Failed, ShellType, OwnPlaces, OthersWatch, States, ADaemon, daemons, sup, mon
<1>3. OwnPlaces'
  BY <1>1 DEF Failed, OwnPlaces, ShellType, OthersWatch, daemons, sup, mon
<1>4. OthersWatch'
  BY <1>1 DEF Failed, OthersWatch, OwnPlaces, ShellType, daemons, sup, mon
<1>5. StopProgress'
  BY <1>1 DEF Failed, StopProgress, OwnPlaces, ShellType, OthersWatch, daemons, sup, mon
<1>6. ReloadProgress'
  BY <1>1 DEF Failed, ReloadProgress, OwnPlaces, ShellType, OthersWatch, daemons, sup, mon
<1>7. FileProgress'
  BY <1>1 DEF Failed, FileProgress, OwnPlaces, ShellType, OthersWatch, daemons, sup, mon
<1>8. FlagKept'
  BY <1>1 DEF Failed, FlagKept, OwnPlaces, ShellType, OthersWatch, daemons, sup, mon
<1>. QED BY <1>2, <1>3, <1>4, <1>5, <1>6, <1>7, <1>8

LEMMA SupervisorLooksKeeps ==
  ASSUME ShellInv, SupervisorLooks
  PROVE  ShellInv'
<1>0. ShellType
  BY DEF ShellInv
<1>1. PICK pc \in {"idle", "probing socket"} :
        IF stopping THEN pc = "idle" /\ UNCHANGED task ELSE pc = "probing socket" /\ Goes(S, pc)
  BY DEF SupervisorLooks
<1>2. /\ task' \in [Tasks -> ATask] /\ task'[S].pc = pc
      /\ task'[S].cfg = task[S].cfg /\ task'[S].then = task[S].then
      /\ \A u \in Tasks \ {S} : task'[u] = task[u]
  BY <1>0, <1>1, TaskMoves DEF Places, SupervisorLooks, ShellType, In, S, Tasks, Autos
<1>3. crashed \in Nat /\ (crashed' = 0 \/ crashed' = crashed)
  BY <1>0 DEF SupervisorLooks, ShellType
<1>4. crashed' \in Nat
  <2>1. CASE crashed' = 0
    BY <2>1
  <2>2. CASE crashed' = crashed
    BY <1>3, <2>2
  <2>. QED BY <1>3, <2>1, <2>2
<1>. USE DEF ShellInv, In, Watching, Alive, Reaped, Foreign, Reload, Reloading, NoneAlive, Setting, Settled, First, Second, Autos, Tasks, S, M
<1>5. ShellType'
  BY <1>1, <1>2, <1>3, <1>4 DEF SupervisorLooks, Moves, ShellType, OwnPlaces, OthersWatch, States, ADaemon, daemons, mon
<1>6. OwnPlaces'
  BY <1>1, <1>2, <1>3, <1>4 DEF SupervisorLooks, Moves, OwnPlaces, ShellType, OthersWatch, daemons, mon
<1>7. OthersWatch'
  BY <1>1, <1>2, <1>3, <1>4 DEF SupervisorLooks, Moves, OthersWatch, OwnPlaces, ShellType, daemons, mon
<1>8. StopProgress'
  BY <1>1, <1>2, <1>3, <1>4 DEF SupervisorLooks, Moves, StopProgress, OwnPlaces, ShellType, OthersWatch, daemons, mon
<1>9. ReloadProgress'
  BY <1>1, <1>2, <1>3, <1>4 DEF SupervisorLooks, Moves, ReloadProgress, OwnPlaces, ShellType, OthersWatch, daemons, mon
<1>10. FileProgress'
  BY <1>1, <1>2, <1>3, <1>4 DEF SupervisorLooks, Moves, FileProgress, OwnPlaces, ShellType, OthersWatch, daemons, mon
<1>11. FlagKept'
  BY <1>1, <1>2, <1>3, <1>4 DEF SupervisorLooks, Moves, FlagKept, OwnPlaces, ShellType, OthersWatch, daemons, mon
<1>. QED BY <1>5, <1>6, <1>7, <1>8, <1>9, <1>10, <1>11

LEMMA SupervisorSeesSocketKeeps ==
  ASSUME ShellInv, SupervisorSeesSocket
  PROVE  ShellInv'
<1>. USE DEF ShellInv, In, Watching, Alive, Reaped, Foreign, Reload, Reloading, NoneAlive, Setting, Settled, First, Second, Autos, Tasks, S, M
<1>0. ShellType
  OBVIOUS
<1>1. /\ task' \in [Tasks -> ATask] /\ task'[S].pc = "idle"
      /\ task'[S].cfg = task[S].cfg /\ task'[S].then = task[S].then
      /\ \A u \in Tasks \ {S} : task'[u] = task[u]
  BY <1>0, TaskMoves DEF SupervisorSeesSocket, Places
<1>2. ShellType'
  BY <1>1 DEF SupervisorSeesSocket, Moves, ShellType, OwnPlaces, OthersWatch, States, ADaemon, daemons, mon
<1>3. OwnPlaces'
  BY <1>1 DEF SupervisorSeesSocket, Moves, OwnPlaces, ShellType, OthersWatch, daemons, mon
<1>4. OthersWatch'
  BY <1>1 DEF SupervisorSeesSocket, Moves, OthersWatch, OwnPlaces, ShellType, daemons, mon
<1>5. StopProgress'
  BY <1>1 DEF SupervisorSeesSocket, Moves, StopProgress, OwnPlaces, ShellType, OthersWatch, daemons, mon
<1>6. ReloadProgress'
  BY <1>1 DEF SupervisorSeesSocket, Moves, ReloadProgress, OwnPlaces, ShellType, OthersWatch, daemons, mon
<1>7. FileProgress'
  BY <1>1 DEF SupervisorSeesSocket, Moves, FileProgress, OwnPlaces, ShellType, OthersWatch, daemons, mon
<1>8. FlagKept'
  BY <1>1 DEF SupervisorSeesSocket, Moves, FlagKept, OwnPlaces, ShellType, OthersWatch, daemons, mon
<1>. QED BY <1>2, <1>3, <1>4, <1>5, <1>6, <1>7, <1>8

LEMMA SupervisorWaitsKeeps ==
  ASSUME ShellInv, SupervisorWaits
  PROVE  ShellInv'
<1>. USE DEF ShellInv, In, Watching, Alive, Reaped, Foreign, Reload, Reloading, NoneAlive, Setting, Settled, First, Second, Autos, Tasks, S, M
<1>0. ShellType
  OBVIOUS
<1>1. /\ task' \in [Tasks -> ATask] /\ task'[S].pc = "idle"
      /\ task'[S].cfg = task[S].cfg /\ task'[S].then = task[S].then
      /\ \A u \in Tasks \ {S} : task'[u] = task[u]
  BY <1>0, TaskMoves DEF SupervisorWaits, Places
<1>2. ShellType'
  BY <1>1 DEF SupervisorWaits, Moves, ShellType, OwnPlaces, OthersWatch, States, ADaemon, daemons, sup, mon
<1>3. OwnPlaces'
  BY <1>1 DEF SupervisorWaits, Moves, OwnPlaces, ShellType, OthersWatch, daemons, sup, mon
<1>4. OthersWatch'
  BY <1>1 DEF SupervisorWaits, Moves, OthersWatch, OwnPlaces, ShellType, daemons, sup, mon
<1>5. StopProgress'
  BY <1>1 DEF SupervisorWaits, Moves, StopProgress, OwnPlaces, ShellType, OthersWatch, daemons, sup, mon
<1>6. ReloadProgress'
  BY <1>1 DEF SupervisorWaits, Moves, ReloadProgress, OwnPlaces, ShellType, OthersWatch, daemons, sup, mon
<1>7. FileProgress'
  BY <1>1 DEF SupervisorWaits, Moves, FileProgress, OwnPlaces, ShellType, OthersWatch, daemons, sup, mon
<1>8. FlagKept'
  BY <1>1 DEF SupervisorWaits, Moves, FlagKept, OwnPlaces, ShellType, OthersWatch, daemons, sup, mon
<1>. QED BY <1>2, <1>3, <1>4, <1>5, <1>6, <1>7, <1>8

LEMMA SupervisorCountsKeeps ==
  ASSUME ShellInv, SupervisorCounts
  PROVE  ShellInv'
<1>0. ShellType
  BY DEF ShellInv
<1>1. PICK pc \in {"idle", "running?"} : Goes(S, pc)
  BY DEF SupervisorCounts
<1>2. /\ task' \in [Tasks -> ATask] /\ task'[S].pc = pc
      /\ task'[S].cfg = task[S].cfg /\ task'[S].then = task[S].then
      /\ \A u \in Tasks \ {S} : task'[u] = task[u]
  BY <1>0, <1>1, TaskMoves DEF Places, S, Tasks, Autos
<1>3. crashed' = crashed \/ crashed' = crashed + 1
  BY DEF SupervisorCounts
<1>4. crashed' \in Nat /\ used' \in Nat
  <2>1. used' = used \/ used' = used + 1 \/ used' \in 1 .. used
    BY DEF SupervisorCounts, Budgeted, Refused
  <2>. QED BY <1>0, <1>3, <2>1 DEF ShellType
<1>. USE DEF ShellInv, In, Watching, Alive, Reaped, Foreign, Reload, Reloading, NoneAlive, Setting, Settled, First, Second, Autos, Tasks, S, M
<1>5. ShellType'
  BY <1>1, <1>2, <1>3, <1>4 DEF SupervisorCounts, Moves, ShellType, OwnPlaces, OthersWatch, States, ADaemon, daemons, mon, Budgeted, Refused, Faulty, Faultless
<1>6. OwnPlaces'
  BY <1>1, <1>2, <1>3, <1>4 DEF SupervisorCounts, Moves, OwnPlaces, ShellType, OthersWatch, daemons, mon, Budgeted, Refused, Faulty, Faultless
<1>7. OthersWatch'
  BY <1>1, <1>2, <1>3, <1>4 DEF SupervisorCounts, Moves, OthersWatch, OwnPlaces, ShellType, daemons, mon, Budgeted, Refused, Faulty, Faultless
<1>8. StopProgress'
  BY <1>1, <1>2, <1>3, <1>4 DEF SupervisorCounts, Moves, StopProgress, OwnPlaces, ShellType, OthersWatch, daemons, mon, Budgeted, Refused, Faulty, Faultless
<1>9. ReloadProgress'
  BY <1>1, <1>2, <1>3, <1>4 DEF SupervisorCounts, Moves, ReloadProgress, OwnPlaces, ShellType, OthersWatch, daemons, mon, Budgeted, Refused, Faulty, Faultless
<1>10. FileProgress'
  <2>1. UNCHANGED <<file, command, done, paused>> /\ (clean' => clean) /\ In(S, "probing socket")
    BY DEF SupervisorCounts, Moves
  <2>. QED BY <1>1, <1>2, <2>1, FileLeftAlone
<1>11. FlagKept'
  BY <1>1, <1>2, <1>3, <1>4 DEF SupervisorCounts, Moves, FlagKept, OwnPlaces, ShellType, OthersWatch, daemons, mon, Budgeted, Refused, Faulty, Faultless
<1>. QED BY <1>5, <1>6, <1>7, <1>8, <1>9, <1>10, <1>11

LEMMA SupervisorEndsKeeps ==
  ASSUME ShellInv, SupervisorEnds
  PROVE  ShellInv'
<1>. USE DEF ShellInv, In, Watching, Alive, Reaped, Foreign, Reload, Reloading, NoneAlive, Setting, Settled, First, Second, Autos, Tasks, S, M
<1>0. ShellType
  OBVIOUS
<1>1. /\ task' \in [Tasks -> ATask] /\ task'[S].pc = "idle"
      /\ task'[S].cfg = task[S].cfg /\ task'[S].then = task[S].then
      /\ \A u \in Tasks \ {S} : task'[u] = task[u]
  BY <1>0, TaskMoves DEF SupervisorEnds, Places
<1>2. ShellType'
  BY <1>1 DEF SupervisorEnds, Moves, ShellType, OwnPlaces, OthersWatch, States, ADaemon, daemons, mon
<1>3. OwnPlaces'
  BY <1>1 DEF SupervisorEnds, Moves, OwnPlaces, ShellType, OthersWatch, daemons, mon
<1>4. OthersWatch'
  BY <1>1 DEF SupervisorEnds, Moves, OthersWatch, OwnPlaces, ShellType, daemons, mon
<1>5. StopProgress'
  BY <1>1 DEF SupervisorEnds, Moves, StopProgress, OwnPlaces, ShellType, OthersWatch, daemons, mon
<1>6. ReloadProgress'
  BY <1>1 DEF SupervisorEnds, Moves, ReloadProgress, OwnPlaces, ShellType, OthersWatch, daemons, mon
<1>7. FileProgress'
  BY <1>1 DEF SupervisorEnds, Moves, FileProgress, OwnPlaces, ShellType, OthersWatch, daemons, mon
<1>8. FlagKept'
  BY <1>1 DEF SupervisorEnds, Moves, FlagKept, OwnPlaces, ShellType, OthersWatch, daemons, mon
<1>. QED BY <1>2, <1>3, <1>4, <1>5, <1>6, <1>7, <1>8

LEMMA MonitorLooksKeeps ==
  ASSUME ShellInv, MonitorLooks
  PROVE  ShellInv'
<1>0. ShellType
  BY DEF ShellInv
<1>1. PICK pc \in {"idle", "paused?"} : 
        IF stopping THEN pc = "idle" /\ UNCHANGED task ELSE pc = "paused?" /\ Goes(M, pc)
  BY DEF MonitorLooks
<1>2. /\ task' \in [Tasks -> ATask] /\ task'[M].pc = pc
      /\ task'[M].cfg = task[M].cfg /\ task'[M].then = task[M].then
      /\ \A u \in Tasks \ {M} : task'[u] = task[u]
  BY <1>0, <1>1, TaskMoves DEF Places, MonitorLooks, ShellType, In, M, Tasks, Autos
<1>. USE DEF ShellInv, In, Watching, Alive, Reaped, Foreign, Reload, Reloading, NoneAlive, Setting, Settled, First, Second, Autos, Tasks, S, M
<1>3. ShellType'
  BY <1>1, <1>2 DEF MonitorLooks, Moves, ShellType, OwnPlaces, OthersWatch, States, ADaemon, daemons, sup
<1>4. OwnPlaces'
  BY <1>1, <1>2 DEF MonitorLooks, Moves, OwnPlaces, ShellType, OthersWatch, daemons, sup
<1>5. OthersWatch'
  BY <1>1, <1>2 DEF MonitorLooks, Moves, OthersWatch, OwnPlaces, ShellType, daemons, sup
<1>6. StopProgress'
  BY <1>1, <1>2 DEF MonitorLooks, Moves, StopProgress, OwnPlaces, ShellType, OthersWatch, daemons, sup
<1>7. ReloadProgress'
  BY <1>1, <1>2 DEF MonitorLooks, Moves, ReloadProgress, OwnPlaces, ShellType, OthersWatch, daemons, sup
<1>8. FileProgress'
  BY <1>1, <1>2 DEF MonitorLooks, Moves, FileProgress, OwnPlaces, ShellType, OthersWatch, daemons, sup
<1>9. FlagKept'
  BY <1>1, <1>2 DEF MonitorLooks, Moves, FlagKept, OwnPlaces, ShellType, OthersWatch, daemons, sup
<1>. QED BY <1>3, <1>4, <1>5, <1>6, <1>7, <1>8, <1>9

LEMMA MonitorSeesPauseKeeps ==
  ASSUME ShellInv, MonitorSeesPause
  PROVE  ShellInv'
<1>0. ShellType
  BY DEF ShellInv
<1>1. PICK pc \in {"idle", "probing socket"} : 
        Goes(M, pc) /\ (pc = "idle" <=> paused)
  BY DEF MonitorSeesPause
<1>2. /\ task' \in [Tasks -> ATask] /\ task'[M].pc = pc
      /\ task'[M].cfg = task[M].cfg /\ task'[M].then = task[M].then
      /\ \A u \in Tasks \ {M} : task'[u] = task[u]
  BY <1>0, <1>1, TaskMoves DEF Places, MonitorSeesPause, ShellType, In, M, Tasks, Autos
<1>. USE DEF ShellInv, In, Watching, Alive, Reaped, Foreign, Reload, Reloading, NoneAlive, Setting, Settled, First, Second, Autos, Tasks, S, M
<1>3. ShellType'
  BY <1>1, <1>2 DEF MonitorSeesPause, Moves, ShellType, OwnPlaces, OthersWatch, States, ADaemon, daemons, sup
<1>4. OwnPlaces'
  BY <1>1, <1>2 DEF MonitorSeesPause, Moves, OwnPlaces, ShellType, OthersWatch, daemons, sup
<1>5. OthersWatch'
  BY <1>1, <1>2 DEF MonitorSeesPause, Moves, OthersWatch, OwnPlaces, ShellType, daemons, sup
<1>6. StopProgress'
  BY <1>1, <1>2 DEF MonitorSeesPause, Moves, StopProgress, OwnPlaces, ShellType, OthersWatch, daemons, sup
<1>7. ReloadProgress'
  BY <1>1, <1>2 DEF MonitorSeesPause, Moves, ReloadProgress, OwnPlaces, ShellType, OthersWatch, daemons, sup
<1>8. FileProgress'
  BY <1>1, <1>2 DEF MonitorSeesPause, Moves, FileProgress, OwnPlaces, ShellType, OthersWatch, daemons, sup
<1>9. FlagKept'
  BY <1>1, <1>2 DEF MonitorSeesPause, Moves, FlagKept, OwnPlaces, ShellType, OthersWatch, daemons, sup
<1>. QED BY <1>3, <1>4, <1>5, <1>6, <1>7, <1>8, <1>9

LEMMA MonitorSeesNoneKeeps ==
  ASSUME ShellInv, MonitorSeesNone
  PROVE  ShellInv'
<1>0. ShellType
  BY DEF ShellInv
<1>1. PICK pc \in {"idle", "acquiring"} : Goes(M, pc)
  BY DEF MonitorSeesNone
<1>2. /\ task' \in [Tasks -> ATask] /\ task'[M].pc = pc
      /\ task'[M].cfg = task[M].cfg /\ task'[M].then = task[M].then
      /\ \A u \in Tasks \ {M} : task'[u] = task[u]
  BY <1>0, <1>1, TaskMoves DEF Places, MonitorSeesNone, ShellType, In, M, Tasks, Autos
<1>. USE DEF ShellInv, In, Watching, Alive, Reaped, Foreign, Reload, Reloading, NoneAlive, Setting, Settled, First, Second, Autos, Tasks, S, M
<1>3. ShellType'
  BY <1>1, <1>2 DEF MonitorSeesNone, Moves, ShellType, OwnPlaces, OthersWatch, States, ADaemon, daemons, sup
<1>4. OwnPlaces'
  BY <1>1, <1>2 DEF MonitorSeesNone, Moves, OwnPlaces, ShellType, OthersWatch, daemons, sup
<1>5. OthersWatch'
  BY <1>1, <1>2 DEF MonitorSeesNone, Moves, OthersWatch, OwnPlaces, ShellType, daemons, sup
<1>6. StopProgress'
  BY <1>1, <1>2 DEF MonitorSeesNone, Moves, StopProgress, OwnPlaces, ShellType, OthersWatch, daemons, sup
<1>7. ReloadProgress'
  BY <1>1, <1>2 DEF MonitorSeesNone, Moves, ReloadProgress, OwnPlaces, ShellType, OthersWatch, daemons, sup
<1>8. FileProgress'
  BY <1>1, <1>2 DEF MonitorSeesNone, Moves, FileProgress, OwnPlaces, ShellType, OthersWatch, daemons, sup
<1>9. FlagKept'
  BY <1>1, <1>2 DEF MonitorSeesNone, Moves, FlagKept, OwnPlaces, ShellType, OthersWatch, daemons, sup
<1>. QED BY <1>3, <1>4, <1>5, <1>6, <1>7, <1>8, <1>9

LEMMA MonitorCountsKeeps ==
  ASSUME ShellInv, NEW es, MonitorCounts(es)
  PROVE  ShellInv'
<1>0. ShellType
  BY DEF ShellInv
<1>1. PICK pc \in {"idle", "failed"} : Goes(M, pc)
  BY DEF MonitorCounts
<1>2. /\ task' \in [Tasks -> ATask] /\ task'[M].pc = pc
      /\ task'[M].cfg = task[M].cfg /\ task'[M].then = task[M].then
      /\ \A u \in Tasks \ {M} : task'[u] = task[u]
  BY <1>0, <1>1, TaskMoves DEF Places, MonitorCounts, ShellType, In, M, Tasks, Autos
<1>. USE DEF ShellInv, In, Watching, Alive, Reaped, Foreign, Reload, Reloading, NoneAlive, Setting, Settled, First, Second, Autos, Tasks, S, M
<1>3. ShellType'
  BY <1>1, <1>2 DEF MonitorCounts, Moves, ShellType, OwnPlaces, OthersWatch, States, ADaemon, daemons, sup
<1>4. OwnPlaces'
  BY <1>1, <1>2 DEF MonitorCounts, Moves, OwnPlaces, ShellType, OthersWatch, daemons, sup
<1>5. OthersWatch'
  BY <1>1, <1>2 DEF MonitorCounts, Moves, OthersWatch, OwnPlaces, ShellType, daemons, sup
<1>6. StopProgress'
  BY <1>1, <1>2 DEF MonitorCounts, Moves, StopProgress, OwnPlaces, ShellType, OthersWatch, daemons, sup
<1>7. ReloadProgress'
  BY <1>1, <1>2 DEF MonitorCounts, Moves, ReloadProgress, OwnPlaces, ShellType, OthersWatch, daemons, sup
<1>8. FileProgress'
  <2>1. UNCHANGED <<file, command, done, paused>> /\ (clean' => clean) /\ In(M, "probing socket")
    BY DEF MonitorCounts, Moves, sup
  <2>. QED BY <1>1, <1>2, <2>1, FileLeftAlone
<1>9. FlagKept'
  BY <1>1, <1>2 DEF MonitorCounts, Moves, FlagKept, OwnPlaces, ShellType, OthersWatch, daemons, sup
<1>. QED BY <1>3, <1>4, <1>5, <1>6, <1>7, <1>8, <1>9

LEMMA MonitorAcquiresKeeps ==
  ASSUME ShellInv, MonitorAcquires
  PROVE  ShellInv'
<1>0. ShellType
  BY DEF ShellInv
<1>1. PICK pc \in {"running?", "failed"} : Goes(M, pc)
  BY DEF MonitorAcquires
<1>2. /\ task' \in [Tasks -> ATask] /\ task'[M].pc = pc
      /\ task'[M].cfg = task[M].cfg /\ task'[M].then = task[M].then
      /\ \A u \in Tasks \ {M} : task'[u] = task[u]
  BY <1>0, <1>1, TaskMoves DEF Places, M, Tasks, Autos
<1>3. used' \in Nat
  BY <1>0 DEF MonitorAcquires, Budgeted, Refused, ShellType
<1>. USE DEF ShellInv, In, Watching, Alive, Reaped, Foreign, Reload, Reloading, NoneAlive, Setting, Settled, First, Second, Autos, Tasks, S, M
<1>4. ShellType'
  BY <1>1, <1>2, <1>3 DEF MonitorAcquires, Moves, ShellType, OwnPlaces, OthersWatch, States, ADaemon, daemons, sup, mon, Budgeted, Refused, Faulty, Faultless
<1>5. OwnPlaces'
  BY <1>1, <1>2, <1>3 DEF MonitorAcquires, Moves, OwnPlaces, ShellType, OthersWatch, daemons, sup, mon, Budgeted, Refused, Faulty, Faultless
<1>6. OthersWatch'
  BY <1>1, <1>2, <1>3 DEF MonitorAcquires, Moves, OthersWatch, OwnPlaces, ShellType, daemons, sup, mon, Budgeted, Refused, Faulty, Faultless
<1>7. StopProgress'
  BY <1>1, <1>2, <1>3 DEF MonitorAcquires, Moves, StopProgress, OwnPlaces, ShellType, OthersWatch, daemons, sup, mon, Budgeted, Refused, Faulty, Faultless
<1>8. ReloadProgress'
  BY <1>1, <1>2, <1>3 DEF MonitorAcquires, Moves, ReloadProgress, OwnPlaces, ShellType, OthersWatch, daemons, sup, mon, Budgeted, Refused, Faulty, Faultless
<1>9. FileProgress'
  BY <1>1, <1>2, <1>3 DEF MonitorAcquires, Moves, FileProgress, OwnPlaces, ShellType, OthersWatch, daemons, sup, mon, Budgeted, Refused, Faulty, Faultless
<1>10. FlagKept'
  BY <1>1, <1>2, <1>3 DEF MonitorAcquires, Moves, FlagKept, OwnPlaces, ShellType, OthersWatch, daemons, sup, mon, Budgeted, Refused, Faulty, Faultless
<1>. QED BY <1>4, <1>5, <1>6, <1>7, <1>8, <1>9, <1>10

LEMMA MonitorEndsKeeps ==
  ASSUME ShellInv, NEW healed \in BOOLEAN, MonitorEnds(healed)
  PROVE  ShellInv'
<1>. USE DEF ShellInv, In, Watching, Alive, Reaped, Foreign, Reload, Reloading, NoneAlive, Setting, Settled, First, Second, Autos, Tasks, S, M
<1>0. ShellType
  OBVIOUS
<1>1. /\ task' \in [Tasks -> ATask] /\ task'[M].pc = "idle"
      /\ task'[M].cfg = task[M].cfg /\ task'[M].then = task[M].then
      /\ \A u \in Tasks \ {M} : task'[u] = task[u]
  BY <1>0, TaskMoves DEF MonitorEnds, Places
<1>2. ShellType'
  BY <1>1 DEF MonitorEnds, Moves, ShellType, OwnPlaces, OthersWatch, States, ADaemon, daemons, sup
<1>3. OwnPlaces'
  BY <1>1 DEF MonitorEnds, Moves, OwnPlaces, ShellType, OthersWatch, daemons, sup
<1>4. OthersWatch'
  BY <1>1 DEF MonitorEnds, Moves, OthersWatch, OwnPlaces, ShellType, daemons, sup
<1>5. StopProgress'
  BY <1>1 DEF MonitorEnds, Moves, StopProgress, OwnPlaces, ShellType, OthersWatch, daemons, sup
<1>6. ReloadProgress'
  BY <1>1 DEF MonitorEnds, Moves, ReloadProgress, OwnPlaces, ShellType, OthersWatch, daemons, sup
<1>7. FileProgress'
  <2>1. UNCHANGED <<file, command, done, paused>> /\ (clean' => clean)
    BY DEF MonitorEnds, Moves
  <2>. QED BY <1>1, <2>1 DEF FileProgress
<1>8. FlagKept'
  BY <1>1 DEF MonitorEnds, Moves, FlagKept, OwnPlaces, ShellType, OthersWatch, daemons, sup
<1>. QED BY <1>2, <1>3, <1>4, <1>5, <1>6, <1>7, <1>8

LEMMA GraceEndsKeeps ==
  ASSUME ShellInv, GraceEnds
  PROVE  ShellInv'
<1>. USE DEF ShellInv, In, Watching, Alive, Reaped, Foreign, Reload, Reloading, NoneAlive, Setting, Settled, First, Second, Autos, Tasks, S, M
<1>0. ShellType
  OBVIOUS
<1>1. ShellType'
  BY DEF GraceEnds, ShellType, OwnPlaces, OthersWatch, States, ADaemon, daemons, mon, ghosts, Faulty, Faultless
<1>2. OwnPlaces'
  BY DEF GraceEnds, OwnPlaces, ShellType, OthersWatch, daemons, mon, ghosts, Faulty, Faultless
<1>3. OthersWatch'
  BY DEF GraceEnds, OthersWatch, OwnPlaces, ShellType, daemons, mon, ghosts, Faulty, Faultless
<1>4. StopProgress'
  BY DEF GraceEnds, StopProgress, OwnPlaces, ShellType, OthersWatch, daemons, mon, ghosts, Faulty, Faultless
<1>5. ReloadProgress'
  BY DEF GraceEnds, ReloadProgress, OwnPlaces, ShellType, OthersWatch, daemons, mon, ghosts, Faulty, Faultless
<1>6. FileProgress'
  BY DEF GraceEnds, FileProgress, OwnPlaces, ShellType, OthersWatch, daemons, mon, ghosts, Faulty, Faultless
<1>7. FlagKept'
  BY DEF GraceEnds, FlagKept, OwnPlaces, ShellType, OthersWatch, daemons, mon, ghosts, Faulty, Faultless
<1>. QED BY <1>1, <1>2, <1>3, <1>4, <1>5, <1>6, <1>7

LEMMA LeavesKeeps ==
  ASSUME ShellInv, NEW killed \in BOOLEAN, Leaves(killed)
  PROVE  ShellInv'
<1>. USE DEF ShellInv, In, Watching, Alive, Reaped, Foreign, Reload, Reloading, NoneAlive, Setting, Settled, First, Second, Autos, Tasks, S, M
<1>0. ShellType
  OBVIOUS
<1>1. task' = [t \in Tasks |-> Idle] /\ Idle \in ATask /\ Idle.pc = "idle" /\ Idle.then = "spawn"
  BY DEF Leaves, Idle, ATask, Places
<1>2. daemon' \in [Daemons -> States] /\ seen' \in [Daemons -> BOOLEAN]
  BY <1>0 DEF Leaves, ShellType, States
<1>3. ShellType'
  BY <1>1, <1>2 DEF Leaves, ShellType, OwnPlaces, OthersWatch, States, ADaemon, Faulty, Idle
<1>4. OwnPlaces'
  BY <1>1, <1>2 DEF Leaves, OwnPlaces, ShellType, OthersWatch, Faulty, Idle
<1>5. OthersWatch'
  BY <1>1, <1>2 DEF Leaves, OthersWatch, OwnPlaces, ShellType, Faulty, Idle
<1>6. StopProgress'
  BY <1>1, <1>2 DEF Leaves, StopProgress, OwnPlaces, ShellType, OthersWatch, Faulty, Idle
<1>7. ReloadProgress'
  BY <1>1, <1>2 DEF Leaves, ReloadProgress, OwnPlaces, ShellType, OthersWatch, Faulty, Idle
<1>8. FileProgress'
  BY <1>1, <1>2 DEF Leaves, FileProgress, OwnPlaces, ShellType, OthersWatch, Faulty, Idle
<1>9. FlagKept'
  BY <1>1, <1>2 DEF Leaves, FlagKept, OwnPlaces, ShellType, OthersWatch, Faulty, Idle
<1>. QED BY <1>3, <1>4, <1>5, <1>6, <1>7, <1>8, <1>9

LEMMA LaunchesShellKeeps ==
  ASSUME ShellInv, LaunchesShell
  PROVE  ShellInv'
<1>. USE DEF ShellInv, In, Watching, Alive, Reaped, Foreign, Reload, Reloading, NoneAlive, Setting, Settled, First, Second, Autos, Tasks, S, M
<1>0. ShellType
  OBVIOUS
<1>1. ShellType'
  BY DEF LaunchesShell, ShellType, OwnPlaces, OthersWatch, States, ADaemon, daemons, sup, mon, ghosts
<1>2. OwnPlaces'
  BY DEF LaunchesShell, OwnPlaces, ShellType, OthersWatch, daemons, sup, mon, ghosts
<1>3. OthersWatch'
  BY DEF LaunchesShell, OthersWatch, OwnPlaces, ShellType, daemons, sup, mon, ghosts
<1>4. StopProgress'
  BY DEF LaunchesShell, StopProgress, OwnPlaces, ShellType, OthersWatch, daemons, sup, mon, ghosts
<1>5. ReloadProgress'
  BY DEF LaunchesShell, ReloadProgress, OwnPlaces, ShellType, OthersWatch, daemons, sup, mon, ghosts
<1>6. FileProgress'
  BY DEF LaunchesShell, FileProgress, OwnPlaces, ShellType, OthersWatch, daemons, sup, mon, ghosts
<1>7. FlagKept'
  BY DEF LaunchesShell, FlagKept, OwnPlaces, ShellType, OthersWatch, daemons, sup, mon, ghosts
<1>. QED BY <1>1, <1>2, <1>3, <1>4, <1>5, <1>6, <1>7

LEMMA ReadsConfigKeeps ==
  ASSUME ShellInv, NEW d \in Daemons, ReadsConfig(d)
  PROVE  ShellInv'
<1>. USE DEF ShellInv, In, Watching, Alive, Reaped, Foreign, Reload, Reloading, NoneAlive, Setting, Settled, First, Second, Autos, Tasks, S, M
<1>0. ShellType
  OBVIOUS
<1>1. PICK state \in States : state # "none" /\ daemon' = [daemon EXCEPT ![d] = state]
  BY DEF ReadsConfig, States
<1>2. \A e \in Daemons : daemon[e] \notin {"none", "dead"} => Alive(e)
  BY ObserveAssumption
<1>3. ShellType'
  BY <1>1, <1>2 DEF ReadsConfig, ShellType, OwnPlaces, OthersWatch, States, ADaemon, sup, mon, ghosts
<1>4. OwnPlaces'
  BY <1>1, <1>2 DEF ReadsConfig, OwnPlaces, ShellType, OthersWatch, sup, mon, ghosts
<1>5. OthersWatch'
  BY <1>1, <1>2 DEF ReadsConfig, OthersWatch, OwnPlaces, ShellType, sup, mon, ghosts
<1>6. StopProgress'
  BY <1>1, <1>2 DEF ReadsConfig, StopProgress, OwnPlaces, ShellType, OthersWatch, sup, mon, ghosts
<1>7. ReloadProgress'
  BY <1>1, <1>2 DEF ReadsConfig, ReloadProgress, OwnPlaces, ShellType, OthersWatch, FileProgress, sup, mon, ghosts
<1>8. FileProgress'
  BY <1>1, <1>2 DEF ReadsConfig, FileProgress, OwnPlaces, ShellType, OthersWatch, sup, mon, ghosts
<1>9. FlagKept'
  BY <1>1, <1>2 DEF ReadsConfig, FlagKept, OwnPlaces, ShellType, OthersWatch, sup, mon, ghosts
<1>. QED BY <1>3, <1>4, <1>5, <1>6, <1>7, <1>8, <1>9

LEMMA TakesLockKeeps ==
  ASSUME ShellInv, NEW d \in Daemons, TakesLock(d)
  PROVE  ShellInv'
<1>. USE DEF ShellInv, In, Watching, Alive, Reaped, Foreign, Reload, Reloading, NoneAlive, Setting, Settled, First, Second, Autos, Tasks, S, M
<1>0. ShellType
  OBVIOUS
<1>1. PICK state \in States : state # "none" /\ daemon' = [daemon EXCEPT ![d] = state]
  BY DEF TakesLock, Dies, States
<1>2. \A e \in Daemons : daemon[e] \notin {"none", "dead"} => Alive(e)
  BY ObserveAssumption
<1>3. ShellType'
  BY <1>1, <1>2 DEF TakesLock, Dies, ShellType, OwnPlaces, OthersWatch, States, ADaemon, daemons, sup, mon, ghosts
<1>4. OwnPlaces'
  BY <1>1, <1>2 DEF TakesLock, Dies, OwnPlaces, ShellType, OthersWatch, daemons, sup, mon, ghosts
<1>5. OthersWatch'
  BY <1>1, <1>2 DEF TakesLock, Dies, OthersWatch, OwnPlaces, ShellType, daemons, sup, mon, ghosts
<1>6. StopProgress'
  BY <1>1, <1>2 DEF TakesLock, Dies, StopProgress, OwnPlaces, ShellType, OthersWatch, daemons, sup, mon, ghosts
<1>7. ReloadProgress'
  <2>1. CASE Dies(d)
    BY <1>1, <1>2, <2>1 DEF TakesLock, Dies, ReloadProgress, OwnPlaces, ShellType, OthersWatch, daemons, sup, mon, ghosts
  <2>2. CASE ~Dies(d)
    BY <1>1, <1>2, <2>2 DEF TakesLock, ReloadProgress, OwnPlaces, ShellType, OthersWatch, daemons, sup, mon, ghosts
  <2>. QED BY <2>1, <2>2
<1>8. FileProgress'
  BY <1>1, <1>2 DEF TakesLock, Dies, FileProgress, OwnPlaces, ShellType, OthersWatch, daemons, sup, mon, ghosts
<1>9. FlagKept'
  BY <1>1, <1>2 DEF TakesLock, Dies, FlagKept, OwnPlaces, ShellType, OthersWatch, daemons, sup, mon, ghosts
<1>. QED BY <1>3, <1>4, <1>5, <1>6, <1>7, <1>8, <1>9

LEMMA BindsControlKeeps ==
  ASSUME ShellInv, NEW d \in Daemons, BindsControl(d)
  PROVE  ShellInv'
<1>. USE DEF ShellInv, In, Watching, Alive, Reaped, Foreign, Reload, Reloading, NoneAlive, Setting, Settled, First, Second, Autos, Tasks, S, M
<1>0. ShellType
  OBVIOUS
<1>1. PICK state \in States : state # "none" /\ daemon' = [daemon EXCEPT ![d] = state]
  BY DEF BindsControl, States
<1>2. \A e \in Daemons : daemon[e] \notin {"none", "dead"} => Alive(e)
  BY ObserveAssumption
<1>3. ShellType'
  BY <1>1, <1>2 DEF BindsControl, ShellType, OwnPlaces, OthersWatch, States, ADaemon, sup, mon, ghosts
<1>4. OwnPlaces'
  BY <1>1, <1>2 DEF BindsControl, OwnPlaces, ShellType, OthersWatch, sup, mon, ghosts
<1>5. OthersWatch'
  BY <1>1, <1>2 DEF BindsControl, OthersWatch, OwnPlaces, ShellType, sup, mon, ghosts
<1>6. StopProgress'
  BY <1>1, <1>2 DEF BindsControl, StopProgress, OwnPlaces, ShellType, OthersWatch, sup, mon, ghosts
<1>7. ReloadProgress'
  BY <1>1, <1>2 DEF BindsControl, ReloadProgress, OwnPlaces, ShellType, OthersWatch, sup, mon, ghosts
<1>8. FileProgress'
  BY <1>1, <1>2 DEF BindsControl, FileProgress, OwnPlaces, ShellType, OthersWatch, sup, mon, ghosts
<1>9. FlagKept'
  BY <1>1, <1>2 DEF BindsControl, FlagKept, OwnPlaces, ShellType, OthersWatch, sup, mon, ghosts
<1>. QED BY <1>3, <1>4, <1>5, <1>6, <1>7, <1>8, <1>9

LEMMA DaemonCrashesKeeps ==
  ASSUME ShellInv, NEW d \in Daemons, DaemonCrashes(d)
  PROVE  ShellInv'
<1>. USE DEF ShellInv, In, Watching, Alive, Reaped, Foreign, Reload, Reloading, NoneAlive, Setting, Settled, First, Second, Autos, Tasks, S, M
<1>0. ShellType
  OBVIOUS
<1>1. PICK state \in States : state # "none" /\ daemon' = [daemon EXCEPT ![d] = state]
  BY DEF DaemonCrashes, Dies, States
<1>2. \A e \in Daemons : daemon[e] \notin {"none", "dead"} => Alive(e)
  BY ObserveAssumption
<1>3. ShellType'
  BY <1>1, <1>2 DEF DaemonCrashes, Dies, ShellType, OwnPlaces, OthersWatch, States, ADaemon, daemons, sup, mon, ghosts, Faulty
<1>4. OwnPlaces'
  BY <1>1, <1>2 DEF DaemonCrashes, Dies, OwnPlaces, ShellType, OthersWatch, daemons, sup, mon, ghosts, Faulty
<1>5. OthersWatch'
  BY <1>1, <1>2 DEF DaemonCrashes, Dies, OthersWatch, OwnPlaces, ShellType, daemons, sup, mon, ghosts, Faulty
<1>6. StopProgress'
  BY <1>1, <1>2 DEF DaemonCrashes, Dies, StopProgress, OwnPlaces, ShellType, OthersWatch, daemons, sup, mon, ghosts, Faulty
<1>7. ReloadProgress'
  BY <1>1, <1>2 DEF DaemonCrashes, Dies, ReloadProgress, OwnPlaces, ShellType, OthersWatch, daemons, sup, mon, ghosts, Faulty
<1>8. FileProgress'
  BY <1>1, <1>2 DEF DaemonCrashes, Dies, FileProgress, OwnPlaces, ShellType, OthersWatch, daemons, sup, mon, ghosts, Faulty
<1>9. FlagKept'
  BY <1>1, <1>2 DEF DaemonCrashes, Dies, FlagKept, OwnPlaces, ShellType, OthersWatch, daemons, sup, mon, ghosts, Faulty
<1>. QED BY <1>3, <1>4, <1>5, <1>6, <1>7, <1>8, <1>9

LEMMA ParentWatchdogKeeps ==
  ASSUME ShellInv, NEW d \in Daemons, ParentWatchdog(d)
  PROVE  ShellInv'
<1>. USE DEF ShellInv, In, Watching, Alive, Reaped, Foreign, Reload, Reloading, NoneAlive, Setting, Settled, First, Second, Autos, Tasks, S, M
<1>0. ShellType
  OBVIOUS
<1>1. PICK state \in States : state # "none" /\ daemon' = [daemon EXCEPT ![d] = state]
  BY DEF ParentWatchdog, Dies, States
<1>2. \A e \in Daemons : daemon[e] \notin {"none", "dead"} => Alive(e)
  BY ObserveAssumption
<1>3. ShellType'
  BY <1>1, <1>2 DEF ParentWatchdog, Dies, ShellType, OwnPlaces, OthersWatch, States, ADaemon, daemons, sup, mon, ghosts
<1>4. OwnPlaces'
  BY <1>1, <1>2 DEF ParentWatchdog, Dies, OwnPlaces, ShellType, OthersWatch, daemons, sup, mon, ghosts
<1>5. OthersWatch'
  BY <1>1, <1>2 DEF ParentWatchdog, Dies, OthersWatch, OwnPlaces, ShellType, daemons, sup, mon, ghosts
<1>6. StopProgress'
  BY <1>1, <1>2 DEF ParentWatchdog, Dies, StopProgress, OwnPlaces, ShellType, OthersWatch, daemons, sup, mon, ghosts
<1>7. ReloadProgress'
  BY <1>1, <1>2 DEF ParentWatchdog, Dies, ReloadProgress, OwnPlaces, ShellType, OthersWatch, daemons, sup, mon, ghosts
<1>8. FileProgress'
  BY <1>1, <1>2 DEF ParentWatchdog, Dies, FileProgress, OwnPlaces, ShellType, OthersWatch, daemons, sup, mon, ghosts
<1>9. FlagKept'
  BY <1>1, <1>2 DEF ParentWatchdog, Dies, FlagKept, OwnPlaces, ShellType, OthersWatch, daemons, sup, mon, ghosts
<1>. QED BY <1>3, <1>4, <1>5, <1>6, <1>7, <1>8, <1>9


LEMMA ShellStarts == ObserveInit => ShellInv
<1>. SUFFICES ASSUME ObserveInit PROVE ShellInv
  OBVIOUS
<1>1. Idle \in ATask /\ Idle.pc = "idle" /\ Idle.then = "spawn"
  BY DEF Idle, ATask, Places
<1>2. daemon \in [Daemons -> States]
  BY DEF ObserveInit, States
<1>3. seen \in [Daemons -> BOOLEAN]
  BY DEF ObserveInit
<1>4. ShellType
  BY <1>1, <1>2, <1>3 DEF ObserveInit, ShellType, ADaemon, In, Tasks
<1>5. OwnPlaces
  BY <1>1 DEF ObserveInit, OwnPlaces, Watching, Tasks, Autos, S
<1>6. OthersWatch /\ StopProgress /\ ReloadProgress /\ FileProgress /\ FlagKept
  BY DEF ObserveInit, OthersWatch, StopProgress, ReloadProgress, FileProgress, FlagKept
<1>. QED BY <1>4, <1>5, <1>6 DEF ShellInv

LEMMA StartStepsKeep ==
  ASSUME ShellInv, NEW t \in Tasks, StartStep(t) \/ StartFails(t)
  PROVE  ShellInv'
  BY FindsDaemonKeeps, TruncatesKeeps, FillsKeeps, ClearsFlagKeeps, SpawnsDaemonKeeps,
     StartFailsKeeps DEF StartStep

LEMMA ShellSteps ==
  ASSUME ShellInv, [ObserveNext]_observeVars
  PROVE  ShellInv'
<1>. USE DEF Tasks, Autos, S, M
<1>1. CASE \E c \in {"start", "stop", "pause", "resume"} : Commands(c)
  BY <1>1, CommandsKeeps
<1>2. CASE UiStep
  BY <1>2, StartStepsKeep, FlagsKeeps, KillsKeeps, EndsReloadKeeps, FailedKeeps DEF UiStep
<1>3. CASE SupervisorStep \/ GraceEnds
  BY <1>3, StartStepsKeep, SupervisorLooksKeeps, SupervisorSeesSocketKeeps, SupervisorWaitsKeeps,
     SupervisorCountsKeeps, SupervisorEndsKeeps, GraceEndsKeeps DEF SupervisorStep
<1>4. CASE MonitorStep
  BY <1>4, StartStepsKeep, MonitorLooksKeeps, MonitorSeesPauseKeeps, MonitorSeesNoneKeeps,
     MonitorCountsKeeps, MonitorAcquiresKeeps, MonitorEndsKeeps DEF MonitorStep
<1>5. CASE \E t \in Tasks : StartFails(t)
  BY <1>5, StartStepsKeep
<1>6. CASE (\E killed \in BOOLEAN : Leaves(killed)) \/ LaunchesShell
  BY <1>6, LeavesKeeps, LaunchesShellKeeps
<1>7. CASE \E d \in Daemons : Boots(d) \/ DaemonCrashes(d) \/ ParentWatchdog(d)
  BY <1>7, ReadsConfigKeeps, TakesLockKeeps, BindsControlKeeps, DaemonCrashesKeeps,
     ParentWatchdogKeeps DEF Boots
<1>8. CASE ObserveRest \/ UNCHANGED observeVars
  <2>. UNCHANGED <<daemon, seen, file, child, stopping, paused, used, task, command, done, crashed, app,
                   clean, early>>
    BY <1>8 DEF ObserveRest, observeVars, daemons, sup, mon, ghosts
  <2>. USE DEF In, Reload
  <2>1. ShellType' /\ OwnPlaces'
    BY DEF ShellInv, ShellType, OwnPlaces
  <2>2. OthersWatch' /\ StopProgress'
    BY DEF ShellInv, OthersWatch, StopProgress, Foreign, NoneAlive, Alive
  <2>3. ReloadProgress'
    BY DEF ShellInv, ReloadProgress, First, Second, Foreign, NoneAlive, Alive, Settled
  <2>4. FileProgress' /\ FlagKept'
    BY DEF ShellInv, FileProgress, FlagKept, First, Second, Setting, Reloading
  <2>. QED BY <2>1, <2>2, <2>3, <2>4 DEF ShellInv
<1>. QED BY <1>1, <1>2, <1>3, <1>4, <1>5, <1>6, <1>7, <1>8 DEF ObserveNext

LEMMA BudgetSpared ==
  ASSUME ShellInv, [ObserveNext]_observeVars, NEW t \in Autos,
         ~In(t, "running?"), task'[t].pc = "running?", Reloading, clean
  PROVE  t \in early
<1>. SUFFICES ASSUME In(t, "idle") PROVE FALSE
  BY DEF ShellInv, FlagKept
<1>1. task \in [Tasks -> ATask]
  BY DEF ShellInv, ShellType
<1>. USE DEF In, Goes, Tasks, Autos, S, M
<1>2. ~ \E c \in {"start", "stop", "pause", "resume"} : Commands(c)
  BY <1>1 DEF Commands
<1>3. \A u \in Tasks : ~StartStep(u) /\ ~StartFails(u)
  BY <1>1 DEF StartStep, FindsDaemon, Truncates, Fills, SpawnsDaemon, ClearsFlag, StartFails
<1>4. ~UiStep
  BY <1>1, <1>3 DEF UiStep, Flags, Kills, EndsReload, Failed
<1>5. ~SupervisorStep
  <2>1. ~StartStep(S)
    BY <1>3
  <2>2. ~SupervisorLooks /\ ~SupervisorSeesSocket /\ ~SupervisorWaits /\ ~SupervisorEnds
    <3>1. ~SupervisorLooks
      <4>. SUFFICES ASSUME SupervisorLooks PROVE FALSE
        OBVIOUS
      <4>1. task' = task \/ task' = [task EXCEPT ![S].pc = "probing socket"]
        BY DEF SupervisorLooks
      <4>2. CASE task' = task
        BY <4>2
      <4>3. CASE task' = [task EXCEPT ![S].pc = "probing socket"]
        <5>1. task'[S].pc = "probing socket" /\ \A u \in Tasks \ {S} : task'[u] = task[u]
          BY <4>3, TaskMoves DEF ShellInv, Places
        <5>. QED BY <5>1
      <4>. QED BY <4>1, <4>2, <4>3
    <3>2. ~SupervisorSeesSocket
      BY <1>1 DEF SupervisorSeesSocket
    <3>3. ~SupervisorWaits
      BY <1>1 DEF SupervisorWaits
    <3>4. ~SupervisorEnds
      BY <1>1 DEF SupervisorEnds
    <3>. QED BY <3>1, <3>2, <3>3, <3>4
  <2>3. ~SupervisorCounts
    BY <1>1 DEF SupervisorCounts
  <2>. QED BY <2>1, <2>2, <2>3 DEF SupervisorStep
<1>6. ~MonitorStep
  <2>1. ~StartStep(M)
    BY <1>3
  <2>2. ~MonitorLooks /\ ~MonitorSeesPause /\ ~MonitorSeesNone /\ ~MonitorAcquires
    <3>1. ~MonitorLooks
      <4>. SUFFICES ASSUME MonitorLooks PROVE FALSE
        OBVIOUS
      <4>1. task' = task \/ task' = [task EXCEPT ![M].pc = "paused?"]
        BY DEF MonitorLooks
      <4>2. CASE task' = task
        BY <4>2
      <4>3. CASE task' = [task EXCEPT ![M].pc = "paused?"]
        BY <1>1, <4>3
      <4>. QED BY <4>1, <4>2, <4>3
    <3>2. ~MonitorSeesPause
      BY <1>1 DEF MonitorSeesPause
    <3>3. ~MonitorSeesNone
      BY <1>1 DEF MonitorSeesNone
    <3>4. ~MonitorAcquires
      BY <1>1 DEF MonitorAcquires
    <3>. QED BY <3>1, <3>2, <3>3, <3>4
  <2>3. \A es : ~MonitorCounts(es)
    BY <1>1 DEF MonitorCounts
  <2>4. \A healed : ~MonitorEnds(healed)
    BY <1>1 DEF MonitorEnds
  <2>. QED BY <2>1, <2>2, <2>3, <2>4 DEF MonitorStep
<1>7. ~GraceEnds /\ ~LaunchesShell /\ ~ObserveRest /\ ~UNCHANGED observeVars
  BY DEF GraceEnds, LaunchesShell, ObserveRest, observeVars
<1>8. \A killed \in BOOLEAN : ~Leaves(killed)
  BY DEF Leaves, Idle
<1>9. \A d \in Daemons : ~Boots(d) /\ ~DaemonCrashes(d) /\ ~ParentWatchdog(d)
  BY DEF Boots, ReadsConfig, TakesLock, BindsControl, DaemonCrashes, ParentWatchdog
<1>. QED BY <1>2, <1>3, <1>4, <1>5, <1>6, <1>7, <1>8, <1>9 DEF ObserveNext

\* Whatever crashes, restarts and heals at the same time, a stop and a change of the
\* pause that nothing overlaps are kept, and a reload does not cost the budget.
THEOREM CommandsAreKept == ObserveSpec => CommandsKept
<1>1. ObserveInit => ShellInv
  BY ShellStarts
<1>2. ShellInv /\ [ObserveNext]_observeVars => ShellInv'
  BY ShellSteps
<1>3. ShellInv => CommandsHold
  <2>1. ShellInv => StopHolds
    BY DEF ShellInv, ShellType, StopProgress, StopHolds, NoneAlive
  <2>2. ShellInv => PauseHolds
    BY DEF ShellInv, ReloadProgress, PauseHolds, Settled
  <2>. QED BY <2>1, <2>2 DEF CommandsHold
<1>4. ShellInv /\ [ObserveNext]_observeVars =>
        [\A t \in Autos : ~In(t, "running?") /\ task'[t].pc = "running?" /\ Reloading /\ clean
           => t \in early]_observeVars
  BY BudgetSpared
<1>. QED BY <1>1, <1>2, <1>3, <1>4, PTL DEF ObserveSpec, CommandsKept, ReloadSparesBudget

=============================================================================
