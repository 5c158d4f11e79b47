------------------------------ MODULE DayRoast ------------------------------
(***************************************************************************)
(* The facts of a day a roast is written from (day_roast_summary): the     *)
(* time in apps comes from the effective pieces of the day's report, what  *)
(* the user did from the recorded rows that begin on the day and from the  *)
(* input events, each of which keeps the user active for a while.          *)
(*                                                                         *)
(* An app stands for its title and its address too: it has one of each.  A  *)
(* manual entry has the title, but no address.                             *)
(***************************************************************************)
EXTENDS TimeReports
LOCAL INSTANCE SequencesExt
LOCAL INSTANCE FiniteSetsExt

CONSTANTS
  DomainOf,     \* DomainOf[app]: the registrable domain of the app's address
  Lingers,      \* how long an interaction keeps the user active
  Near, Wide,   \* [before, after]: the windows around a switch, by attribution
  FlushBounds,  \* <<shortest, longest>> flush interval believed
  MaxTop,       \* rows of a top list, before domains are merged (8)
  MaxTitles,    \* titles that are told (8)
  MaxInputs     \* bound: input events

VARIABLE inputs   \* input events: [at, kind, app]

roastVars2 == <<rows, inputs>>

DayOf(t) == CHOOSE d \in Dates : DayStart(d) <= t /\ t < DayEnds[d]

RoastFactsInit == ReportInit /\ inputs = {}

Input ==
  /\ Cardinality(inputs) < MaxInputs
  /\ \E at \in 0 .. MaxMinute - 1 :
       \/ \E kind \in {"click", "submit"}, app \in ReportApps :
            inputs' = inputs \cup {[at |-> at, kind |-> kind, app |-> app]}
       \/ \E kind \in {"counts", "no counts"} :
            inputs' = inputs \cup {[at |-> at, kind |-> kind, app |-> Nameless]}
  /\ UNCHANGED rows

RoastFactsNext == Input \/ (ReportNext /\ UNCHANGED inputs)

-----------------------------------------------------------------------------
(* When the user was active. *)

\* Joined, had it left overlapping ranges apart.
JoinedNowhere(ranges) ==
  SetToSortSeq(ranges, LAMBDA a, b : a[1] < b[1] \/ (a[1] = b[1] /\ a[2] < b[2]))

\* Ranges sorted and joined where they touch.
Joined(ranges) ==
  LET order == SetToSortSeq(ranges, LAMBDA a, b : a[1] < b[1] \/ (a[1] = b[1] /\ a[2] < b[2]))
      add(out, r) ==
        IF out # <<>> /\ r[1] <= Last(out)[2]
        THEN Front(out) \o <<<<Last(out)[1], MaxOf2(Last(out)[2], r[2])>>>>
        ELSE Append(out, r)
  IN  FoldLeft(add, <<>>, order)

Interactions(d) == {i \in inputs : DayOf(i.at) = d /\ i.kind \in {"click", "submit"}}
Flushes(d)      == {i \in inputs : DayOf(i.at) = d /\ i.kind \in {"counts", "no counts"}}

\* input_active_ranges: the interval of the counters is the median gap between them.
FlushLength(d) ==
  LET times == SetToSortSeq({i.at : i \in Flushes(d)}, <)
      gaps  == SortSeq([n \in 1 .. Len(times) - 1 |-> times[n + 1] - times[n]], <)
  IN  IF gaps = <<>> THEN FlushBounds[1]
      ELSE MaxOf2(FlushBounds[1], MinOf2(FlushBounds[2], gaps[(Len(gaps) \div 2) + 1]))

Attribution(d) ==
  IF Interactions(d) # {} THEN "interactions"
  ELSE IF \E i \in Flushes(d) : i.kind = "counts" THEN "input.stats" ELSE "none"

ActiveRanges(d) ==
  IF Interactions(d) # {} THEN Joined({<<i.at, i.at + Lingers>> : i \in Interactions(d)})
  ELSE LET length == FlushLength(d)
       IN  Joined({<<i.at - length, i.at>> : i \in {i \in Flushes(d) : i.kind = "counts"}})

\* user_active_ms
UserActive(d) == Total(DOMAIN ActiveRanges(d), LAMBDA n : ActiveRanges(d)[n][2] - ActiveRanges(d)[n][1])

\* ranges_overlap_ms
Overlap(ranges, from, to) ==
  Total(DOMAIN ranges, LAMBDA n : MaxOf2(0, MinOf2(ranges[n][2], to) - MaxOf2(ranges[n][1], from)))

-----------------------------------------------------------------------------
(* What is told of the day. *)

\* The rows as recorded; one belongs to the day it begins on.
Recorded(d) == {r \in rows : DayOf(r.from) = d}
Busy(d)     == {r \in Recorded(d) : ~r.idle}

AppActive(d, app) ==
  Total({r \in Busy(d) : r.app = app}, LAMBDA r : Overlap(ActiveRanges(d), r.from, r.to))

DrivenBy(d, r) ==
  LET window == IF Attribution(d) = "interactions" THEN Near ELSE Wide
  IN  Overlap(ActiveRanges(d), r.from - window.before, r.from + window.after) > 0

SwitchesUser(d) == Cardinality({r \in Busy(d) : DrivenBy(d, r)})

\* A title by all its rows, idle ones included, and what was done in it that day.
Title(d, app) ==
  LET own    == {r \in Recorded(d) : r.app = app}
      ranges == ActiveRanges(d)
  IN  [dwell  |-> Total(own, LAMBDA r : Length(r)),
       active |-> Total(own, LAMBDA r : Overlap(ranges, r.from, r.to)),
       seen   |-> Cardinality(own),
       clicks |-> Cardinality({i \in Interactions(d) : i.app = app /\ i.kind = "click"})]

\* notable_titles: of the titles that are long enough and have a row that day, the
\* MaxTitles that were shown longest; which of equals, a hash map decides.
Titles(d, long) ==
  LET shown == {r.app : r \in Recorded(d)} \cap long
      dwell == [app \in shown |-> Title(d, app).dwell]
  IN  {told \in SUBSET shown :
         /\ Cardinality(told) = MinOf2(MaxTitles, Cardinality(shown))
         /\ \A app \in told, other \in shown \ told : dwell[app] >= dwell[other]}

\* top_domains: addresses by time, the first MaxTop of them, then neighbours joined.
TopDomains(d) ==
  LET visits  == Busy(d) \ Manual
      ms(app) == Total({r \in visits : r.app = app}, LAMBDA r : Length(r))
      apps    == SetToSortSeq({r.app : r \in visits} \cap DOMAIN DomainOf, LAMBDA a, b : ms(a) > ms(b))
      add(out, app) ==
        IF out # <<>> /\ Last(out).domain = DomainOf[app]
        THEN Front(out) \o <<[Last(out) EXCEPT !.ms = @ + ms(app)]>>
        ELSE Append(out, [domain |-> DomainOf[app], ms |-> ms(app)])
  IN  FoldLeft(add, <<>>, SubSeq(apps, 1, MinOf2(Len(apps), MaxTop)))

-----------------------------------------------------------------------------
(* Properties. *)

\* The joined ranges are apart and in order, and cover the minutes the single ones do.
RangesJoined(d) ==
  LET ranges == ActiveRanges(d)
      length == FlushLength(d)
      single == IF Interactions(d) # {} THEN {<<i.at, i.at + Lingers>> : i \in Interactions(d)}
                ELSE {<<i.at - length, i.at>> : i \in {i \in Flushes(d) : i.kind = "counts"}}
      in(r, t) == r[1] <= t /\ t < r[2]
  IN  /\ \A n \in 1 .. Len(ranges) - 1 : ranges[n][2] < ranges[n + 1][1]
      /\ \A t \in 0 - FlushBounds[2] .. MaxMinute + Lingers :
           (\E n \in DOMAIN ranges : in(ranges[n], t)) = (\E r \in single : in(r, t))

\* Whatever titles are told: nobody is active in one longer than it was shown, nor in
\* an app longer than in its title, nor, where no rows overlap, in all of them longer
\* than at all; what was clicked or submitted while it was shown was active; and
\* without input events nothing is said of the user.
FactsAddUp(d) ==
  /\ \E title \in {[app \in ReportApps |-> Title(d, app)]} :
       \A told \in UNION {Titles(d, long) : long \in SUBSET ReportApps} :
         /\ \A app \in told : /\ title[app].active <= title[app].dwell
                              /\ AppActive(d, app) <= title[app].active
                              /\ (\E i \in Interactions(d), r \in Recorded(d) :
                                    i.app = app /\ r.app = app /\ r.from <= i.at /\ i.at < r.to)
                                   => title[app].active > 0
         /\ LifetimesApart /\ Manual = {} =>
              Total(told, LAMBDA app : title[app].active) <= UserActive(d)
  /\ Attribution(d) = "none" =>
       SwitchesUser(d) = 0 /\ \A app \in ReportApps : AppActive(d, app) = 0

\* All of it, of a day with input: without, nothing is said of the user.
RoastFactsHold == inputs = {} \/ \A d \in Dates : RangesJoined(d) /\ FactsAddUp(d)

-----------------------------------------------------------------------------
(* What the comments say, and the code does not do. *)

\* "With point-precise interactions a switch is user-driven only when one happened
\* right at the boundary" (day_roast_summary).
SwitchesAtTheBoundary ==
  \A d \in Dates : \A r \in Busy(d) :
    Attribution(d) = "interactions" /\ DrivenBy(d, r) =>
      \E i \in Interactions(d) : r.from - Near.before <= i.at /\ i.at <= r.from + Near.after

\* "Merge same-domain rows" (day_roast_summary).
DomainsMerged ==
  \A d \in Dates : \A m, n \in DOMAIN TopDomains(d) :
    m # n => TopDomains(d)[m].domain # TopDomains(d)[n].domain

\* "non-idle time only, matching top_apps" (day_roast_summary): nobody is active in an
\* app longer than the app's own time.
ActiveWithinApps ==
  \A d \in Dates, app \in ReportApps :
    AppActive(d, app) <= Total({i \in Active(DayPieces(d)) : DayPieces(d)[i].app = app},
                               LAMBDA i : Length(DayPieces(d)[i]))

=============================================================================
