----------------------------- MODULE TimeReports -----------------------------
(***************************************************************************)
(* The accounts of a day: the rows of activity_segments (samples of the     *)
(* lifetimes of the daemon, which may overlap when the clock was set back,   *)
(* and manual entries) are loaded for a window, consecutive samples merged,  *)
(* each moment given to one row, and the pieces summed by hour, category,    *)
(* app, scene, 15-minute card and day.  All of it is done when it is read,   *)
(* so that deleting a manual entry gives back what it covered.               *)
(***************************************************************************)
EXTENDS Integers, Sequences, FiniteSets
LOCAL INSTANCE SequencesExt
LOCAL INSTANCE FiniteSetsExt

CONSTANTS Lifetimes,      \* lifetimes, in the order of their names: 1, 2, ...
          ReportApps,
          Locked,       \* in place of the app: the screen was locked
          Nameless,     \* in place of the app: none was in front, or none is known
          MaxMinute,    \* bound of the clock
          DayEnds,      \* DayEnds[d]: first minute after day d, day 1 begins at 0
          HourOf,       \* HourOf[t]: the hour the local clock shows in minute t
          Twice,        \* minutes whose local time comes twice
          SlotLen,      \* SLOT_MINUTES
          MaxLength,    \* of a sample
          MaxRows

VARIABLE rows           \* activity_segments

Dates == DOMAIN DayEnds
DayStart(d) == IF d = 1 THEN 0 ELSE DayEnds[d - 1]
Length(r)   == r.to - r.from
Manual == {r \in rows : r.src = "manual"}
Auto   == rows \ Manual
Of(s)  == {r \in Auto : r.stream = s}
Total(S, value(_)) == MapThenSumSet(value, S)

ReportInit == rows = {}

-----------------------------------------------------------------------------
(* What changes the rows. *)

\* The next sample of a lifetime begins where its last one ended, or later after a
\* gap; what another lifetime recorded is not looked at.  A locked one is idle.
Sampled(s, from, to, app, idle) ==
  /\ Cardinality(rows) < MaxRows
  /\ from < to /\ to - from <= MaxLength
  /\ \A r \in Of(s) : r.to <= from /\ from <= r.to + 1
  /\ app = Locked => idle
  /\ rows' = rows \cup {[src |-> "auto", stream |-> s, seq |-> Cardinality(Of(s)),
                         from |-> from, to |-> to, app |-> app, idle |-> idle]}

\* add_manual_segment: one transaction; the id is a hash of the entry, so that the
\* same entry again is no overlap and is ignored.
AddManual(from, to, app) ==
  /\ from < to
  /\ ~\E r \in Manual : /\ <<r.from, r.to, r.app>> # <<from, to, app>>
                        /\ r.from < to /\ r.to > from
  /\ rows' = rows \cup {[src |-> "manual", stream |-> 0, seq |-> 0,
                         from |-> from, to |-> to, app |-> app, idle |-> FALSE]}

DeleteManual(r) ==
  /\ r \in Manual
  /\ rows' = rows \ {r}

WipeActivity == rows' = {} /\ rows # {}

ReportNext ==
  \/ \E s \in Lifetimes, from, to \in 0 .. MaxMinute, app \in ReportApps \cup {Locked, Nameless}, idle \in BOOLEAN :
       Sampled(s, from, to, app, idle)
  \/ \E from, to \in 0 .. MaxMinute, app \in ReportApps :
       Cardinality(rows) < MaxRows /\ AddManual(from, to, app)
  \/ \E r \in Manual : DeleteManual(r)
  \/ WipeActivity

ReportSpec == ReportInit /\ [][ReportNext]_rows

-----------------------------------------------------------------------------
(* Loading a window. *)

Earlier(a, b) ==     \* ORDER BY source_instance_id, last_source_seq, started_at
  \/ a.stream < b.stream
  \/ a.stream = b.stream /\ (a.seq < b.seq \/ (a.seq = b.seq /\ a.from < b.from))

\* Continues, had it looked at the app only.
ContinuesSameApp(r, next) ==
  /\ r.src = "auto" /\ next.src = "auto"
  /\ r.stream = next.stream /\ r.last + 1 = next.seq
  /\ r.to = next.from /\ r.app = next.app

Continues(r, next) ==
  /\ r.src = "auto" /\ next.src = "auto"
  /\ r.stream = next.stream /\ r.last + 1 = next.seq
  /\ r.to = next.from /\ r.app = next.app /\ r.idle = next.idle

Loaded(all, start, end) ==
  LET begin(r)      == [src |-> r.src, stream |-> r.stream, id |-> <<r.stream, r.seq, r.from>>,
                        last |-> r.seq, from |-> r.from, to |-> r.to, app |-> r.app, idle |-> r.idle]
      add(out, r)   == IF out # <<>> /\ Continues(Last(out), r)
                       THEN Front(out) \o <<[Last(out) EXCEPT !.to = r.to, !.last = r.seq]>>
                       ELSE Append(out, begin(r))
  IN  FoldLeft(add, <<>>, SetToSortSeq({r \in all : r.to >= start /\ r.from < end}, Earlier))

-----------------------------------------------------------------------------
(* Giving each moment to one row. *)

\* Manual rows come before automatic ones, then the later start, then the order of
\* loading, which stands for that of the hashed ids.
Beats(loaded, i, j) ==
  LET key(k) == <<IF loaded[k].src = "manual" THEN 1 ELSE 0, loaded[k].from, k>>
  IN  \/ key(i)[1] > key(j)[1]
      \/ key(i)[1] = key(j)[1] /\ (key(i)[2] > key(j)[2] \/ (key(i)[2] = key(j)[2] /\ i > j))

MaxOf2(x, y) == IF x > y THEN x ELSE y
MinOf2(x, y) == IF x < y THEN x ELSE y

GapPiece(from, to) == [src |-> "gap", id |-> <<-1, from, to>>, from |-> from, to |-> to,
                  app |-> Nameless, idle |-> FALSE]

\* effective_segments: a sweep over the boundaries of the clipped rows; a piece goes
\* on while its row stays the owner.
Effective(loaded, start, end) ==
  LET inside == {i \in DOMAIN loaded :
                   MaxOf2(loaded[i].from, start) < MinOf2(loaded[i].to, end)}
      edges  == UNION {{MaxOf2(loaded[i].from, start), MinOf2(loaded[i].to, end)} : i \in inside}
      bounds == SelectSeq([n \in 1 .. MaxMinute + 1 |-> n - 1], LAMBDA t : t \in edges)
      over(t) == {i \in inside : loaded[i].from <= t /\ t < loaded[i].to}
      piece(from, to) ==
        IF over(from) = {} THEN GapPiece(from, to)
        ELSE LET i == CHOOSE i \in over(from) : \A j \in over(from) \ {i} : Beats(loaded, i, j)
             IN  [src |-> loaded[i].src, id |-> loaded[i].id, from |-> from, to |-> to,
                  app |-> loaded[i].app, idle |-> loaded[i].idle]
      add(out, n) ==
        LET p == piece(bounds[n], bounds[n + 1])
        IN  IF out # <<>> /\ Last(out).id = p.id /\ Last(out).to = p.from
            THEN Front(out) \o <<[Last(out) EXCEPT !.to = p.to]>>
            ELSE Append(out, p)
  IN  FoldLeft(add, <<>>, [n \in 1 .. Len(bounds) - 1 |-> n])

\* Pieces of a split automatic row get distinct view ids.
ViewId(pieces, i) ==
  IF pieces[i].src # "manual" /\ \E j \in DOMAIN pieces \ {i} : pieces[j].id = pieces[i].id
  THEN <<pieces[i].id, pieces[i].from>> ELSE <<pieces[i].id>>

DayPieces(d) ==
  LET pieces == Effective(Loaded(rows, DayStart(d), DayEnds[d]), DayStart(d), DayEnds[d])
  IN  [i \in DOMAIN pieces |-> [pieces[i] EXCEPT !.id = ViewId(pieces, i)]]

-----------------------------------------------------------------------------
(* The reports. *)

IsActive(p) == ~p.idle /\ p.app \notin {Locked, Nameless} /\ p.src # "gap"
Active(P)   == {i \in DOMAIN P : IsActive(P[i])}
Away(P)     == {i \in DOMAIN P : P[i].idle \/ P[i].app = Locked}

TotalActive(P) == Total(Active(P), LAMBDA i : Length(P[i]))
TotalIdle(P)   == Total(Away(P), LAMBDA i : Length(P[i]))

\* By category, by app and by scene: group[app] is what an app is grouped under.
ByGroup(P, group) ==
  [g \in {group[P[i].app] : i \in Active(P)} |->
     Total({i \in Active(P) : group[P[i].app] = g}, LAMBDA i : Length(P[i]))]

\* day_stats walks from minute to minute.
ByHour(P) ==
  [h \in {HourOf[t] : t \in 0 .. MaxMinute} |->
     Total({<<i, t>> \in Active(P) \X (0 .. MaxMinute) :
              P[i].from <= t /\ t < P[i].to /\ HourOf[t] = h}, LAMBDA x : 1)]

ContextSwitches(P) == Cardinality({P[i].id[1] : i \in Active(P)})

\* floor_slot: with_minute has no answer for a local time that comes twice.
FloorSlot(t) == IF t \in Twice THEN t ELSE (t \div SlotLen) * SlotLen

\* fold_history_slots: the overlaps of a piece with the slots from its first one on.
SlotShares(P) ==
  {<<i, s, MinOf2(P[i].to, s + SlotLen) - MaxOf2(P[i].from, s)>> :
     <<i, s>> \in {<<i, s>> \in Active(P) \X (0 .. MaxMinute) :
                     /\ s >= FloorSlot(P[i].from) /\ s < P[i].to
                     /\ (s - FloorSlot(P[i].from)) % SlotLen = 0}}

SlotCards(P) ==
  LET shares == SlotShares(P)
  IN  [s \in {share[2] : share \in shares} |->
         Total({share \in shares : share[2] = s}, LAMBDA share : share[3])]

\* fold_scene_day: consecutive active pieces of one label are one episode.
Episodes(P, label) ==
  LET add(out, p) ==
        IF ~IsActive(p) THEN out
        ELSE IF out # <<>> /\ Last(out).label = label[p.app]
        THEN Front(out) \o <<[Last(out) EXCEPT !.to = p.to, !.ms = @ + Length(p)]>>
        ELSE Append(out, [label |-> label[p.app], from |-> p.from, to |-> p.to, ms |-> Length(p)])
  IN  FoldLeft(add, <<>>, P)

\* activity_range_stats loads once for all days and filters for each.
RangeActive(first, last) ==
  LET raw == Loaded(rows, DayStart(first), DayEnds[last])
      day(d) == Effective(SelectSeq(raw, LAMBDA r : r.from < DayEnds[d] /\ r.to >= DayStart(d)),
                          DayStart(d), DayEnds[d])
  IN  Total(first .. last, LAMBDA d : TotalActive(day(d)))

-----------------------------------------------------------------------------
(* Properties. *)

SumOf(f) == Total(DOMAIN f, LAMBDA x : f[x])
Covering(t) == {r \in rows : r.from <= t /\ t < r.to}
ItselfIn(P) == [app \in {P[i].app : i \in DOMAIN P} |-> app]
LifetimesApart ==
  \A r, q \in Auto : r # q => r.to <= q.from \/ q.to <= r.from

\* "manual time wins without double count" (time_accounting): every moment of a day
\* is in one piece, a manual entry's where there is one, else one of the samples
\* over it, and the pieces tell what was recorded, however lifetimes overlap.
EachMomentOnce(d, P) ==
  /\ \A t \in DayStart(d) .. DayEnds[d] - 1 :
       LET here == {i \in DOMAIN P : P[i].from <= t /\ t < P[i].to /\ P[i].src # "gap"}
           manual == Covering(t) \cap Manual
       IN  /\ (Covering(t) = {}) = (here = {})
           /\ \A i, j \in here : i = j
           /\ \A i \in here : \E r \in IF manual # {} THEN manual ELSE Covering(t) :
                <<r.src, r.app, r.idle>> = <<P[i].src, P[i].app, P[i].idle>>
  /\ \A i, j \in DOMAIN P : P[i].id = P[j].id => i = j

\* The reports of a day are sums of the same pieces: hours, categories, scenes and
\* cards add up to the day's active time, no card holds more than its length, and a
\* sample split by a manual entry is one context, not two.
ReportsAgree(d, P) ==
  \E total \in {TotalActive(P)}, cards \in {SlotCards(P)}, episodes \in {Episodes(P, ItselfIn(P))} :
    /\ SumOf(ByHour(P)) = total
    /\ SumOf(ByGroup(P, ItselfIn(P))) = total
    /\ SumOf(cards) = total /\ \A s \in DOMAIN cards : cards[s] <= SlotLen
    /\ Total(DOMAIN episodes, LAMBDA i : episodes[i].ms) = total
    /\ ContextSwitches(P) <= Cardinality({r \in rows : ~r.idle /\ r.app # Nameless})
    /\ total + TotalIdle(P) <= DayEnds[d] - DayStart(d)

\* A range is the sum of its days, though it merges samples across midnight.
RangeAgrees(P) ==
  LifetimesApart => RangeActive(1, Cardinality(Dates)) = Total(Dates, LAMBDA d : TotalActive(P[d]))

\* All of it, of a table with rows.
DayAccounted ==
  \/ rows = {}
  \/ \E P \in {[d \in Dates |-> DayPieces(d)]} :
       (\A d \in Dates : EachMomentOnce(d, P[d]) /\ ReportsAgree(d, P[d])) /\ RangeAgrees(P)

=============================================================================
