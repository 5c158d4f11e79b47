----------------------------- MODULE DailyRoast -----------------------------
(***************************************************************************)
(* The daily roast: every ten minutes the daemon looks whether yesterday    *)
(* has one, claims the day in kv, asks the model and archives the answer.   *)
(* The user may have any day roasted from the desktop, and wipe the data,   *)
(* which takes the claims and leaves the archive.                           *)
(***************************************************************************)
EXTENDS Integers

CONSTANTS MaxDay,       \* bound of the days
          MaxRoasts,    \* bound of the archive, a day
          MaxUpsets     \* wipes and crashes

ASSUME RoastAssumption == MaxDay \in Nat /\ MaxRoasts \in Nat /\ MaxUpsets \in Nat

VARIABLES today,
          active,       \* days with active time
          roasts,       \* how many roasts the archive has of each day
          claims,       \* days whose roast.auto flag is set
          auto,         \* the daemon's task
          manual,       \* the day the desktop waits for, 0 for none
          attempts,     \* what the model was asked of its own accord, by day
          wiped, upsets

roastVars == <<today, active, roasts, claims, auto, manual, attempts, wiped, upsets>>

Days   == 1 .. MaxDay

RoastInit ==
  /\ today = 2
  /\ active \in SUBSET Days
  /\ roasts = [d \in Days |-> 0]
  /\ claims = {}
  /\ auto = [at |-> "idle", day |-> 1] /\ manual = 0
  /\ attempts = [d \in Days |-> 0]
  /\ wiped = 0 /\ upsets = 0

AutoGoes(pc) == auto' = [auto EXCEPT !.at = pc]

\* roast_list_for_day of yesterday; a day that has a roast counts as attempted.
LooksUp ==
  /\ auto.at = "idle"
  /\ IF roasts[today - 1] > 0
     THEN claims' = claims \cup {today - 1} /\ UNCHANGED auto
     ELSE auto' = [at |-> "claim", day |-> today - 1] /\ UNCHANGED claims
  /\ UNCHANGED <<today, active, roasts, manual, attempts, wiped, upsets>>

\* Claims, had the flag been set once the roast is there.
ClaimsLate ==
  /\ auto.at = "claim"
  /\ AutoGoes(IF auto.day \in claims THEN "idle" ELSE "ask")
  /\ UNCHANGED <<today, active, roasts, claims, manual, attempts, wiped, upsets>>

\* kv_try_claim, one statement.
Claims ==
  /\ auto.at = "claim"
  /\ AutoGoes(IF auto.day \in claims THEN "idle" ELSE "ask")
  /\ claims' = claims \cup {auto.day}
  /\ UNCHANGED <<today, active, roasts, manual, attempts, wiped, upsets>>

\* Nothing to tell, an answer, or none.
Asks ==
  /\ auto.at = "ask"
  /\ \/ auto.day \notin active /\ AutoGoes("idle") /\ UNCHANGED attempts
     \/ /\ auto.day \in active /\ \E pc \in {"idle", "save"} : AutoGoes(pc)
        /\ attempts' = [attempts EXCEPT ![auto.day] = @ + 1]
  /\ UNCHANGED <<today, active, roasts, claims, manual, wiped, upsets>>

Archives(d) == roasts' = [roasts EXCEPT ![d] = @ + 1]

Saves ==
  /\ auto.at = "save"
  /\ Archives(auto.day) /\ AutoGoes("idle")
  /\ UNCHANGED <<today, active, claims, manual, attempts, wiped, upsets>>

\* roast_day: the desktop asks for any day and archives the answer.
UserAsks(d) ==
  /\ manual = 0 /\ d <= today /\ roasts[d] < MaxRoasts
  /\ manual' = d
  /\ UNCHANGED <<today, active, roasts, claims, auto, attempts, wiped, upsets>>

UserGets ==
  /\ manual # 0 /\ manual' = 0
  /\ (Archives(manual) \/ UNCHANGED roasts)
  /\ UNCHANGED <<today, active, claims, auto, attempts, wiped, upsets>>

DayTurns ==
  /\ today <= MaxDay /\ today' = today + 1
  /\ UNCHANGED <<active, roasts, claims, auto, manual, attempts, wiped, upsets>>

WipesClaims ==
  /\ upsets < MaxUpsets /\ upsets' = upsets + 1 /\ wiped' = wiped + 1
  /\ claims' = {}
  /\ UNCHANGED <<today, active, roasts, auto, manual, attempts>>

RoasterDies ==
  /\ upsets < MaxUpsets /\ upsets' = upsets + 1
  /\ AutoGoes("idle")
  /\ UNCHANGED <<today, active, roasts, claims, manual, attempts, wiped>>

RoastNext ==
  \/ LooksUp \/ Claims \/ Asks \/ Saves
  \/ \E d \in Days : UserAsks(d)
  \/ UserGets \/ DayTurns \/ WipesClaims \/ RoasterDies

RoastSpec == RoastInit /\ [][RoastNext]_roastVars

\* "guarantee at most one attempt per day" (kv_try_claim): the model is asked of
\* its own accord once a day, whenever the daemon dies and whatever the user asks
\* meanwhile; only a wipe allows another attempt.
AttemptedOnce == \A d \in Days : attempts[d] <= 1 + wiped

=============================================================================
