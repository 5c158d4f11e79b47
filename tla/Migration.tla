------------------------------ MODULE Migration ------------------------------
(***************************************************************************)
(* Opening the store: `migrate` brings a database of an older version to   *)
(* SCHEMA_VERSION, statement by statement, each in a transaction of its     *)
(* own, and stamps the version after each script.  The desktop and the      *)
(* daemon open the same database and may do so at the same time; either     *)
(* may be killed between two statements, and a statement may meet a lock    *)
(* that outlasts the busy timeout.                                          *)
(***************************************************************************)
EXTENDS Integers, Sequences

CONSTANTS Openers,      \* the processes that open the store
          From,         \* versions the database may be found at, 0 for a new file
          MaxSetbacks     \* kills and lasting locks

ASSUME MigrationAssumption == From \subseteq Nat /\ MaxSetbacks \in Nat

VARIABLES version,      \* schema_meta, 0 when there is no row
          schema,       \* what the statements have made: <<script, statement>>
          twins,        \* there are several open jobs of one event and kind
          opener,       \* for each process, where its call of `open` is
          skipped,      \* a lasting lock met a statement whose error is dropped
          setbacks

migrationVars == <<version, schema, twins, opener, skipped, setbacks>>

Latest == 12      \* SCHEMA_VERSION

\* What a statement does when its object is there: "ensure" leaves it (IF NOT
\* EXISTS), "try" fails and the failure is dropped, "add" fails and `open` with
\* it.  The columns of V6 are two here.
BaseScripts ==
  << <<"ensure">>,                                          \* V1
     <<"ensure">>,                                          \* V2
     <<"try", "try", "merge", "unique">>,                   \* V3: columns, merge, indexes over them
     <<"ensure", "ensure", "ensure">> >>                    \* V4, its triggers, the backfill

BrowserScripts  == << <<"ensure">>, <<"add", "add">> >>     \* V5, V6
SegmentScripts  == << <<"ensure">>, <<"add">>, <<"try", "ensure">> >>   \* V7, V8, V9
LibraryScripts  == << <<"ensure">>, <<"ensure">> >>         \* V10, V11
SampleScript    == << <<"add", "add">> >>                   \* V12

Scripts == BaseScripts \o BrowserScripts \o SegmentScripts \o LibraryScripts \o SampleScript

Made(k)     == {<<k, i>> : i \in DOMAIN Scripts[k]}
MadeUpTo(k) == UNION {Made(j) : j \in {j \in DOMAIN Scripts : j <= k}}

NotOpen == [pc |-> "closed", v |-> 0, i |-> 0]

\* A database that was left by a version that finished its scripts.
MigrationInit ==
  /\ version \in From
  /\ schema = MadeUpTo(version)
  /\ twins \in (IF version = 2 THEN BOOLEAN ELSE {FALSE})
  /\ opener = [p \in Openers |-> NotOpen]
  /\ skipped = FALSE
  /\ setbacks = 0

-----------------------------------------------------------------------------

Turns(p, state) == opener' = [opener EXCEPT ![p] = state]
Fails(p)       == Turns(p, [NotOpen EXCEPT !.pc = "failed"])
Runs(p, v)     == Turns(p, [pc |-> IF v = Latest THEN "open" ELSE "script", v |-> v, i |-> 1])

\* V1 is run at each open.
Begins(p) ==
  /\ opener[p].pc \in {"closed", "failed"}
  /\ schema' = schema \cup Made(1)
  /\ Turns(p, [NotOpen EXCEPT !.pc = "version"])
  /\ UNCHANGED <<version, twins, skipped, setbacks>>

\* SELECT value FROM schema_meta.
ReadsVersion(p) ==
  /\ opener[p].pc = "version"
  /\ CASE version = 0      -> Turns(p, [NotOpen EXCEPT !.pc = "fresh"])
       [] version > Latest -> Fails(p)
       [] OTHER            -> Runs(p, version)
  /\ UNCHANGED <<version, schema, twins, skipped, setbacks>>

\* INSERT of version 1: a conflict when the other process was there first.
StampsFresh(p) ==
  /\ opener[p].pc = "fresh"
  /\ IF version = 0 THEN version' = 1 /\ Runs(p, 1)
                    ELSE UNCHANGED version /\ Fails(p)
  /\ UNCHANGED <<schema, twins, skipped, setbacks>>

Script(p)    == opener[p].v + 1
InScript(p)  == opener[p].pc = "script" /\ Script(p) < Latest
NextStatement(p) == opener' = [opener EXCEPT ![p].i = @ + 1]

\* Executes, had the version been stamped with the first statement of a script.
ExecutesStamped(p) ==
  /\ InScript(p) /\ opener[p].i <= Len(Scripts[Script(p)])
  /\ schema' = schema \cup {<<Script(p), opener[p].i>>}
  /\ version' = IF opener[p].i = 1 THEN Script(p) ELSE version
  /\ NextStatement(p)
  /\ twins' = FALSE
  /\ UNCHANGED <<skipped, setbacks>>

\* One statement of a script before V12.
Executes(p) ==
  /\ InScript(p) /\ opener[p].i <= Len(Scripts[Script(p)])
  /\ \E object \in {<<Script(p), opener[p].i>>}, kind \in {Scripts[Script(p)][opener[p].i]} :
       /\ IF \/ kind = "add" /\ object \in schema
             \/ kind = "unique" /\ object \notin schema /\ (twins \/ <<3, 1>> \notin schema)
          THEN Fails(p) /\ UNCHANGED schema
          ELSE NextStatement(p) /\ schema' = schema \cup {object}
       /\ twins' = (twins /\ kind # "merge")
  /\ UNCHANGED <<version, skipped, setbacks>>

\* UPDATE schema_meta, whatever is stamped there by now.
Stamps(p) ==
  /\ InScript(p) /\ opener[p].i = Len(Scripts[Script(p)]) + 1
  /\ version' = Script(p)
  /\ Runs(p, Script(p))
  /\ UNCHANGED <<schema, twins, skipped, setbacks>>

\* V12 and its stamp are one transaction.
RunsLast(p) ==
  /\ opener[p].pc = "script" /\ Script(p) = Latest
  /\ IF Made(Latest) \cap schema = {}
     THEN schema' = schema \cup Made(Latest) /\ version' = Latest /\ Runs(p, Latest)
     ELSE Fails(p) /\ UNCHANGED <<schema, version>>
  /\ UNCHANGED <<twins, skipped, setbacks>>

\* Another connection keeps the lock for longer than busy_timeout.
MeetsLock(p) ==
  /\ setbacks < MaxSetbacks /\ setbacks' = setbacks + 1
  /\ InScript(p) /\ opener[p].i <= Len(Scripts[Script(p)])
  /\ IF Scripts[Script(p)][opener[p].i] \in {"try", "merge"}
     THEN NextStatement(p) /\ skipped' = TRUE
     ELSE Fails(p) /\ UNCHANGED skipped
  /\ UNCHANGED <<version, schema, twins>>

Killed(p) ==
  /\ setbacks < MaxSetbacks /\ setbacks' = setbacks + 1
  /\ opener[p].pc # "closed"
  /\ Turns(p, NotOpen)
  /\ UNCHANGED <<version, schema, twins, skipped>>

Quits(p) ==
  /\ opener[p].pc = "open"
  /\ Turns(p, NotOpen)
  /\ UNCHANGED <<version, schema, twins, skipped, setbacks>>

MigrationNext ==
  \E p \in Openers :
    \/ Begins(p) \/ ReadsVersion(p) \/ StampsFresh(p)
    \/ Executes(p) \/ Stamps(p) \/ RunsLast(p)
    \/ MeetsLock(p) \/ Killed(p) \/ Quits(p)

MigrationSpec == MigrationInit /\ [][MigrationNext]_migrationVars

-----------------------------------------------------------------------------
(* Properties. *)

\* Whoever was let in works on the complete schema, and at most one open job of
\* an event is left, however two openings and a kill were interleaved, though
\* the other opening may have set the version back meanwhile.  The one way out
\* is a lock that outlasts the timeout at a statement whose error is dropped.
ServedSchemaComplete ==
  \A p \in Openers :
    opener[p].pc = "open" /\ ~skipped => schema = MadeUpTo(Latest) /\ ~twins

\* "ADD COLUMN may already exist on partial upgrades" (migrate): an opening that
\* was interrupted or overtaken leaves a database that a later one, alone, can
\* open.
StaysOpenable ==
  version <= Latest =>
    \A k \in version + 1 .. Latest : \A i \in DOMAIN Scripts[k] :
      Scripts[k][i] = "add" /\ (\A p \in Openers : opener[p].pc \in {"closed", "failed", "open"})
        => <<k, i>> \notin schema

=============================================================================
