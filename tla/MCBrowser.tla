------------------------------ MODULE MCBrowser ------------------------------
(***************************************************************************)
(* Small instances of the two sides of the browser events: the extension   *)
(* with its queue up to the daemon's answer, and the daemon's tables with  *)
(* the importer that reads them.  They meet in a batch that the first part *)
(* may send twice and the second stores once, so a behaviour runs one part *)
(* and leaves the other where it started.                                  *)
(***************************************************************************)
EXTENDS BrowserIntake, BrowserVisits, TLC

CONSTANTS o1, o2, f1, f2, v, w, page, text

MCObs     == {o1, o2}
MCBody    == [o \in MCObs |-> 1]
MCFlushes == {f1, f2}

\* Two visits of one page, the first of them read and closed, and a frame of the screen.
Event(id, kind, visit, ts) ==
  [id |-> id, src |-> "browser", kind |-> kind, visit |-> visit, ts |-> ts, url |-> page,
   hash |-> None, active |-> None, visible |-> FALSE, scroll |-> None]
MCObservations ==
  {Event(1, "navigation", v, 1), [Event(2, "ready", v, 2) EXCEPT !.hash = text, !.scroll = 1],
   [Event(3, "closed", v, 3) EXCEPT !.active = 2, !.visible = TRUE, !.scroll = 2],
   Event(4, "navigation", w, 4), [Event(5, "frame", None, 5) EXCEPT !.src = "screen", !.url = None]}

VARIABLE part

browserVars == <<part, vars, visitsVars>>

BrowserInit == part \in {"extension", "tables"} /\ Init /\ VisitsInit

ExtensionAlone(A) == part = "extension" /\ A /\ UNCHANGED <<part, visitsVars>>

BrowserNext ==
  \/ ExtensionAlone(Next)
  \/ /\ part = "tables" /\ VisitsNext
     /\ Len(inserted') + wipes' <= MaxInserts      \* a wipe takes an insertion's place
     /\ UNCHANGED <<part, vars>>

\* An alarm starts a flush every 30 seconds, and calls come to an end.
BrowserFairness == \A f \in Flushes : WF_browserVars(ExtensionAlone(FlushStep(f)))

BrowserSpec == BrowserInit /\ [][BrowserNext]_browserVars /\ BrowserFairness

=============================================================================
