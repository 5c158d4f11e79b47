-------------------------- MODULE SelectionAssistant --------------------------
(***************************************************************************)
(* The selection popup and the quick composer: a mouse-up asks the app in   *)
(* front for its selection and shows the popup by it, the composer opens    *)
(* over any app, and both have a model or a local agent answer and the      *)
(* answer written back.  The queries, the main thread, the runs and the two *)
(* web pages go on at the same time: calls into the pages (events) arrive   *)
(* in order, the reply to a page's own call when it will, and the app to    *)
(* write into is one variable for both windows.                             *)
(***************************************************************************)
EXTENDS Integers, Sequences, FiniteSets

CONSTANTS FrontApps, NoApp, NoRun,
          MaxMouseUps, MaxRuns, MaxShows, MaxClosures   \* bounds

ASSUME AssistantAssumption == NoRun \notin Nat

VARIABLES epoch,        \* QUERY_EPOCH
          queries,      \* tasks of mouse-ups
          mainQueue,    \* closures handed to the main thread
          target,       \* PENDING_TARGET
          visible, page, \* the two windows and what their pages hold
          runs,         \* runs by number: who asked, over which app, how far
          tasks,        \* assistant_tasks
          events,       \* to the pages, in order
          replies,      \* runs whose number a page has not been told
          cancelled,    \* runs a page cancelled
          injected,     \* the last answer written back
          shows         \* composer openings so far

assistantVars == <<epoch, queries, mainQueue, target, visible, page, runs, tasks, events,
                   replies, cancelled, injected, shows>>

Windows  == {"popup", "composer"}
EmptyPage    == [over |-> NoApp, result |-> {}, streaming |-> FALSE, req |-> NoRun]
NotWritten == [answers |-> {}, into |-> NoApp]

AssistantInit ==
  /\ epoch = 0 /\ queries = {} /\ mainQueue = <<>>
  /\ target = NoApp
  /\ visible = [w \in Windows |-> FALSE]
  /\ page = [w \in Windows |-> EmptyPage]
  /\ runs = <<>> /\ tasks = {}
  /\ events = [w \in Windows |-> <<>>]
  /\ replies = {} /\ cancelled = {}
  /\ injected = NotWritten
  /\ shows = 0

Send(ws, e) == events' = [w \in Windows |-> IF w \in ws THEN Append(events[w], e) ELSE events[w]]
KeepRuns    == UNCHANGED <<runs, tasks, replies, cancelled, injected>>

-----------------------------------------------------------------------------
(* Mouse-ups and the popup window. *)

\* on_mouse_up: each supersedes the queries before it.
MouseUp(app) ==
  /\ epoch < MaxMouseUps /\ epoch' = epoch + 1
  /\ queries' = queries \cup {[epoch |-> epoch + 1, app |-> app, at |-> "query"]}
  /\ UNCHANGED <<mainQueue, target, visible, page, events, shows>> /\ KeepRuns

\* The last look at the epoch: a query that was superseded ends; the others found a
\* selection (or the clipboard had it), or nothing, as a plain click does.
LooksAtEpoch(q) ==
  /\ q \in queries /\ q.at = "query"
  /\ \/ q.epoch # epoch /\ queries' = queries \ {q}
     \/ /\ q.epoch = epoch
        /\ \E at \in {"show", "hide"} : queries' = (queries \ {q}) \cup {[q EXCEPT !.at = at]}
  /\ UNCHANGED <<epoch, mainQueue, target, visible, page, events, shows>> /\ KeepRuns

\* Reading the configuration and naming the app come before this.
ShowsPopup(q) ==
  /\ q \in queries /\ q.at = "show"
  /\ queries' = queries \ {q}
  /\ mainQueue' = Append(mainQueue, q.app)
  /\ UNCHANGED <<epoch, target, visible, page, events, shows>> /\ KeepRuns

\* hide_popup clears the target at once, the window goes when the main thread runs.
HidePopup ==
  /\ Len(mainQueue) < MaxClosures
  /\ target' = NoApp /\ mainQueue' = Append(mainQueue, NoApp)

HidesPopup(q) ==
  /\ q \in queries /\ q.at = "hide"
  /\ queries' = queries \ {q}
  /\ HidePopup
  /\ UNCHANGED <<epoch, visible, page, events, shows>> /\ KeepRuns

MainThreadRuns ==
  /\ mainQueue # <<>> /\ mainQueue' = Tail(mainQueue)
  /\ IF Head(mainQueue) = NoApp
     THEN visible' = [visible EXCEPT !["popup"] = FALSE] /\ UNCHANGED <<target, events>>
     ELSE /\ target' = Head(mainQueue)
          /\ visible' = [visible EXCEPT !["popup"] = TRUE]
          /\ Send({"popup"}, [kind |-> "selection-changed", of |-> Head(mainQueue)])
  /\ UNCHANGED <<epoch, queries, page, shows>> /\ KeepRuns

\* composer::toggle: hidden, it keeps its run and the target.
ToggleComposer(app) ==
  /\ shows < MaxShows
  /\ IF visible["composer"]
     THEN visible' = [visible EXCEPT !["composer"] = FALSE] /\ UNCHANGED <<target, events, shows>>
     ELSE /\ visible' = [visible EXCEPT !["composer"] = TRUE] /\ shows' = shows + 1
          /\ target' = app
          /\ Send({"composer"}, [kind |-> "composer-shown", of |-> app])
  /\ UNCHANGED <<epoch, queries, mainQueue, page>> /\ KeepRuns

-----------------------------------------------------------------------------
(* Runs. *)

\* assistant_run: the task is spawned, then its handle is stored, then the page is
\* told the number.  An agent's answer goes to the popup only.
Starts(w, agent) ==
  /\ Len(runs) < MaxRuns
  /\ visible[w] /\ ~page[w].streaming
  /\ w = "popup" => page[w].over # NoApp
  /\ page' = [page EXCEPT ![w].result = {}, ![w].streaming = TRUE]
  /\ runs' = Append(runs, [by |-> w, over |-> page[w].over, agent |-> agent, at |-> "running"])
  /\ replies' = replies \cup {[run |-> Len(runs) + 1, stored |-> FALSE]}
  /\ UNCHANGED <<epoch, queries, mainQueue, target, visible, tasks, events, cancelled, injected, shows>>

Stores(r) ==
  /\ ~r.stored
  /\ tasks' = tasks \cup {r.run}
  /\ replies' = (replies \ {r}) \cup {[r EXCEPT !.stored = TRUE]}
  /\ UNCHANGED <<epoch, queries, mainQueue, target, visible, page, runs, events, cancelled, injected, shows>>

ReplyArrives(r) ==
  /\ r.stored
  /\ replies' = replies \ {r}
  /\ page' = [page EXCEPT ![runs[r.run].by].req = r.run]
  /\ UNCHANGED <<epoch, queries, mainQueue, target, visible, runs, tasks, events, cancelled, injected, shows>>

Listeners(r) == IF runs[r].agent THEN {"popup"} ELSE Windows

\* A delta, and the end after it; the end of an HTTP run takes its handle away.
Tells(r) ==
  /\ runs[r].at = "running"
  /\ runs' = [runs EXCEPT ![r].at = "told"]
  /\ Send(Listeners(r), [kind |-> "assistant-stream", of |-> r])
  /\ UNCHANGED <<epoch, queries, mainQueue, target, visible, page, tasks, replies, cancelled, injected, shows>>

Ends(r) ==
  /\ runs[r].at \in {"running", "told"}
  /\ runs' = [runs EXCEPT ![r].at = "ended"]
  /\ tasks' = IF runs[r].agent THEN tasks ELSE tasks \ {r}
  /\ Send(Listeners(r), [kind |-> "assistant-done", of |-> r])
  /\ UNCHANGED <<epoch, queries, mainQueue, target, visible, page, replies, cancelled, injected, shows>>

-----------------------------------------------------------------------------
(* The pages. *)

\* cancelInFlight with assistant_cancel: an agent's process is not stopped.
Cancels(w) ==
  IF page[w].req = NoRun THEN UNCHANGED <<runs, tasks, cancelled>>
  ELSE \E r \in {page[w].req} :
         /\ tasks' = tasks \ {r}
         /\ cancelled' = cancelled \cup {r}
         /\ runs' = IF r \in tasks /\ ~runs[r].agent /\ runs[r].at # "ended"
                    THEN [runs EXCEPT ![r].at = "aborted"] ELSE runs

\* Hears, had the page not compared the number of a delta with its run's.
HearsAny(w) ==
  /\ events[w] # <<>> /\ Head(events[w]).kind = "assistant-stream"
  /\ page' = [page EXCEPT ![w].result = @ \cup {Head(events[w]).of}]
  /\ UNCHANGED <<runs, tasks, cancelled>>

\* A delta or an end of a run that is not the page's own is dropped.
Hears(w) ==
  /\ events[w] # <<>> /\ Head(events[w]).kind = "assistant-stream"
  /\ page' = IF Head(events[w]).of = page[w].req
             THEN [page EXCEPT ![w].result = @ \cup {Head(events[w]).of}] ELSE page
  /\ UNCHANGED <<runs, tasks, cancelled>>

HearsEnd(w) ==
  /\ events[w] # <<>> /\ Head(events[w]).kind = "assistant-done"
  /\ page' = IF Head(events[w]).of = page[w].req
             THEN [page EXCEPT ![w].req = NoRun, ![w].streaming = FALSE] ELSE page
  /\ UNCHANGED <<runs, tasks, cancelled>>

\* The popup cancels its run first, the composer does not.
HearsShown(w) ==
  /\ events[w] # <<>> /\ Head(events[w]).kind \in {"selection-changed", "composer-shown"}
  /\ IF w = "popup" THEN Cancels(w) ELSE UNCHANGED <<runs, tasks, cancelled>>
  /\ page' = [page EXCEPT ![w] = [EmptyPage EXCEPT !.over = Head(events[w]).of,
                                    !.req = IF w = "popup" THEN NoRun ELSE page[w].req]]

PageHears(w) ==
  /\ Hears(w) \/ HearsEnd(w) \/ HearsShown(w)
  /\ events' = [events EXCEPT ![w] = Tail(@)]
  /\ UNCHANGED <<epoch, queries, mainQueue, target, visible, replies, injected, shows>>

Stops(w) ==
  /\ w = "popup" /\ visible[w] /\ page[w].streaming
  /\ Cancels(w)
  /\ page' = [page EXCEPT ![w].req = NoRun, ![w].streaming = FALSE]
  /\ UNCHANGED <<epoch, queries, mainQueue, target, visible, events, replies, injected, shows>>

Closes(w) ==
  /\ visible[w]
  /\ Cancels(w)
  /\ page' = [page EXCEPT ![w].req = NoRun]
  /\ IF w = "popup" THEN HidePopup /\ UNCHANGED visible
     ELSE target' = NoApp /\ visible' = [visible EXCEPT ![w] = FALSE] /\ UNCHANGED mainQueue
  /\ UNCHANGED <<epoch, queries, events, replies, injected, shows>>

\* The button is there when the page has a result, does not stream and knows an app;
\* assistant_inject writes into the target of the moment and hides the popup.
Injects(w) ==
  /\ visible[w] /\ ~page[w].streaming /\ page[w].result # {} /\ page[w].over # NoApp
  /\ target # NoApp
  /\ injected' = [answers |-> page[w].result, into |-> target]
  /\ HidePopup
  /\ UNCHANGED <<epoch, queries, visible, page, runs, tasks, events, replies, cancelled, shows>>

AssistantNext ==
  \/ \E app \in FrontApps : MouseUp(app) \/ ToggleComposer(app)
  \/ \E q \in queries : LooksAtEpoch(q) \/ ShowsPopup(q) \/ HidesPopup(q)
  \/ MainThreadRuns
  \/ \E w \in Windows : PageHears(w) \/ Stops(w) \/ Closes(w) \/ Injects(w)
  \/ \E w \in Windows, agent \in BOOLEAN : Starts(w, agent)
  \/ \E r \in replies : Stores(r) \/ ReplyArrives(r)
  \/ \E r \in DOMAIN runs : Tells(r) \/ Ends(r)

AssistantSpec == AssistantInit /\ [][AssistantNext]_assistantVars

-----------------------------------------------------------------------------
(* Properties. *)

\* Every answer is sent to both windows, late ones of cancelled runs too: a page
\* shows nothing of a run of the other one, and nothing more of a run it cancelled.
OwnAnswersOnly ==
  [][\A w \in Windows : \A r \in page'[w].result \ page[w].result :
       runs[r].by = w /\ r \notin cancelled]_assistantVars

\* "Write the assistant result back into the app the text was selected from"
\* (assistant_inject): an answer of the popup that is written is one over the app it
\* is written into.
InjectsWhereSelected ==
  \A r \in injected.answers : runs[r].by = "popup" => runs[r].over = injected.into

=============================================================================
