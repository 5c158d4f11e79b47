# Verification of Lumen

Lumen records what happens on one computer (frames of the screen, the window in
front, browser pages, keys and clicks, microphone audio), keeps it in a local
SQLite database and a tree of content-addressed blobs, and turns it into
searchable text, time accounting, history cards, a daily roast and replayable
skills. This directory holds TLA+ modules that model its core logic, the TLC
configurations that check them on small instances, and TLAPS proofs of the
theorems that hold for every instance.

Paths below are relative to `src/crates/` unless they begin with `apps/`,
`extensions/` or `docs/`. `PROJECT.json` maps every definition to the lines it
models, lists every component with its status, every hazard with its line and
the properties that would catch it going wrong, and every theorem worth knowing.

## 1. The system

### Components

| component | source | state | operations that change it |
| --- | --- | --- | --- |
| job queue | `lumen-store/src/sqlite.rs`, `schema.rs` | `jobs` rows with status, attempts, `available_at`, `updated_at`; a unique index over open rows | enqueue, claim, complete, reclaim, skip, prune, wipe |
| OCR worker | `lumen-process/src/ocr_worker.rs` | the claimed job, a circuit breaker | tick, claim one, process, record the outcome, settle |
| OCR helper | `lumen-process/src/ocr_helper.rs` | a process per picture with two pipes | ask, answer, exit, time out, crash, hang |
| AX and ASR workers | `lumen-process/src/ax_worker.rs`, `transcribe_worker.rs` | a batch claimed at once | tick, process each, settle |
| blob store | `lumen-store/src/blob.rs`, `sqlite.rs` | files named by content hash, `artifacts` rows | put, limited batch, prunes, sweep, wipe |
| retention | `sqlite.rs` (`maintenance_with_retention`, `enforce_*`, `trim_*`) | the store as a pass of tiers sees it | age prune, blob quota, total quota, vacuum, sweep |
| search index | `sqlite.rs` (`insert_derived`, `upsert_ocr_doc_tx`, `reindex_ocr_docs`) | `derived` rows, one `ocr_docs` row per event | write, rebuild, delete |
| categories | `categorization.rs`, `enrichment.rs`, `rule_engine.rs` | rules, catalog, lookup cache, the category of a segment | classify, save rules, look up, re-apply |
| activity and time | `sqlite.rs` (`project_activity_event`, `materialize_activity_sample`), `time_accounting.rs` | samples, segments, manual entries | insert, replay, add and delete entries, report |
| schema | `sqlite.rs` (`migrate`) | the version stamp, tables and columns | one statement after another |
| sessions and capture | `lumen-sources-media` (`session.rs`, `orchestrator.rs`, `audio.rs`, `interaction.rs`), `lumen-daemon/src/main.rs` | the open session, the voice gate, the coalescer, a bounded queue | poll, capture, bind, close, drop on backpressure, persist |
| browser intake | `extensions/browser`, `lumen-sources-browser`, `control_server.rs` | the extension's queue, archive and settings; the daemon's events and `browser_visits` | archive, enqueue, flush, acknowledge, pause; accept, project, export |
| history, roasts, skills | `history.rs`, `slot_*.rs`, `roast.rs`, `skill.rs`, `lumen-daemon/src/main.rs`, `summarizer.rs` | cards, claims in `kv`, archived roasts, the skills table | fold, overlay, narrate, claim, promote, switch, suggest, replay |
| computer use | `lumen-cua`, `apps/desktop/src-tauri/src/cua.rs` | the socket path, the driver child, gates and focus lock, the installed bundle | serve, ensure, replay, install |
| desktop shell | `apps/desktop/src-tauri` | the daemon it keeps, stop flag, restart budget, `navi.toml`, popup and composer | start, stop, reload, supervise, ask a model, write back |
| control plane | `lumen-daemon/src/control_server.rs`, `mcp.rs`, `lumen-api` | the runtime pause, requests | pause, wipe, ingest, export, query |

### How they interact

- **Capture to store.** The screen loop polls the front window and takes frames,
  the input loop drains a tap; both bind to one session in memory. A poll writes its
  session transition itself, a capture sends a batch through a bounded channel to the
  persist task, which writes the transition, each frame with its artifact, and then
  enqueues its jobs. The microphone loop stores a trunk per flush and queues it for
  transcription.
- **Store to workers.** Workers see jobs through the `jobs` table only: they claim, run
  an engine, write a `derived` row with its search row, and settle the job by its id.
  Nothing ties the job, the derived row and the event by a foreign key.
- **Maintenance.** One task runs every ten minutes through the tiers of
  `maintenance_with_retention` and deletes jobs, artifacts, events and files under the
  workers and beside the intake. Others categorise, fold cards and claim the roast.
- **Control plane.** An HTTP server pauses, wipes, takes the extension's batches, lets
  importers export and answers queries on the same store.
- **Two processes, one database.** The desktop shell opens the database a second time;
  the mutexes of the daemon's store do not hold it back.
- **Processes that outlive each other.** The shell starts the daemon and the
  computer-use server, the daemon starts OCR helpers, the server starts a driver. Files
  and sockets are what tells them of each other.
- **The extension.** A service worker whose handlers interleave at every `await` and
  which the browser may kill at any moment.

Shared state is guarded by the store's connection mutex (held per statement or
transaction), the `blob_intake` mutex (held over a file operation and its rows) and the
`session_persist` mutex (held over a bind and its write).

### What is hard, and what correct means

| component | what makes it hard | what makes it correct |
| --- | --- | --- |
| job queue and its workers | completions by id that arrive late or never, crashes between two statements, retries, a circuit that must not use up attempts, deletions under the worker | one open job per event; a worker settles its own row; done means searchable; attempts are bounded; what is settled stays so; every job settles |
| OCR helper | it crashes, hangs after its answer, or outlives the daemon | no process is left behind but by a death; a text is earned by a helper that saw the whole picture |
| blob store | files and rows cannot change together; contents are shared; the sweep works from a snapshot | a row that stays keeps its file; orphans go; a limited batch fits |
| retention | an estimate that intake and wipes make stale; batches that free nothing | trims only over the target, never recent history, reaches the target |
| search index | one row per event with two writers; a rebuild from another process | no row without its source, no text without its row |
| sessions | the order of a queue against direct writes; drops; stops and crashes | an open row belongs to an open session or is a named leak; frames name a session that has a row; a gated session ends |
| audio | sessions cut by silence, length, pause and disconnect; times of flushes | every voiced quantum is in one trunk or in a named loss, in order; the exported time line drifts by a bounded amount |
| input | drained later than typed; the gate, the window and the session move | every key and click stored once, where it was done, or given up for a named reason |
| activity and time | samples late, repeated, reordered, lost; gates, restarts, clock changes, overlapping lifetimes | the projection is a function of the stored samples; every moment counts once; the reports agree |
| browser | overlapping flushes, lost answers, a full queue, a killed worker; rowids that are given again | nothing is lost in silence; what is shown as synced is stored; visits are a replay of what was inserted; an importer misses nothing but for a reused rowid |
| history, roasts, skills | calls of minutes between a read and a write; wipes and crashes between; a menu that is 30 s old | a narrative stays and is paid for a bounded number of times; one roast a day; a skill the user switched off is neither offered nor run |
| computer use | the user moves between gates and input; servers and drivers that start beside each other; a killed installation | a replay acts behind gates that are still true; one server at the path; a bundle that works stays |
| desktop shell | commands, supervisor and health monitor with no lock around them; two windows and one write-back target | a stop and a pause hold; a reload is not a crash; a window shows its own answers |
| schema | two processes migrate at once; kills between two statements | whoever was let in works on the complete schema |

## 2. The plan

The modules were built in the order of how much depends on them: the jobs table and
the OCR pipeline; blobs, search index and retention; sessions and activity; the
browser's transport; then the other workers, the audio and input loops, the reports, the
cards and what they are written from, migrations, the desktop and computer use. All of
these stand. Each began as a module with its properties and a passing run; components
that share no state were then composed into eight passing runs, which keeps the suite
at twelve runs of at most five minutes on two cores.

Abstract specifications: `WorkQueue`, an item as a register (absent, open, settled),
which `OcrPipeline` and `BatchWorker` implement (`ImplementsQueue` in `JobTable`; the
table alone does not refine it, since a late completion may open a settled row again,
which is the workers' knowledge of their rows at work).

Left of the plan: parts of components that `PROJECT.json` marks "partly" (page evaluation
and pairing in the browser, the legacy samples of the activity projection, the pixel-hash
window, the layout of a transcript), and the proof of `DayAccounted` and of the whole of
`FactsHold` (section 5).

## 3. The modules and the code

In every module a step is what runs under one lock or between two awaits. Operators that
differ from the code by one mistake (`TickNoReclaim`, `PruneRowAlone`, ...) stand before the
definition they vary and are used by no specification: they show which mistake each
property would catch.

### Jobs and workers

- **JobTable.** The `jobs` table of one kind. A row is `[status, event, attempts, due, aged]`:
  `due` stands for `available_at <= now`, `aged` for an `updated_at` behind the cutoff its
  status is compared with. `Enqueue`, `Claim`, `Complete`, `ReclaimStale`, `SkipOpen`,
  `PruneCompleted` and `DeleteAll` are one SQL statement or transaction each; the partial
  unique index over open rows is the guard of `Enqueue` and the failing branch of
  `Complete`.
- **OcrPipeline** EXTENDS it with the persist task (`PersistFrame`, `EnqueueOcr`, a crash
  possible between), the worker as one process whose `pc` follows `tick_once` and
  `process_job` (`Tick`, `ClaimNext`, `CheckDerived`, `LookUpArtifact`, `ReadBlob`,
  `EngineReturns`, `WriteText`, `FinishJob`), the deletions under it (`PruneMedia`,
  `TrimEvent`, `PruneJobs`, `Wipe`), `LoseCompletion` (the dropped error of `complete_job`),
  `Crash` and `Boot`. The circuit's count is capped at the threshold, beyond which the code
  does not look at it.
- **OcrHelper.** One process per picture, from the spawn (`Ask`) over request, answer and exit
  to the reaping, with the timeout that kills it; the helper may crash or hang anywhere, the
  daemon be stopped or die. All helper errors are retryable, so the permanent and unavailable
  outcomes of `EngineReturns` come only from the diagnostic engine in the daemon's own process.
- **BatchWorker.** `AxWorker` and `TranscribeWorker` as one machine: `Claims` takes a batch,
  `LooksUp`, `Writes`, `Answers` and `Settles` go through it, with reclaims, stops, deaths and
  the same deletions. Each event has a sort that decides what its processing can find.
- **WorkQueue.** The abstract queue of section 2.

### The store

- **BlobStore.** `files[b]` is absent, fresh (modified within the hour) or old; `rows[a]` the
  content an artifact row names. `op` is the holder of `blob_intake` with what it still has to
  do: intakes write files and then commit rows; a prune unlinks files while its transaction is
  open; the sweep unlinks what its snapshot does not mention and the hour does not protect; a
  wipe deletes rows and then the tree. `TrimEvent` is the one deletion that takes the
  connection only. `cut` remembers the blobs an interrupted prune unlinked under rows that
  survived, the one loss the code has.
- **Retention.** A pass of `maintenance_with_retention` as a program counter over its tiers,
  `PruneAged`, `BlobQuota`, `Measure`, `TrimMedia` and `TrimMetadata` batch by batch,
  `Vacuum`, `Sweep`, with `Capture` and `WipeStore` between its steps. Each step is atomic here;
  `BlobStore` opens the ones that touch files. Sizes are counted in cells.
- **SearchIndex.** `derived[e][k]` and the one search row `doc[e]`. `Reindex` is the rebuild as the
  daemon runs it, `BeginReindex` and `EndReindex` the same code in the desktop's process, where
  its SELECT and its transaction are two steps; `raced` remembers what changed in between.
- **Categories.** The order of the classifier (`Classify`: the least rule that matches), the
  user's rules, the catalog file, the lookups and their cache, and the two passes that classify
  the past again. Title rules match through the bundle's field, as in the code.
- **Migration.** Every statement of `migrate` (`Scripts`), the version it stamps after each
  script, two processes at once, kills and locks that outlast the busy timeout. The nine
  columns of V6 are two.

### Capture

- **Sessions.** `binder` is the open session of `SharedSessionBinder`. The screen loop goes
  through `BeginPoll`, `PollBinds`, `GateCapture`, `BindCapture`, `QueueBatch`, `CloseIdle`; the
  input loop (`HidGate`, `HidBind`) opens a session when there is none; the persist task takes a
  batch, writes its transition and then its frames. `QueueBatch` drops a batch when the
  channel is full. `Stop`, `Exit`, `Crash` and `Start` end and begin a run. `lost`, `stale` and
  `rowless` are history variables that name the leaks the code has.
- **AudioCapture.** The voice gate with its pre-roll and padding, trunks cut by silence and by
  length, audio sessions, the loop that persists trunks, disconnect and stop; then the export,
  which sorts a session's trunks and lays them on one time line (`Chunks`, `Ends`, `Segments`).
  Sound comes in quanta; a body is the sequence of the quanta a trunk holds. Whether a quantum
  is voice is a choice.
- **HidInput.** The tap, the 50 ms tick that drains it (`TickDrains`, one `Pushes` per raw press,
  `Persists` one event at a time), the coalescer that joins keys to texts and a press and a
  release to a click, and the counters flushed on a long tick. What a handler sees of flags and
  windows is a choice; the sessions are those of an instance of `Sessions`.
- **ActivityTime.** `producer` is `ActivityAccumulator`. `PollOpen` emits a sample on a change or a
  heartbeat, `PollGated` and `Restart` begin another stream, `SetClock` moves the wall clock.
  `Deliver` is `project_activity_event` with a sample that arrives whenever it likes; `Project`
  touches the new sample's interval and its predecessor's.
- **TimeReports.** The rows of `activity_segments`, manual entries among them, and everything
  that is computed of a day when it is read: `Loaded`, `Effective` (the sweep that gives each
  moment to one row), hours, categories, scenes, cards, contexts, ranges. `Locked` stands for the app of a
  locked screen, whose samples are always idle; `Nameless` for no app, where nobody is active nor
  counted away.

### What is made of it

- **HistoryCards.** One tick of the task that folds segments into cards (`ReadsFold`,
  `ReadsStored`, `ReadsDocuments`, `WritesBack`), asks for a narrative (`ListsPending`, `Answers`,
  `Applies`, `Declines`) and for a workflow (`ListsUnchecked`, `Checks`, `Records`), with a wipe, a
  new segment or a death between any two steps.
- **SlotActions.** A slot's input rows folded one row per step into a trace (a focus where the
  window changes, runs merged, click labels from the nearest accessibility walk of the same app),
  cut to `MaxFolded`; then the model's proposal sanitized, or the trace itself. Relative
  positions, the host and the verbs are left out.
- **SlotEvidence.** The readings of a slot, one kept for each window and beginning of text, and the
  lines they are compressed to.
- **DailyRoast, DayRoast.** The claim of a day, the automatic roast and the one asked for; and the
  facts of the day it is written from (`day_roast_summary`). Of the titles only those that have a row that
  day, are long enough and were shown longest are told (`Titles`), so that a click may go untold;
  which titles are long enough is quantified over, and which of equals are taken is left open.
- **SkillLibrary.** Promotion, the switch, suggestions with cooldown and limit, the menu that shows
  what a query returned up to 30 s ago, replay and deletion.

### The browser

- **BrowserIntake.** `PassGate`, `Archive`, `Enqueue` are the stretches of `enqueueEvent` between its
  awaits. A flush is `idle`, `begun`, `sent`, `answered`, `settled`, `marked`; several may be
  under way, as nothing serialises `flushQueue`. `Accept`, `Refuse`, `Fail` are
  `post_browser_batch`: all of a batch is stored, duplicates apart, or none of it. `dropped` holds
  what `droppedEvents` counts; a gap's id is the count it was created with.
- **BrowserSettings.** `updateSettings` as a `Read` and a `Write` of the whole record, for its four
  callers.
- **BrowserVisits.** The daemon's side. `AppendBatch` inserts what is new of a request, with the
  rowids SQLite gives (`NextRowid`: the highest of the table and one, so a trimmed or wiped
  rowid comes again), and projects it (`Projected`, `Replayed`). `TrimMetadata` and `WipeVisits`
  delete. The importer's export takes its rows under one lock (`BeginExport`) and looks up the
  visit of each closing event under another (`LookUpVisit`); its answer may be lost
  (`EndExport`).

### Desktop and computer use

- **ObserveShell.** The commands of the user interface, the supervisor and the health monitor as
  threads that all run `observe_start_inner`; they meet at the child slot, the stop flag, the
  restart budget and the configuration file, which is written in two steps. The supervisor reads the
  stop flag and then probes, counts and starts; the monitor reads the stop flag, then the pause, probes,
  and takes from the budget, each in a step of its own (`MonitorLooks`, `MonitorSeesPause`, `MonitorSeesNone`,
  `MonitorAcquires`), and neither reads a flag twice. So a stop, or a pause, that falls between is undone in the
  model as in the code. `clean` says that this did not happen to the command: no automatic start overlapped
  it, the daemon was the shell's own, at the moment the flag was set neither of them was past its look (for a
  pause, the monitor was not; a resume may be overtaken, its setting is already in the file). `early` holds who had looked
  before a reload set the flag: only they may take from the budget during it. What the monitor awaits, the count of
  events, is merged with its probe, as only the monitor reads it.
- **SelectionAssistant.** Mouse-ups, the popup and the composer, runs of a model or an agent, the
  events into the two pages (in order) and the replies to a page's own calls (when they will),
  cancellation and the write-back.
- **ActDriver, InputReplay, CuaServer.** The driver child behind `ensure`; a replay with
  its four gates, focus lock, stop lines and policy; servers that claim one socket path in
  several steps, and restarts. Through the driver a replay asks and waits (`Ensures`, `DriverStep`,
  `CallReturns`): `act_driver::call` runs `Command::output()` without a limit, so the answers are the
  environment's, a failing `ensure` ends the replay, and a failing call is told as a refused step.
- **CuaInstall.** The installation of the bundle move by move. Every copy, move, removal and verification
  may fail, the ones whose error the code ignores too; a removal that fails or is killed may leave a ruin, which
  a rename does not replace unless it is empty. The backup's name holds the process id, so that `open_lenient`, which
  prepares a second time in the same process, takes what `open` could not move back for stale (`ClearsStale`).

The MC modules compose parts that share no state at this grain: a variable `part` says which of
them a behaviour runs, the others stay where they started.

## 4. What is checked

| run | module, configuration | properties | what it shows |
| --- | --- | --- | --- |
| `ocr` | `MCOcrPipeline`, `OcrPipeline.cfg` | `RowsAccounted` `DoneHasText` `StrandedOnlyByFaults` `RestingRowsUntouched` `EveryJobSettles` `HelpersHold` | the worker settles only rows it holds, done means searchable, nothing is stranded without a fault, settled rows and the cooldown are respected, every open job is settled; no helper is left running but by a daemon that died, every call ends |
| `storage` | `MCStorage`, `Storage.cfg` | `SurvivorsHaveBlobs` `HistoryCatchesUp` `LimitedIntakeFits` `OrphansSwept` `TrimsAsPromised` `CapReached` | no operation takes the file of a row that stays, a limited batch fits, orphans go, a pass trims only what it may and reaches its target, a lookup reaches the past |
| `capture` | `MCCapture`, `Capture.cfg` | `SessionsAccounted` `VoiceKept` `ExportDriftBounded` `InputAccounted` | open rows and stored frames are accounted for, voice is in a trunk or a named loss, the exported time line drifts by a bounded amount, every key and click is stored once and where it was done |
| `loops` | `MCLoops`, `Loops.cfg` | `BatchAccounted` `ImplementsQueue` `BatchSettles` `GatedSessionEnds` | the batch workers hold what they settle, implement the abstract queue and settle every job; a gated session ends though the persist task hangs |
| `projections` | `MCProjections`, `Projections.cfg` | `IndexTrue` `ProjectionIsFunction` `TimeCountedOnce` `DayAccounted` `FactsHold` `AttemptedOnce` `ServedSchemaComplete` `NarrativesKept` | what is derived of the rows is true to them, and what two processes open is complete |
| `desktop` | `MCDesktop`, `Desktop.cfg` | `CommandsKept` `UserHasTheSwitch` `OwnAnswersOnly` | a stop or pause that nothing overlaps and that nobody overtakes between look and start holds, a reload is not taken for a crash, a switched-off skill is neither offered nor run, a window shows its own answers |
| `browser` | `MCBrowser`, `Browser.cfg` | `LossesTold` `ArchiveTrue` `VisitsHold` `QueueDrains` | no silent loss, a true archive, visits and importer, and with open gates the queue drains |
| `computer_use` | `MCComputerUse`, `ComputerUse.cfg` | `DriversTrue` `ForegroundKept` `ServerTrue` `InstallSafe` `ReplaysEnd` | drivers are tracked, replays keep to their gates and end unless the driver never answers, one server at the path, a bundle that worked stays unless both the update and the way back fail |
| `browser_pause` | `BrowserSettings` | `PauseHolds`, violated | section 7 |
| `category_precedence` | `MCStorage`, `Categories_rules.cfg` | `UserRulesFirst`, violated | section 7 |
| `migration` | `Migration`, `Migration_partial.cfg` | `StaysOpenable`, violated | section 7 |
| `injection` | `SelectionAssistant`, `SelectionAssistant_inject.cfg` | `InjectsWhereSelected`, violated | section 7 |

### Bounds, and why they are enough

- `ocr`: two jobs and two events let a row be deleted and its event enqueued again while the
  worker holds the first; two attempts let one retry end in `dead`; a threshold of two lets
  the circuit open with a pending job left; one fault suffices for a stranded row, a lost blob
  or a repeated job. Two calls of the helper and one death or stop of the daemon meet in
  every order.
- `storage`: three rows over three contents, one of them of size two, with a limit of two, give two
  rows that share a file and a third that does not; two faults let a crash follow an interrupted
  prune. In the pass an audio content of four against a cap of four and a target of three makes every
  tier bind, and three events let a batch leave one behind. Two segments, two lists of
  rules and one catalog reach every rank of the classifier; one death and one edit.
- `capture`: two apps, one of them blocked, and two sessions (an old one and its successor) over a
  queue of one and a second run or one failed write. Seven quanta of sound over trunks of three,
  silence of two, a pre-roll of one and recordings of four reach every cut. Three presses of four kinds
  in two windows, two sessions, one refused write. (A screen is not locked and paused at once.)
- `loops`: one session and one run, so that a behaviour cannot go on opening sessions; two jobs in a
  batch of two, two attempts, one break.
- `projections`: two events and two kinds of body; two windows, two lifetimes, four samples in four
  seconds, a gap of three; three rows in two days of which the first ends at midnight between two
  hours, with a minute that comes twice; three rows and input events for the facts of a day, of whose two titles one is told; cards
  with one workflow and a wipe or a death; two days, two roasts, two upsets; two processes and
  every version found; four input rows over two sets of walks; three readings.
- `desktop`: two mouse-ups, one show and one closure, at most three of them together, and one run; two
  daemons, one restart in the window, one fault (a crash, a failed start, a slow boot, an end of the shell,
  or a restart that left the window), one tick until the monitor heals;
  two skills and three hours.
- `browser`: one byte of room for two one-byte bodies makes the second observation evict the first,
  also while the first is in a batch; two flushes overlap in every way; one fault. In the tables five
  observations (a visit opened, read and closed, another visit, a frame of the screen), batches and
  pages of two, and four insertions, one of whose places a wipe may take.
- `computer_use`: three drivers for two callers and one crash; two replays of two steps beside the
  user; three servers, so that two start while one is stopped; three troubles in an
  installation: a rejected bundle, a failing way back, and one more in the second preparation.

The permuted pair of `Projections.cfg` and `Desktop.cfg` is used by parts that share no
state, and everything checked there is safety. `Browser.cfg`, `Desktop.cfg` and
`SelectionAssistant_inject.cfg` turn the deadlock check off, because their bounds (insertions, mouse-ups)
end the model where the program goes on; the others keep it.

### Fairness

- OCR: the worker's loop, cooldowns, backoffs and the supervisor's restart are weakly fair; the timeout
  of a helper call passes. Captures, maintenance, wipes and crashes are not owed, and
  nothing is owed by a helper.
- Storage: the holder of the mutex runs on, a pass runs to its end, clocks advance, the daemon
  comes back. The sweep ends every ten-minute pass while other operations keep taking the mutex, so its
  turn needs strong fairness: they hold it for the length of one intake or pass and leave it free
  between two, and the sweep waits for it in every pass.
- Loops: the loops' steps, idle time and backoffs are weakly fair; the focus tick is strongly fair,
  since the `select!` serves both tickers. Nothing is assumed of the persist task, and nobody owes
  the worker an engine.
- Browser: an alarm starts a flush every thirty seconds and survives the service worker; calls end,
  with an answer or an error.
- Computer use: the thread that runs a replay goes on. Nothing is owed by the driver: `ReplaysEnd` says that a
  replay ends if it does not wait for the driver for ever.

### Stated, not run

Type invariants of proved modules are part of the proofs. Stated beside them, because the code is
known to violate them (section 7) or because a run's property contains them: `TextHasEvent`,
`ClosedStaysClosed`, `OcrTextQueryable`, `PauseStops`, `ClickRunsOffer`, `VisitsRebuildable`, `DomainsMerged`,
`ActiveWithinApps`, `CountsOfTheInterval`, `SwitchesAtTheBoundary`, `ViaTrue`, `OcrWrittenOnce` (proved), `QueueFits`.

## 5. What is only model-checked

- **Liveness**, which the prover cannot treat: `EveryJobSettles`, `OrphansSwept`, `CapReached`,
  `BatchSettles`, `GatedSessionEnds`, `QueueDrains`, `ReplaysEnd`, and the half of `HelpersHold` that
  says that every call ends.
- **`DayAccounted`**: the reports of a day are folds over sorted sequences and sums over sets, whose
  values need induction over data.
- **`FactsHold`** in part: the facts of a day, the sums of a trace (`TraceAccounts`), `SkillReplayable`,
  `LinesTrue` and `ShownTrue` are sorts, folds and sums. Its other parts are proved (`TraceSafe`,
  `OneReadingKept`).

## 6. What is proved

Every safety property of the passing runs but those two holds for every value of the
constants, under the named assumptions of the modules: `OcrAssumption`, `HelperAssumption`, `BatchAssumption`,
`BlobAssumption`, `RetentionAssumption`, `CategoryAssumption`, `MigrationAssumption`, `SearchAssumption`,
`SessionsAssumption`, `AudioAssumption`, `HidAssumption`, `TimeAssumption`, `CardsAssumption`,
`SlotActionsAssumption`, `SlotEvidenceAssumption`, `RoastAssumption`, `SkillAssumption`,
`AssistantAssumption`, `ObserveAssumption`, `IntakeAssumption`, `VisitsAssumption`, `DriverAssumption`,
`ServerAssumption`, `InstallAssumption`, `ReplayAssumption`. They say that constants are of their type
and that the values that stand for nothing are none of the others. TLC evaluates each
in every run whose module extends its module.

An invariant is seldom inductive as it stands. Each section of a proof module names the strengthening, shows
that the initial states have it, that each action keeps it (one lemma per action or per group), and that
it implies the property. What the strengthenings say:

| module | theorems | the invariant, and why it is needed |
| --- | --- | --- |
| `JobTable_proofs` | `TableSafe` | the type of rows and the index; `Complete` re-opens a row only when the index lets it |
| `OcrPipeline_proofs` | `Inductive`, `RowsKept`, `DoneIsSearchable`, `RestingRowsKept`, `StrandedCounted`, `OcrImplementsQueue` | `complete_job_at` looks at the id alone, so that settled rows stay settled follows from what the worker knows of its row; done means searchable from the outcome it carries; attempts from "an open row nobody holds can be claimed once more"; each stranded row has its own crash or lost completion. The refinement maps a job to the abstract register and each step to a step or a stutter |
| | `HelpersSafe` | whose helper is whose by mode and since when; a helper that answered had the whole picture |
| `BatchWorker_proofs` | `Inductive`, `BatchKept`, `BatchImplementsQueue` | what the rows of a claimed batch are before and behind the one that is settled |
| `Storage_proofs` | `BlobsSurvive`, `BatchesFit` | what each holder of the mutex relies on: a prune's deleted rows are accounted for should it roll back, the sweep's snapshot still covers the rows, no row comes back during a wipe; a batch has nothing left to write or all of it fits. Bytes are cells, so that the library's facts about cardinalities apply |
| | `PassInductive`, `TrimsArePromised` | the estimate is above the target and, but for a wipe, at most what is on the disk; the metadata tier stays behind the floor |
| | `PastIsClassified` | an entry found has a category; a pass holds an application only between its lookup and its rows |
| `Sessions_proofs` | `Inductive`, `NoOtherLeak`, `RowsAndFrames` | where a transition can be between the bind and the write: in the capture's hand, the queue, or the persist task's hand, which writes the session before its frames |
| | `VoiceIsKept` | the trunk under way begins with at most the pre-roll of silence, ends in voice and holds no long silence; a flushed trunk lies before everything the orchestrator holds; trunks are ordered by sound, time, session and ordinal; every voiced quantum is in the trunk, in a drained or stored one, or lost. It is stated of values, because one poll changes the orchestrator several times; the lemma `OnChunkTurns` says what one quantum does |
| | `DriftBounded` | the loop is at most the backlog behind the microphone, what is held is in the order heard, and a trunk's timestamp is less than the backlog after anything heard later; from which the exported segments follow each other. The sorted sequence and the recursion of the export are shown to exist by induction over the naturals |
| | `InputKept` | whatever the tap gave out before the n-th press is in an event, in the open text or drag, or given up; what comes after is on the tap or in the task's hand |
| `Projections_proofs` | `IndexInductive`, `IndexFollowsDerived`, `TextWrittenOnce` | what a rebuild has read is still so for every event that did not change; the OCR worker is never busy with an event that has its row |
| | `TimeInductive`, `OrderIrrelevant`, `CountedTrue` | samples are numbered and timed in order within a lifetime, and no lifetime outlives a gate |
| | `NarrativesSafe` | what the task read of a ready card is still so; the answers a slot was paid for and those still owed stay within two per wipe and one per crash, one more owed to a slot wiped while it was about to be told |
| | `TraceSafe`, `OneReadingKept` | where the last focus of the trace is; nearest walk and smallest box exist (least numbers) |
| | `RoastedOnce`, `ServedComplete` | the claims cover what was asked; what a version or a place in a script stands for is in the schema for good, unless a statement was skipped |
| `Endpoints_proofs` | `IntakeInductive`, `LossesAreTold`, `ArchiveIsTrue` | what a flush may rely on after its awaits: its batch can enter the queue no more, an answer "stored" means the daemon has the batch and a gap, a settled batch is out of the queue |
| | `VisitsTrue` | the visits are a replay of what was inserted, taken apart by induction on its length (`ReplayedOn`, `ClosesAll`); a row above everything the importer asked for was inserted later, which the reuse of rowids leaves true although it makes the importer miss rows; a row whose rowid is its own is among those asked for as soon as one above it is |
| | `DriversKept`, `ServiceTrue`, `InstallationSafe`, `ForegroundSafe` | whose driver the slot and each caller hold; who may be between looking at the path and binding it; which bundle is aside while another is on trial, and that a way back that failed has cost two troubles before the second preparation clears it; what each gate read is still so unless the user or another replay moved |
| `Desktop_proofs` | `SwitchIsTheirs`, `AnswersAreTheirs`, `CommandsAreKept` | what is switched off is there and off; a page's run is its own and uncancelled, and a number is told once; how far a stop or reload is, what the file says and what whoever writes it will write, that everyone at work during a reload had looked before it, and that in a pause the monitor gets no further than the pause |

Proof attempts that changed the models: the gates of a replay were first said to be outdated by the user
only, and the proof showed (two apps let TLC confirm it) that another replay's activation does it too; the input
task, the export's look-ups and the traces became steps of one element, which is also closer to the
code's loops and locks; `Classify`, `Chunks` and `NextRowid` choose the element the code's loop or statement arrives at.

## 7. Where the code and its documentation disagree

Shown by a run (`PROJECT.json` quotes both sides):

- `browser_pause`: a settings update that read before a pause writes the record back unpaused
  (`docs/BROWSER_CAPTURE.md:13`, `extensions/browser/lib/settings.ts:51`).
- `category_precedence`: a background pass takes away the category a user's rule gave a page
  (`categorization.rs:3`, `sqlite.rs:4334`).
- `migration`: a database two processes upgraded at once, or whose upgrade was killed, cannot be
  opened any more (`sqlite.rs:4851` and `4914`).
- `injection`: an answer over a selection in one app is written into another
  (`apps/desktop/src-tauri/src/commands.rs:2888` and `2892`).

Seen while modelling, present in the models, and left without a run of their own:

**Jobs and store**

- A trim or a wipe while the engine runs is followed by rows of an event that is gone
  (`sqlite.rs:1611`, `TextHasEvent`).
- `docs/OCR_PRODUCT.md:99` says a reindex rebuilds from all bodies. The desktop's reads first and deletes
  in a later transaction, so what the daemon wrote in between is erased (`raced`); and an AX row written after
  the OCR row replaces the recognised text in the one search row (`OcrTextQueryable`).
- `docs/OCR_PRODUCT.md:71` on attempts: a row whose last attempt was interrupted by a crash is reclaimed and
  claimed once more (`sqlite.rs:6006`).
- `docs/OCR_PRODUCT.md:33` "timeout kills and reaps the child": a helper that hangs in the engine when the
  daemon dies stays; an answer that is complete but whose process does not exit in time is thrown away; one
  of more than a megabyte always fails, until its job is dead.
- `docs/STORAGE_OPTIMIZATION.md:119`, media before metadata: a media batch that frees no byte, because
  newer rows share its contents, ends the media tier. `:91`, a hard cap: the quota measures all blobs and
  deletes screenshots only, so audio can hold it above the cap.
- A wipe leaves skills, roasts, assistant threads and `activity_sessions`, deletes the `kv` table with rules and
  claims, and a queued batch is written after it (`sqlite.rs:4554`).
- A lookup pass cut short between its cache row and its re-application strands the history, since the cached
  row is never queued again; two processes read different catalogs.
- Errors of statements that `migrate` swallows, under a lock that lasts, leave a stamped but incomplete
  schema (the exception `ServedSchemaComplete` names).

**Capture**

- `docs/OBSERVE_CAPTURE.md:96` says a session is closed at shutdown; the stop writes it closed and then drains
  batches that name it as open (`ClosedStaysClosed`). The next start's recovery closes it.
- `docs/OBSERVE_CAPTURE.md:21` says gates never write; a frame captured before the gate closed and waiting in
  the channel is written after it, and `set_privacy_paused` does not stop a daemon the shell does not own
  (`PauseStops`).
- A trunk is not flushed when its session is closed for length; the event's time is that of the flush; a
  disconnect loses the trunks of its poll; the branch for a full trunk in silence is dead; the audio loop does
  not read the runtime pause (`main.rs:1808`).
- With interactions off the 50 ms tick resets the counters, so that `input.stats.v1` holds almost
  nothing, against `sqlite.rs:2329` ("the counters of the flush interval ending at its ts",
  `CountsOfTheInterval`). A drag's origin survives a closed gate. Keys are attributed to the app in front at
  the drain. What was drained is stored though a pause comes during the wait for the lock.
- A clock set forward by less than thirty seconds counts as time spent.

**What is made of it**

- `floor_slot` returns the time itself in an hour that comes twice, against `history.rs:3`; the source
  "paused" is never written. Ranges equal the sum of their days only while lifetimes do not overlap.
- The facts of a day: the 45 s tail makes an interaction up to 48 s before count (`sqlite.rs:2572`,
  `SwitchesAtTheBoundary`); "matching top_apps" (`2630`) compares raw rows with effective pieces
  (`ActiveWithinApps`); "merge same-domain rows" (`2493`) merges neighbours only (`DomainsMerged`); the busiest
  hour's app goes by the UTC hour, the histogram by the local one.
- `slot_actions.rs:127` "merge consecutive identical actions": clicks on different targets of one window become
  one step with the first target and the last place. An app-less hit becomes "unknown", so the
  empty-app check of `sanitize_step` never fires. `fill_steps` never adds a step. That the model's own proposal
  focuses first and avoids chats is in the prompt only.
- `slot_evidence.rs:67` "AX wins over OCR for the same screenshot": the key is the app, the window and the first 80
  characters, so both readings stay when they begin differently. `:28`: `via` is "ax" as soon as a tree was looked
  at, though none of its lines is kept (`ViaTrue`). The limit of `MaxSnippets + 2` per text never costs a line.
- Cards: a segment that arrives between fold and list loses a paid answer (the tick ends with NotFound); a wipe
  between read and write brings cards back; a failing check for a workflow counts as checked; "pending" is never
  written; two failing newest cards starve older ones; the claim before a backfill is lost by a crash.
- Skills: the menu's refresh every 30 s moves `last_suggested`, so an entry vanishes after 30 s; `LIMIT 20`
  before the app filter starves other apps; a click suggests again and may run another skill than shown
  (`tray.rs:41`, `ClickRunsOffer`); `skill_replay` does not look at the switch.

**Browser**

- `docs/BROWSER_CAPTURE.md:109` "the rebuildable visit projection": a trim deletes events and keeps visits
  (`VisitsRebuildable`). A rowid given again makes an importer miss events; `revisit_index` collides; `content_id`
  is replaced by a later event's address; a wipe between the export's locks gives a closing event without its
  visit.
- The gap record may grow after a batch was built from it; the acknowledgement by id removes it although the
  newer count was never sent.

**Desktop and computer use**

- `state.rs:30`: a start that adopts a daemon does not clear `observe_stopping`, and a failed reload leaves it
  set; overlapping starts leave the first child without an owner; a stop that falls between the supervisor's or the monitor's
  look at the flag (`lib.rs:315`) and its start is undone, and the flag cleared; the supervisor counts refused ticks as crashes,
  gives up for good and does not read the flag again after its backoff, which is 4 to 64 s where a comment says
  2 to 32 s; `navi.toml` is written in two steps; `start_asr_model_download` leaves its flag set when the
  configuration cannot be read.
- The assistant: an error or an end may reach the page before its run's number, and `streaming` stays set; an
  agent tells the popup only, so one started in the composer never ends there; agents are not stopped by a
  cancel; `assistant_tasks` keeps entries; the button is shown after a stop too.
- Computer use: the desktop does not look at `allow_foreground` (`ARCHITECTURE.md:290`); the client gives up after
  15 s where sixteen steps may take 15 s each; the policy refuses only the drafts' own address-bar chord; a stale
  socket blocks an update. A driver that takes a call and does not answer holds the replay and its thread for ever
  (`act_driver.rs:70`). When both the update and the move back fail, the second preparation of the same process deletes
  the only old bundle as a stale backup (`cua.rs:374`).

## 8. What is not modelled

- Records and schema text without behaviour (`lumen-types`), an intake trait without state (`lumen-intake`),
  the platform crates (capture, accessibility, recognisers: their answers are choices), views (the desktop's
  and the dashboard's pages, the extension's popup), and one file that is overwritten in place and decides
  nothing (last-frame liveness).
- Loading and pattern matching of the configuration; routing, authentication and queries of the control plane;
  page evaluation, pairing and the archive's cleanup in the extension; the folding of legacy activity samples;
  the pixel-hash window, which is the choice to skip an enqueue; the wording of digests, prompts and transcripts.
- In `OcrHelper` the outer guard five seconds past the timeout and the diagnostic engine in the daemon's
  process; in `Migration` binaries of an older version beside; in `BrowserVisits` failing reads of the
  export; in `ObserveShell` shortcuts and model downloads.
- Hazards without a property, each with the reason in `PROJECT.json`: the text of an event that is gone, a frame
  written after its gate closed, what a wipe leaves behind, and a frame whose job was never enqueued.
