# Verification of PSU-EXT

TLA+ models of the PSU-EXT software (`src/`), the TLC configurations that check
them on small instances, and TLAPS proofs about the core. Every definition
translates the code named for it in the `map` of `PROJECT.json`; comments in the
modules say what a definition leaves out.

    tlc -workers 2 -config <run>.cfg <module>.tla     # a run of section 3
    tlapm ScriptTasksProofs.tla                       # a module of proofs, section 5

## 1. The system

PSU-EXT connects laboratory power supplies to a browser. A Java backend
(`psu-be`) talks SCPI to the instruments over TCP or USB, serves browsers over a
WebSocket proxy and runs JavaScript measurement scripts over HTTP; a React front
end (`psu-fe`) shows devices, widgets and an IDE for scripts; a Go installer
(`psu-install`) deploys both.

| Component | State it keeps | Operations | Talks to |
|---|---|---|---|
| Task life cycle (`script/execution/service`) | map of running tasks, each a monitor with state, future, input request; executor queue and pool; timers | start, get, list, cancel, answer input, execute, time out, complete, evict, recover | stores, publisher, executor, bindings |
| Task and result stores (`execution/storage`) | one directory per task: record, result, index, series, log | save, list, find, delete; retention of 50 results; migration of older records | file system |
| Live events (`execution/result`, `ScriptEventsController`) | per task a stream with replay buffer and subscribers; per subscriber a queue and a draining flag; delivery pool | publish, subscribe, drain, close, prune | SSE emitters |
| Result assembly and capture (`execution/result`) | open assembler per task, log writer | events, complete | publisher |
| Device sessions (`execution/scpi`) | map device -> session; per session an accepting flag and a one-thread FIFO | connect, disconnect, send; recover, invalidate | connection service |
| Executor, bindings, builtin scripts (`execution/runtime`, `resources/scripts`) | the bench a script drives | run a script: send, query, input, sleep, record | sessions, tasks |
| Catalogues (`script/management`) | a directory per user script | list, find, create, replace, delete | file system |
| Connection service (`psu-be-connection`) | `devices.json`; map device -> transport (synchronized) | add, modify, delete, connect, disconnect, send, status | transports |
| Transports (`psu-be-transport`) | connection state, consecutive timeouts, unread bytes | connect, disconnect, send, status | instrument |
| WebSocket proxy (`psu-be-proxy`) | the session's default device | one frame at a time: registry, connect, status, CMD | connection service |
| Browser connection (`psu-fe/.../ws-proxy`, `http-script`, `runtime`) | socket, device rows and statuses, request UUIDs, timers, retry budget, polls and snapshots, log; endpoints in local storage | clicks, messages, timers, renders and effects | proxy, Script Runner |
| Widgets (`psu-fe/.../widgets`) | local drafts, pending command sequences, chart points; settings and histories in local storage | user actions, polling | browser connection |
| Script IDE (`components/ide`, `scriptTasks`, `scriptSources`) | buffer, task console, task table, catalogue page, menus | save, run, follow, cancel, delete, open | Script Runner |
| Dashboards (`components/dashboard`, `pages`) | layout, settings and histories in local storage | edit, drag, add, remove, reset | local storage |
| Installer (`psu-install`) | `state.json`, release directories, configuration, `current` link | install, start, stop, update | service managers |

**What is hard.** The runner completes a task from two threads while clients
cancel and answer it and the process may stop between any two file operations. A
subscriber's queue is drained by a pool beside publishers that append to it.
SCPI replies carry no request number, so a late reply belongs to whoever reads
next. The page acts on what it rendered while answers to earlier requests are
still on their way; its local storage is shared with other tabs. A script's
cleanup runs after a call that failed with or without its effect.
`PROJECT.json` lists each hazard at its line.

**What makes each component correct.** A task ends once, in the outcome its
clients were told, with its result stored; none is forgotten, also across a
crash (life cycle, stores). Every subscriber gets every event of its stream and
its subscription ends (live events). A script reads only its own replies, and a
disconnected device stays so (sessions, transports). A table a calibration
commits was measured, and a source somebody touched is switched off (scripts).
Ids and names stay unambiguous, and an open transport is of the stored profile
(registry). What is read from disk is whole and of one version (catalogue,
results, installer). The page retries within its budget, respects the user's
disconnect and agrees with the backend at rest (browser connection). A widget
that waits is answered or gives up, and at rest shows what its device holds
(widgets). Charts hold what their sources sent. Unsaved text goes only with the
operator's consent (IDE). A dashboard reloads as it was left.

## 2. Modules

A page of the front end is a record (`ui`, `w`, `page`); each function of its
hooks is an operator from pages to pages, and an action is what the event loop
runs: a message, a timer, a click, a render, the effects of a render. A change of
settings or of devices is a render whose effects run before the next change and
before a click, but not before an answer. Back-end modules have one program
counter per thread, and a step is a synchronized method or one file operation.

### Script tasks: ScriptTasks, TaskContract, MCScriptTasks, ScriptTasksProofs

`ScriptTasks` is `DefaultScriptRunnerService` with `RunningScriptTask`,
`ScriptTaskLifecycleEffects`, the executor, the timeout scheduler and the two
stores as that code uses them.

Each thread that can touch a task has a program counter per task: `starter` (the
HTTP thread in `start()`), `worker` (the pool thread in `execute()`, the script
included), `timer`, and `answer` (the thread in `submitInput()`). A step of a
thread is a synchronized method of `RunningScriptTask`, one store call, or one
publication. Where the code takes a snapshot under the monitor and saves it
later, the snapshot is held in `workerHolds`, `timerHolds` or `answerHolds` in
between: the window of the stale record. `cancel()` holds the monitor over its
save, so it is a single step. `record` and `result` are the files, `phase` is
the process: `Crash` loses everything in memory, `Restart`, `RecoverResult`,
`RecoverRecord` and `Open` are `recoverInterruptedTasks()`, file by file.
`clock` orders the ends of tasks; retention and eviction compare those times.
After its two saves a thread lists the results directory by directory, chooses,
deletes and then evicts one task after the other (`ListNext`, `Choose`, `Delete`,
`ChooseEvicted`, `EvictNext`), each a step between which the other thread of the
task and those of other tasks store, list and delete; `looked` and `chosen` are
what it has seen and what it is going to do. A delete of one directory is one
step here and a sequence of file operations in `ResultStore`.

A script is any sequence of events, `input()` calls and an end. Left out:
values, log text, series, and the internals of one save (`ResultStore` has them).

`TaskContract` is the abstract specification, in two variables: the state of a
task as the live process knows it and what is stored of it. `RunnerKeepsContract`
says that `ScriptTasks` implements it under `life <- state, stored <- result`.

### Live events: LiveEvents, LiveEventsProofs

`InMemoryScriptLiveEventPublisher` and `ScriptEventsController.events()`. A
stream that was removed and looked up again is a new object (`current` of
`created`). A publisher looks the stream up, appends and offers under the
stream's monitor, then wakes the drains it has to, outside it; a subscriber
checks the task, looks up, attaches with its replay, wakes, returns; a delivery
thread takes a job, polls, sends and ends in the `finally` clause. These are the
actions. An event is its sequence number; a browser is the sequence it received.

### Device sessions: DeviceSessions, DeviceSessionsProofs

`ScriptDeviceSessionCoordinator` and `DeviceSession` of one device over the USB
transport. `pipe` holds replies that are sent or will be: a query that times out
leaves its reply in it, a command may leave an error line. Callers are script
threads in `send()`, managers are HTTP threads in `connect()` and
`disconnect()`; `DeviceConnectionManager` is synchronized, so each of its calls
is one step. The worker of a session takes a job, sends, recovers (reset and
reconnect), and invalidates and removes its session when that fails.

### The back end's files, bytes and scripts: Backend, MCBackend, BackendProofs, BuiltinScriptsProofs

`Backend` puts six modules side by side; `which` chooses the one that moves.
`MCBackend` gives the constants that a configuration file cannot write.

- `DeviceRegistry`: `devices.json` and the transports opened from it. The proxy's
  clients edit the file, which is rewritten in place, the Script Runner reads it;
  `job` holds the steps of add, modify and delete, whose two synchronized calls
  have nothing around them. A device is meant by id or by name (`Reads` gives the
  number a name reads as). The file is sorted and unique to begin with.
- `ScpiLink`: the USB transport's reads from a stream of bytes
  (`ScpiResponseDeserializer`): text up to a delimiter, blocks that give their
  length, a timeout in the middle of either, the threshold that closes the port.
- `UserScriptCatalogue`: create, replace and delete of a script's directory, one
  file operation a step, each of which may fail or be the last. An operation is
  acknowledged with its last file operation.
- `ResultStore`: a task's directory (index, result, record, captured series)
  under saves, retention's deletes, listings that migrate older records, crash
  and recovery. A temporary file is collapsed into its move. Retention lists the
  results, most recent first and no more than `ListLimit` of them, and skips those
  it keeps; a directory's paths are deleted in the reverse of their order. `order`
  is the order in which tasks ended.
- `ReleaseInstall`: one run of install or update after another, cut off anywhere.
- `BuiltinScripts`: the builtin measurement and calibration scripts as sequences
  of host calls, a body and `finally` blocks, on one bench. A call returns,
  throws with or without its effect, or throws because the task was cancelled.
  The firmware is external: a FIFO of commands, of which a capture takes time;
  that `START CURRENT` stages an empty table is an assumption about it. Scripts
  run one after another: the runner lets two drive one device at once, which no
  script guards against.

### One device in the browser: BrowserDevices, BrowserDevicesProofs

`useDeviceCommands`, `useDeviceRecovery`, `useDeviceStatusChecks`,
`useDeviceIdentities`, `useDeviceDiscovery`, the part of the polling controller
that detects a loss, `useWebSocketSession`, and the proxy that serves the
session's frames in order. Operators have the names of the functions (`Patch` is
`patchStatus`, `Finish` is `finish`). Clicks are guarded by `ui.shown`, what the
page last rendered, as the button is. A UUID is a number that no frame and no
request refers to (`NewId`). Left out: registry commands, other devices, other
clients of the backend, and the ten-second age at which a second status check
may be sent (with a single poll outstanding the first is always answered before
another is wanted). The frames the proxy has read when a socket breaks are
served before the page opens the next one.

### The cards: Cards, CardsProofs, MCScreens

`Cards` runs one of the control widgets at a time, and `MCScreens`, beside the screens,
the page, the charts and the dialogs; each has its own record in `w`.

- `Requests`: what control widgets share: a request is the continuation of an
  asynchronous function, its answer runs it up to the next `await`. Answers come
  in order, any request may fail, a write that failed may have reached the device.
- `TimerQueue`, `ExternalTrigger`, `Protection`, `SingleToggle`,
  `SingleValueSet`: one control widget each, with its runtime hook, while its
  settings and its device change. Only this widget writes its device.
- `PageRequests`: the polls, snapshots, refreshes and awaited commands of the page
  over one socket that is lost and replaced (`ws-proxy/scpi`, `ws-proxy/ws`).
- `ChartHistory`, `XyChart`: the points of the two live charts and their record
  in storage; a second tab may clear it. Sizes are counted in points. A React
  updater may run at once or at the next render.
- `ControlSettings`: what each
  settings dialog accepts, what is stored of it, what the card runs on and polls.
  A text stands for all texts the code treats alike. Names, units and colours are
  left out.

### The screens: MCScreens, IdeProofs

Likewise for the IDE, the connections and the dashboards. `MCScreens` extends
`ScriptConsole` (the variable `w`, whose constants the configuration gives) and
instantiates the others on `screen`.

- `ScriptConsole`: the task console with its event stream, status, log pages,
  result and prompts, beside the runner's side of the tasks.
- `IdeDocument`: buffer, stored scripts, save, run, template, import, open, close,
  restore, and scripts deleted elsewhere, with up to `MaxWire` requests in flight.
  `crossed` remembers that a save or a run was on its way together with another
  request for a stored script.
- `TaskList`, `SourceList`, `MenuBar`: the task table with its page requests and
  cancellations, the script catalogue with its pages and deletions, the menus with
  their keys and focus. Error texts are left out.
- `ResultSeries`: the series of a finished task, read page by page.
- `HttpDevices`, `DeviceForms`: the device manager over HTTP and over the
  WebSocket; over HTTP only this browser edits the runner's devices.
- `MonitorLog`, `ConnectionConfig`, `RunnerConfig`: the monitor's bounded log,
  the endpoints and auto-connect switches and their older stored forms, the draft
  of the Script Runner's endpoint. Endpoints are values, a log line is its tag and
  its length.
- `Dashboard`: the layouts of the three dashboard pages, edited, dragged by two
  pointers, stored and read again. Pointer positions are the grid cells they
  select; ids of a stored layout are unique.

### How they compose

`ScriptTasks` uses live events through three facts (a stream is open, ended, or
refuses) and device sessions not at all: a script that waits for a device is one
that has not ended. `LiveEvents` takes from the life cycle that one thread
decides the end, publishes the last event, and that the task may be evicted
later. `ResultStore` refines what is one step of `ScriptTasks` (a save, a delete)
into its file operations and shares with it who calls them and in which order.
`DeviceSessions` and `BrowserDevices` share the connection manager's synchronized
calls and model different clients of it; `DeviceRegistry` is what both look
devices up in, `ScpiLink` what lies under a single send of either.
`BrowserDevices`, `PageRequests`, `DeviceForms` and `MonitorLog` are four views of
one socket; the control widgets use `PageRequests` through `Requests`: an answer
in order, a failure, or a poll's value. `ScriptConsole`, `TaskList` and
`IdeDocument` are clients of what `ScriptTasks` and `UserScriptCatalogue` promise.

## 3. Runs

| Run | Instance | What it shows |
|---|---|---|
| `ScriptTasksOne` | 1 task, 2 inputs, 1 crash, 1 I/O error | Every interleaving of start, worker, timer, clients, crash and recovery: the task ends once, its outcome is what is kept, a waiting worker has a request or its answer, every active record has an owner or a reason, the contract; the task ends, and interrupted work gets its INTERRUPTED record |
| `ScriptTasksThree` | 3 tasks submitted one after the other, one cancel, no script events, pool and queue of 1, 1 result retained, nothing evicted | A refused submission leaves its QUEUED record, and nothing else leaves one; of two completions that list and delete beside each other none takes a result without a newer one stored |
| `LiveEventsOne` | 2 publishers, 1 subscriber that may leave, 2 delivery threads, 2 streams of 2 events, replay of 2, queues of 1 | No gap and no duplicate at subscription, no queued event without a drain, also when drains run side by side and are rejected; a subscription that stays open completes |
| `DeviceSessionsOne` | 2 scripts, 1 HTTP client, 2 requests, 3 sessions | Own replies only, clean between requests, disconnected stays so, a closed session is silent, every request is answered or fails |
| `BrowserDevicesOne` | auto-connect, 2 clicks, 2 lost links, 1 broken socket | Attempts are timed, at most three retries, a manual disconnect holds, identities belong to the connection shown, a device shown disconnected is closed |
| `BrowserDevicesLive` | auto-connect, 1 click, 1 lost link, 1 broken socket | Attempts end, losses are noticed, eligible devices are retried |
| `CardsOne` | `Cards`: 5 control widgets on up to 2 devices | What is busy has something that ends it; at rest a card shows its device; nothing is announced or sent twice |
| `ScreensOne` | `MCScreens`: console, document and task table twice, catalogue, menus, result series, device manager three times, log, endpoints, 4 dashboards; the page's polls with 2 widgets and 2 queries, 2 charts, 6 dialogs | What is shown is of the task shown, its log has no gaps, its status settles on its end; what is at rest is what the runner stores; unsaved text goes only with consent, when a confirmed cancellation succeeds all its tasks are cancelling or have ended, disabled items are inert, nothing connects unasked; layouts are sound and reload as they were; charts hold values their sources sent; saved settings run; polls match the saved widgets |
| `BackendOne` | `Backend`: registry with 2 workers, 3 edits, 1 crash; 4 replies, 4 reads; 2 scripts, 3 versions, 2 faults, 1 crash; 2 results, 1 kept, 2 listed, 2 crashes; 3 installations; 12 scripts, 2 runs, 2 faults | Profiles unique and transports of the stored profile; own replies while no read timed out; what is read from disk is whole; what a calibration commits was measured; a source somebody touched is off |

**Bounds.** They appear as constants named `Max...` or as capacities. The code
treats tasks alike and relates them only through the executor (pool and queue),
retention and eviction; one task exposes every race on a task, three a pool, a
queue and a refusal, and the proofs are about any number. Two inputs let one
request follow another's answer. One crash stops any step, and recovery can be
reached with any files. Capacities of one make queues overflow, a replay of two
does not fit them, and a third event would add no transition of the flag or of
the pool. Two requests let a late reply meet a later request of either script;
three sessions let a session end twice and be replaced. In the browser runs two
clicks are Disconnect and Connect; four connect attempts fit in every run, so the
retry budget is used up; UUIDs need no bound.

In `CardsOne` two requests on the wire let each answer meet one younger request,
two devices let an answer meet the other device, and two drafts let a stored value
differ from the one typed. In `ScreensOne` the page alone is cut by a state constraint,
`WireBound` (two frames on the wire), and charts at the third and sixth sample,
past their limits of one to three points. A dialog is edited at most three times
in all (twice for protection): enough to change the two fields of any of its checks
and undo one. Two tasks, pages of one or two rows and two log pages
put every request beside one of another task, another page or another opening; the
log holds two lines of three units for messages of one, two and five; two pointers
drag at once on a page that starts from its defaults. The document is run with two
scripts and one request in flight, and with one script and two. In `BackendOne` two edits overlap, a third follows a crash; a
block's reply contains the delimiter, is empty, or has a length of two digits; a
bench of two points, two blocks and two runs lets every value be stale in every
place, and two faults let a cleanup call fail as well. `MAX_RESULTS`,
`DEFAULT_LIMIT` (here `ListLimit`) and `MaxId` are scaled down. Deadlock is not checked where the instance stops at its bounds or
the system rests with nothing to do, which is every run. The type invariants of
`LiveEvents`, `DeviceSessions` and `BrowserDevices` are conjuncts of
`DeliveryIsSound`, `SessionsAreSound` and `AttemptsAreBounded`.

`CardsOne`, `ScreensOne` and `BackendOne` are unions of independent instances: each
initial state chooses with `which` the one that moves, and a property is a
conjunction that says of each instance what the run's name for it means there.

**Fairness.** Threads of the JVM with a step to take, take it: the starter, the
worker outside the script, completion, delivery threads, session workers. The
scheduler serves deadlines. A stopped process is started again
(`WF(RecoveryStep)`): the installer sets systemd `Restart=on-failure`
(`systemd/services.go:86,102`), launchd `KeepAlive` (`launchd/plist.go:41-43`) and
a Windows restart policy (`taskscheduler/tasks.go:359`). In the browser the event
loop runs messages, timers, renders and effects, and the proxy serves a session.
Nothing is assumed of scripts (they may loop forever), of clients and users, of
crashes, I/O errors, instruments and sockets. The unions assume no fairness
and check safety; that a card which loads is answered or gives up is the invariant
that something on its way will end it.

## 4. What the checks found

Each of these runs checks one property the repository states and shows a
behaviour of the code that breaks it (`findings` in `PROJECT.json` quotes the
statement).

| Run | Behaviour |
|---|---|
| `ScriptTasksStaleRecord` | A RUNNING record, from a snapshot taken earlier, overwrites the terminal record |
| `LiveEventsReordered` | The second reset of the draining flag lets two drains send one subscriber's events out of order |
| `DeviceSessionsOverlap` | Disconnect and connect by two clients: the new session reads the old session's late reply |

The rest of this section lists what was seen while modelling. The models contain
these behaviours; where a property has to leave one out, its comment or its
precondition says so.

**Tasks and events**

- An answer accepted between the publication of a request and the worker's wait
  makes `input()` throw instead of returning it (`RunningScriptTask.java:167`).
- A crash between result and record: recovery replaces the stored result by
  INTERRUPTED (`DefaultScriptRunnerService.java:175`).
- A refused submission takes back the map entry and not the QUEUED record it has
  saved (`DefaultScriptRunnerService.java:205,212-216`): the task is listed as
  queued until the next restart makes it INTERRUPTED. `ActiveRecordIsExplained`
  names this case, the stale record and failed saves, and shows there is no other.
- A task cancelled in the queue never runs, so nothing ends it until its timeout,
  which reports TIMED_OUT (`RunningScriptTask.java:226`): `AcceptedTaskEnds`
  holds by the timer alone.
- A subscriber closed by overflow is never completed, and never removed from its
  stream (`InMemoryScriptLiveEventPublisher.java:252,303`).
- Subscribing to a task that was evicted between the check and the lookup creates
  a stream that nothing ends or prunes (line 232).
- A connect that meets a session about to invalidate itself keeps it
  (`ScriptDeviceSessionCoordinator.java:59`); the session then leaves the map and
  the device is connected without one.

**Files**

- A listing that meets a directory retention has half deleted migrates it: the
  record it writes makes the deletion fail, the other victims of that pass stay,
  and the record is listed for ever (`FileScriptTaskStore.java:118`). A completion
  that saves its record after retention removed its directory does the same. A
  crash in the middle of a delete leaves a result without an index, which
  retention never sees again.
- Retention looks at one listing, which shows 100 results
  (`ScriptResultQuery.java:45`): what lies beyond it, after deletions that failed,
  is deleted only once newer results are gone.
- A script's directory is never moved over one with files in it, so setting the
  old version aside is the normal path; a `.backup` that could not be removed makes
  every later replacement of that script fail; a crash between the two moves
  leaves the script absent; an interrupted delete leaves a directory that `find`
  reports as an error and `list` skips (`FileUserScriptCatalogue.java:251`).
- `devices.json` torn by a crash stays so, and every command that reads it fails
  (`JsonDeviceConnectionDao.java:159`); the runner may read it torn while the proxy
  writes.
- Modify or delete beside a connect of another client leaves an open transport
  whose id the next device gets (`raced` of `DeviceRegistry`).
- With device 0 named "1" and device 1, a single client's modify or delete of "1"
  closes the transport of device 1 (`ConnectionManagementService.java:180-189`) and
  edits the profile of device 0 (`JsonDeviceConnectionDao.java:285-292`), whose
  transport stays on a profile that is gone (`misread`). `RegistryIsSound` excepts
  `raced` and `misread` and shows there is no third case. The runner's transports
  stay on the old profile until their next connect.
- An extraction that was cut off is taken for a verified release by the next run:
  it skips download and checksum, and activates the release if the five paths it
  validates exist (`installer.go:132`).

**Instruments and scripts**

- A read that times out leaves the rest, or the late reply, to the next query, and
  that reply resets the count of timeouts, so the threshold is not reached; a
  block followed by a delimiter would shift every later reply.
- Cancelling refuses the host calls of the cleanup: the source stays on
  (`calibrate-psu-ext-voltage.js:357`). `OffWhenTouched` is about runs that fail or
  end, not about cancelled ones.

**Browser connection**

- Disconnect, then Connect before the answer: the answer ends the newer request
  too, and the device stays shown disconnected with its transport open
  (`useDeviceCommands.js:107`). A connect given up at its timeout and served
  later does the same. `ShownDisconnectedIsClosed` excludes these two
  (`hasty`, `abandoned`) and shows there is no third.
- Device manager over HTTP: a load that joins an older request shows a list read
  before its operation; answers of an earlier endpoint are shown under the new
  one; a failed list clears the rows and unmounts open forms; an add is reported
  as failed when only its list was. The success of an earlier form closes a newly
  opened one of its kind, over the WebSocket too, where after a socket loss the
  dialog reopens empty and the outcome stays unknown. Two operations of one device
  drop its mark at the end of the first.
- Toggling auto-connect stores the typed endpoint as well
  (`useConnectionConfig.js:39-61`); clearing removes the record, so a reload brings
  back the installer's defaults; typing before the start-up timer has run opens the
  typed endpoint without storing it (`hasty` of `ConnectionConfig`).
- The monitor's later lines of one message have no tag and no filter shows them;
  clear can be armed on an empty log; a key press elsewhere does not disarm it.
- A test of the Script Runner's endpoint stays shown for an edited draft; a draft
  that differs by blanks stays "changed" after it is saved.

**Cards**

- A timer action asked for before the preset or the device changed is applied
  after (`useTimerQueueRuntime.js:167`, against the comment at line 34).
- A trigger save that fails half way has written the slots before
  (`useExternalTriggerRuntime.js:131`). Actions that differ only past the length
  that is kept collide (`triggerConfig.js:139`): `Merged` excludes them.
- A trip is announced once a session, unless a reading in between was unreadable.
- A failed reading that is not a loss repeats the last value under the time of
  the failure, and a series chart records it as a new point
  (`scpiPollingController.js:219-227,240-250`, `useChartSeriesData.js:75-92`);
  `ReadingFails` of `ChartHistory` does the same.
- `applyProtectionPreset` takes `decimals || 4` and drops a loaded 0; "1e1" is
  accepted by the dialog and read differently by the card (`protectionHelpers.js:43`).
  A name or response cut so that it ends in a blank is trimmed once more by the next
  load; the texts of `ControlSettings` are not cut there.
- A second tab overwrites this tab's layout and brings cleared history back;
  clearing a series chart appends the current snapshot again; a stored history is
  not cut to a lowered limit when it is loaded.
- `useXyChartData.js:61-63` saves the old queries' points under the new settings
  when one save changes queries and limit (`mixed` of `XyChart` excludes it).
- A failed series of a result hides all others, whose loads go on.

**IDE and dashboards**

- The answer of a save, a run or a template replaces what was typed meanwhile
  (`useIdePersistenceActions.js:58`, `useIdeTemplateAction.js:27`). A workspace
  entered with an empty document opens the discard dialog unasked. A refused run
  of a new script leaves its stored copy.
- A save beside an opening of the same script, or two saves by the editor and the
  save dialog, are answered in any order: the text read or stored first may be
  shown last, as clean (`useIdePersistenceActions.js:54`, `ScriptSourcesWidget.jsx:186`).
  `crossed` of `IdeDocument` excludes it.
- A cancellation is answered while the task still runs (`RunningScriptTask.java:102`);
  its row stays selectable until the end is read.
- A log answer of an earlier opening clears the in-flight mark, so a page is read
  twice; a log request in flight at the end makes the terminal effect skip its only
  read; an ended task's log shows only its first page; a result answered 404 is not
  asked for again; a prompt stays after a cancel; INTERRUPTED ends no stream.
- An older page of tasks is shown after the offset changed, and
  `cancelSelected` reloads the offset of its closure; the success of one dialog's
  action closes whichever dialog is open. A deletion reported as failed that took
  effect leaves the catalogue's page stale.
- Menu bar: Alt+L opens the templates without their parent, ArrowRight doubles a
  path, a disabled Run blocks ArrowRight, Alt with a letter invokes an item twice.
- The second of two drags leaves the first widget displaced
  (`useDashboardWidgetDrag.js:208-219`); resetting keeps settings and histories of
  dropped widgets; `otherDashboard.js:40-46` leaves a removed chart's history;
  double ids in a stored layout pass.

## 5. Proofs

**`ScriptTasksProofs`** proves, for every finite set of tasks, every pool size,
queue capacity, retention limit and number of inputs, crashes and I/O errors,
each safety invariant of `ScriptTasks`, that terminal states are final, that
no result is deleted without enough newer ones stored (`RecentResultsKept`), that
every active record is explained (`RecordsExplained`), and that the runner
implements `TaskContract`. The assumptions are those of `ScriptTasks`: a finite set of tasks, positive capacities, natural bounds.

None of the invariants is inductive by itself. That the two threads never both
complete a task, say, depends on which states a thread that has the outcome
leaves possible, and that the right result is stored on what such a thread
holds. `IInv` is the conjunction, over every task, of

- `Known`: a task absent from memory has no threads; which files can be on disk
  of it; in recovery only active records are being converted;
- `Started`: how far `start()` has come limits the worker, the timer, the map;
- `Waiting`: PENDING_INPUT has an open request, and a blocked worker waits for
  exactly that request or has been released;
- `HoldsOutcome`: a thread that completes a task holds the outcome it ended with;
- `Settled`: one thread completes; before its save there is no result, after it
  the result is the outcome, unless retention took it or a save failed;
- `Explained`: an active record is of a task in the map or has its reason;

with `TypeOK`. One lemma for each thread shows that its steps keep the types and
the invariant of every task (`StartKeeps`, `WorkerKeeps`, ...), with one step of
the proof for each action; `NextKeeps` joins them. The invariants follow from
`IInv`; finality and the refinement follow from its parts and one lemma for each
thread that maps its steps to moves of the contract or stutters.

Retention needs a second invariant, `RInv`: what a thread has listed is still
stored or already `Replaceable` (at least `MaxResults` newer results are stored),
and what it is about to delete is replaceable. Two facts carry it: of a listing
some of which is gone, what is newer than a member that is gone is still replaced
by what is newer than that member (`ChosenIsReplaceable`); and the delete of a
replaceable task leaves every replaceable task so (`DeleteLeavesReplaceable`),
since what is newer than the one is newer than the other. Times are distinct and
final once set (`Dated`, `Past`).

**`DeviceSessionsProofs`** proves, for any number of scripts, HTTP threads,
requests and sessions, the types and that nothing is sent for a session that is
shut (`ShutSessionsAreSilent`). `SessionInv` is what both need: what closes a
session stands behind its accepting flag, and a session that does not exist yet
has nothing to do. Own replies, a clean stream between requests and lasting
disconnection are false for two HTTP threads at once (the run
`DeviceSessionsOverlap` shows the first); they are proved under the assumption
`Managers = {m}`, any number of scripts, requests and sessions. `SerialInv` is the
reason: every session but the newest is shut, the map holds the newest or none, so
one worker talks to the device at a time; and `CleanPipe`: only a worker that is
about to reset the link leaves replies of a query in it.

**`LiveEventsProofs`** proves, for any capacities, publishers, subscribers,
delivery threads and streams, that the queues keep their capacity and that what
waits for a browser has a drain job or gets one (`EventsAreDelivered`), and that
what a browser got, is being sent and has queued are the latest events of its
stream, each once (`NoEventIsMissed`). `DeliveryInv` says of a subscriber that has
not joined that nobody knows it (`Absent`), and of the others that a set flag
means a job and a waiting event a job or a wake to come (`Drained`, `Served`):
that the flag is reset twice costs the order, not the delivery. `GapInv` counts: of
its stream's events a subscriber has been sent all but those queued (`Joined`),
beginning with the first of its replay and each once (`Gapless`); it needs
`DeliveryInv` for the streams and events that threads hold. The assumptions are
positive capacities and at least one subscriber.

**`BrowserDevicesProofs`** proves, for any number of clicks, lost links and broken
sockets, with and without auto-connect, that attempts to connect are timed and
that three retries bound them (`AttemptsBounded`), that an identity is of the
connection shown (`IdentityIsCurrent`), that a manual disconnect holds
(`DisconnectHolds`), and that a device shown disconnected is closed
(`DisconnectedIsClosed`). `Sound`, the inductive part, is a predicate of one page, so
each hook's operator has a lemma that from a sound page it makes a sound one
(`Connects`, `Disconnects`, `StatusHeard`, ...) and says what it may send; the
actions follow from those. The budget needs that a device that may still be
retried has been retried no more often than it has attempts counted, and that an
armed timer has one left (`Counted`). The disconnect needs two more things.
`Revoked`: nothing that connects is left, neither eligibility nor the zero-delay
timer of the device list; every answer keeps this because `recordState` and
`applyStatus` mind the manual flag (`Minds`). `Listing`: the socket is asked for one
list, which has come once the device can be clicked, so no later list arms that
timer again. The finiteness of the open requests makes a new UUID exist
(`NewIdIsId`).

`DisconnectedIsClosed` is about page, wire and backend together, and its invariant
(`KnownInv`) is about the wire: the answers to be heard, then the frames to be
served, a frame and its answer under one id. Serving a frame changes its kind in
place (`LinkServed`), hearing takes the first item (`LinkTail`, `Foretold`), sending
appends one. Six facts hold of it, and each is needed for the next:

- `Distinct` ids, so that an answer is to one request;
- `OneAttempt`: the pending connect is the last on the wire, so its answer leaves
  none behind it;
- `Departs`: a disconnect is remembered until it is answered, and, if no Connect
  was clicked before that, nothing connects behind it;
- `OneStatus`: one status is under way at a time, and none while a poll's loss may
  still be told, unless a disconnect comes behind it;
- `Awaited`: a connect that may still succeed is the pending one, is left by a
  disconnect behind it, or is of a device shown connected that nothing before it
  will show otherwise. A connect given up at its timeout is the exception the
  property names;
- `Told`: when the transport is open, an answer that tells of its loss has an
  `OK CONNECTED` behind it.

From these a page with an open transport and no disconnect to send shows it
connected, awaits a connect, or will hear a status or an `OK CONNECTED` (`Known`):
the answers that end an attempt are those after which `Told` leaves one to come. In
a quiet page nothing is to come, which is the property. The exceptions are not
weaker than the code: without either one TLC finds the sequences of section 4.

**`BackendProofs`** proves the properties of `Backend`: the registry's
(`RegistryStaysSound`), the byte stream's (`RepliesStayOwn`), what is read from
disk (`DiskStaysConsistent`: user scripts, results, an installation), and, from the
invariant of `BuiltinScriptsProofs`, what the builtin scripts leave
(`MeasurementsStayTrue`, `BenchEndsOff`), for any number of clients, edits, scripts,
versions, tasks, releases, faults and crashes. The
assumptions: bounds are naturals; there are finitely many tasks; the threshold is
at least one, as the code makes it (`UsbScpiTransport`); a device replies with a line
or with a block of definite length, of bytes; no release is the value that stands
for none. One inductive invariant for each module, joined by a lemma that one of
them moves at a time:

- `RegistryInv`: between the two calls of an edit a client knows the device
  (`JobsKnow`), one client rewrites the file at a time, a transport is filed under
  its profile's id (`OpenUnderId`), and the transport of a device about to be
  deleted is closed unless another client opened it (`DeletedIsClosed`). An edit
  that changes a device other than the one it closed adds it to `raced` or to
  `misread`, and connecting or closing that device takes it out.
- `LinkInv`: after an intact exchange nothing is in the stream or coming
  (`NothingLate`), which is why the next read finds its own reply; that `Deserialize`
  takes exactly a line or a block is a lemma each.
- `CatalogueInv`: both directories of a script hold one version
  (`DirectoriesWhole`), what each step relies on (`OperationFits`), and where the
  acknowledged version is at each step (`ScriptsKept`): in place, set aside, or
  again in place.
- `ResultsInv`: before the first crash, what a directory holds follows from how far
  its task's completion has come, unless it is being deleted (`TaskFits`); a
  deletion still has every path of the directory before it (`DeletionFits`); what
  is being migrated is of an outcome (`ReaderFits`); recovery has written the index
  and the result before the record (`RecoveryFits`); deletions are of tasks that
  ended (`VictimsEnded`). That no more than the policy allows are kept (`KeptFits`)
  is a cardinality argument: the latest completion to look lists everything that is
  listed, and keeps the first `MaxResults`.
- `InstallInv`: a release that passes validation without being whole was cut off in
  its extraction (`CutIsKnown`), the configuration's ports are the saved ones or
  torn (`PortsAgree`), and a run between saving and activating is known to be ahead
  (`RunIsAhead`).

**`BuiltinScriptsProofs`** proves of the builtin scripts, for any number of points,
runs, faults and samples per block, that a saved table is true
(`SavedTableStaysTrue`), that a point of the curve is of readings in a row
(`SettledPointStaysContinuous`), and that a script ends with everything off
(`ScriptsEndOff`). A saved table says nothing of how it came about, so `ScriptsInv`
says at each call of a script what the bench can be in:

- `PcInside`: the next call is one of the program or its end. Each program is
  written out once (`VoltageText`, ...), and lemmas compare it with `Body`.
- `VoltageFits`, `CurrentFits`: from the emptied table (voltage) or the transaction
  that was aborted before (current) to the commit, what is staged is this run's, and
  nothing waits but the capture of the present point (`CaptureWaits`), at a level
  that stays until the script has heard it end. That makes the table true when
  `commit` is sent, and `CommitIsTrue` keeps it true while `commit` waits.
- `StreakFits`: blocks kept and the one begun are no more than the readings in a row.
- `CleanupFits`: what the cleanup has come past (`Given`) and has not failed is off;
  for the relay, that no `relayOn` waits without a `relayOff` behind it
  (`RelayEndsOff`), since the supply obeys later.
- `SwapFits`: the source is off when the operator is told to replace the resistor.

The assumptions (`ScriptsAssumption`) are at least one point and one sample in a
block, natural bounds, and scripts that have a program. `Obey` had two cases that
hold at once outside a transaction, of which TLC took the first; that a step could
not be proved from the other showed it, and its cases now exclude each other.

**`CardsProofs`** proves what the run `CardsOne` checks of the five control
widgets: that what is busy has something that ends it (`BusyEnds`), that at rest a
widget shows its device (`RestShowsDevice`), that no trip is told twice in a
session and each toggle command finds the device in the other state
(`ToldAndSentOnce`), for any devices, presets, trigger slots, values and requests in
flight. The assumptions: those whose protections can be switched are devices
(`SuppliesAssumption`), and the bound on trips is a natural. No
widget's property is inductive: each is about what is shown, and what will be shown
depends on the requests on the wire and on the answers that will be taken as
outdated. `CardsInv` has an invariant of each widget, about its wire:

- `ToggleInv`: at most one request is still listened to; it is for the widget's
  device, and the last, unless it is the automatic check, which is shared
  (`ToggleAims`); a command is asked for when nothing else is on its way
  (`ToggleWrites`), so nothing switches the device before it arrives.
- `ValueInv`: a measurement that loads has its poll (`ValueOwned`); the write that
  is listened to is the last (`ValueWrites`), and once it was acknowledged no write
  is on its way and what is measured is new (`ValueFresh`): a poll asked for before
  the write is answered before it, since answers come in order.
- `TriggerInv`: the card's own request is the last on the wire (`TriggerAims`), so at
  rest nothing is on its way, not even what is outdated (`TriggerRest`).
- `ProtectedInv`: the card is busy while one full reading or write of its own is on
  its way (`ProtectedBusy`); the two references to running promises are held as long
  as their readings are of use (`ProtectedHeld`); no write is behind a full reading, or
  on its way when it has begun (`ProtectedReading`); what was read of a trip in the
  middle of a full reading can still be told as it will be (`TripRead`), which is what
  no trip being told twice rests on when polls and full readings interleave.
- `TimerInv`: a card that loads has an action on its way, a status of its preset and
  device, or effects to run (`TimerBusy`).

A lemma for each continuation of a widget's request says what its answer makes of
widget and wire; three lemmas about the wire (`WireTaken`, `WireAsked`,
`WireMapped`) say what taking a frame, sending one and outdating all leave in place.

**`IdeProofs`** proves of the task console, for any tasks, ends, lengths of log and
pages kept, that what is shown is of the task shown (`ShownIsOfTask`), that the
pages of the log are an unbroken run (`LogIsUnbroken`) and that the status settles on
the end of the task (`StatusIsTheEnd`): together, what the run checks of it
(`ConsoleShowsTask`). Requests outlive the task they were asked
for, so the invariant (`Good`) says of each what its answer may still do: a log
request that is listened to (`cur`) is of the task shown (`PagesOf`); unless one of an
earlier opening was in flight (`crossed`), there is one at most, it asks from the
present offset, and what is shown is the end of what came before it (`InOrder`); a
result on show is the task's (`ResultOf`). That a status read before the end is not
shown after it is `AtEnd`, which rests on the runner's side (`Faithful`): the event
that ended a task is of the state it stays in, and that event asks for the status
again. The assumptions are natural bounds, and that no task is the value that stands
for none.

Of the document, as the instance `Ide`, it proves for any scripts, texts, templates
and number of requests in flight that a clean buffer at rest is what is stored
(`CleanBufferIsStored`) and that unsaved text goes only with consent
(`UnsavedTextIsKept`); `Distinct`, that no script and no text is the value that stands
for none, is the hypothesis of these theorems. They are the parts `CleanIsStored` and
`GuardedStep` of `SettledIsStored` and `OperatorIsObeyed`. `DocInv` has these parts:

- `Named`: whatever refers to a script refers to one that is or was stored;
- `Restoring`: answers that are listened to are for the open document, or one for the
  document being restored: this alone keeps late answers from unsaved text;
- `Lonely`, `Read`, `Listened`: unless requests crossed, a save or a run is alone, what
  was read is what is stored, and a save nobody listens to leaves no document behind;
- `InStep`: the text the buffer was last in step with is stored, unless a save or run
  is on its way or its failure is told. It is false between the runner's store and
  the answer, which is why `Took`, the request taken off the wire, and what its
  continuation does are treated apart (`TookIsSound`, `ReplacedIsGood`);
- `Waiting`: so is the document that waits for the operator's consent.

The invariant found an error in the model: with two requests in flight `CleanIsStored`
is false, which one request had hidden; section 4 has the behaviour.

Of the x/y chart, as the instance `Xy`, it proves for any queries, limits and number
of samples that pairs go forward in time and are recorded once, are of the queries
set up now, and that a reload shows the same (`PairsAreFaithful`), unless one save
changed queries and limit (section 4). That is `XyIsFaithful`, the half of
`ChartsAreFaithful` about this chart; its hypothesis `LimitsAreSizes` is that limits
are natural numbers. Saving keeps an end of the points (`KeptIsEnd`), which keeps
their order; the rest is why a pair is never made twice. `ChartInv` has:

- `Recorded`: of the points and of the record alike, order, origin, and that no pair is
  younger than the reading its query still holds: the record outlives the card and
  is shown again by one that starts with the cached readings as seeds;
- `AxisSound`: what an axis has is of its query, and younger neither than what was last
  looked at nor than the reading held;
- `AxisAdvances`: no pair has a younger sample than the one the next pair will have,
  and a fresh one is younger than all;
- `AxisLooked`: a reading an axis has not looked at is younger than every pair not
  covered by its last look, which is why only samples newer than the last are taken.
  A listener that starts has looked at one axis only, so the lemmas carry the set of
  axes looked at.

Model-checked only: liveness, which needs fairness and `ENABLED`, beyond this
prover; the polls of the page, whose intervals are folds over the widgets, a
recursion this prover cannot unfold; the series charts, whose points are sorted and
merged by folds; the other screens and dialogs of `MCScreens`; and the violations of section 4.

## 6. Not modelled

- Presentation: modal frames, fields, card frames, colours, texts; the drawing
  and export of charts; chart statistics and period estimation, which are floating
  point over one array and keep no state.
- HTTP translation without state: logs, series, sources, error mapping, CORS; the
  counting and truncation in result assembly; the task log's file.
- GraalVM and the argument checks of bindings; filters and pages of the runner's
  catalogues; the built-in catalogue, which is read-only.
- Network discovery; the TCP transport beside the USB one (it differs in how it
  opens and in having no answer to a write); the proxy's default device and the
  texts of registry commands.
- Starting and stopping services, and their logs: commands handed to the
  platform's service manager.
- Test support, example scripts, build and release files.

Left to do: a refinement of the result store to an atomic map; the proxy with
several browsers over one connection manager, composed with `BrowserDevices` and
`DeviceSessions`; proofs about the catalogue, the device manager, the dashboards and the series charts.
