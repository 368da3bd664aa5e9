------------------------------ MODULE MCScreens ------------------------------
(***************************************************************************)
(* The screens of the front end: the parts of the IDE, the connections,    *)
(* their devices and their log, and the layout of the dashboards.  One at  *)
(* a time: they share the backend and the browser's storage, but no state  *)
(* of their own.  Some are run more than once: the console with a log of   *)
(* several pages, which is the module extended here, and with prompts and  *)
(* ends of every kind; the document with two scripts, and with two         *)
(* requests in flight; the task table page by page, and with a page of     *)
(* several tasks; the device manager of the Script Runner with two         *)
(* endpoints, and with its forms.  And what the cards of a dashboard read  *)
(* and keep: polls, points and settings.                                   *)
(***************************************************************************)
EXTENDS ScriptConsole

VARIABLES which, screen

Asking == INSTANCE ScriptConsole WITH
  w <- screen,
  Tasks <- {"t1", "t2"}, Submitted <- "t1", Past <- {"INTERRUPTED"},
  EndStates <- {"COMPLETED", "CANCELLED"}, MaxPrompts <- 1, MaxLog <- 0, MaxShown <- 1, Tabs <- {"result"}, MaxPages <- 2
Document == INSTANCE IdeDocument WITH
  w <- screen, Scripts <- {"s1", "s2"}, Texts <- {"a", "b"}, Templates <- {"a"}, MaxWire <- 1
Editor == INSTANCE IdeDocument WITH
  w <- screen, Scripts <- {"s1"}, Texts <- {"a"}, Templates <- {"b"}, MaxWire <- 2
ASSUME DocumentAssumption == Document!Distinct /\ Editor!Distinct
Paging == INSTANCE TaskList WITH
  w <- screen, Tasks <- <<"t1", "t2">>, PageSize <- 1, MaxWire <- 2
Table == INSTANCE TaskList WITH
  w <- screen, Tasks <- <<"t1", "t2">>, PageSize <- 2, MaxWire <- 2
Catalogue == INSTANCE SourceList WITH
  w <- screen, Scripts <- <<"s1", "s2", "s3">>, Matching <- {"s1", "s3"}, PageSize <- 2, MaxWire <- 1
Menu == INSTANCE MenuBar WITH
  w <- screen, Templates <- {"t1"}, MaxPath <- 2
Counts(task, name) == IF name = "voltage" THEN IF task = "t1" THEN 5 ELSE 4 ELSE 1
Series == INSTANCE ResultSeries WITH
  w <- screen, Tasks <- {"t1", "t2"}, Names <- {"voltage", "current"}, Count <- Counts, Invalid <- {3},
  PageLimit <- 2, Cap <- 3, MaxOpens <- 2

Rows == INSTANCE HttpDevices WITH
  w <- screen, Urls <- {"a", "b"}, Ids <- {"d1"}, Given <- {"d1"}, Forms <- {}, MaxWire <- 2
Dialogs == INSTANCE HttpDevices WITH
  w <- screen, Urls <- {"a"}, Ids <- {"d1"}, Given <- {"d1"}, Forms <- {"add", "edit", "delete"}, MaxWire <- 1
Manager == INSTANCE DeviceForms WITH
  w <- screen, Names <- {"A", "B"}, MaxWire <- 2, MaxRequests <- 6
Monitor == INSTANCE MonitorLog WITH
  w <- screen, MaxLines <- 2, MaxBytes <- 3, Messages <- {<<1>>, <<2, 1>>, <<5>>}, Devices <- {"d1"}, MaxRequests <- 2, MaxAppends <- 3
Connection == INSTANCE ConnectionConfig WITH
  w <- screen, Endpoints <- {"none", "a", "b"}, Complete <- {"a", "b"}, Devices <- {"d1", "d2"}, Runtime <- "b"
WithoutBlanks(e) == IF e = "a " THEN "a" ELSE e
RunnerPage == INSTANCE RunnerConfig WITH
  w <- screen, Typed <- {"", "a", "a ", "b"}, Trimmed <- WithoutBlanks, Valid <- {"a", "a ", "b"}, Devices <- {"d1", "d2"},
  Default <- "a", Runtime <- "c"

(* The operator's dashboard is run twice: with its defaults, adding and    *)
(* removing, and with old or damaged layouts, dragging.  Two pointers drag *)
(* on another page.                                                        *)
Layout(kind, hash, widgets) == [kind |-> kind, hash |-> hash, widgets |-> widgets]
At(id, type, x, y, wide, high) == [id |-> id, type |-> type, x |-> x, y |-> y, w |-> wide, h |-> high]
Nothing == Layout("none", "", <<>>)
Old == {Nothing, Layout("damaged", "", <<>>), Layout("noWidgets", "", <<>>),
  Layout("layout", "", <<At("chart1", "chart", 1, 0, 2, 2), At("lost", "removedType", 0, 3, 1, 1),
                         At("toggle", "control", 2, 1, 1, 1), At("value2", "control", 4, 2, 5, 9)>>)}
Proxies == {Nothing, Layout("noWidgets", "current", <<>>)} \union
  {Layout("layout", hash, <<At("devices", "deviceList", 0, 1, 3, 1), At("monitor", "monitor", 2, 0, 2, 2)>>) :
     hash \in {"current", "older"}}

Operator == INSTANCE Dashboard WITH
  w <- screen, Page <- "operator", Taken <- {"value1", "value2", "value3", "value4", "value5", "toggle", "trip", "rate",
                                "chart1", "chart2", "chart3", "chart4"},
  New <- {"n1"}, Pointers <- {}, Stored <- {Nothing}, MaxRow <- 8, MaxEdits <- 2
Edited == INSTANCE Dashboard WITH
  w <- screen, Page <- "operator", Taken <- {"chart1", "toggle"}, New <- {"n1"}, Pointers <- {"p1"},
  Stored <- Old, MaxRow <- 2, MaxEdits <- 2
Other == INSTANCE Dashboard WITH
  w <- screen, Page <- "other", Taken <- {"power"}, New <- {"n1"}, Pointers <- {"p1", "p2"}, Stored <- {Nothing}, MaxRow <- 2, MaxEdits <- 3
Proxy == INSTANCE Dashboard WITH
  w <- screen, Page <- "proxy", Taken <- {"websocket", "monitor", "devices"}, New <- {}, Pointers <- {"p1"},
  Stored <- Proxies, MaxRow <- 0, MaxEdits <- 0

(* What the cards read and keep: what the page polls for them, their       *)
(* points, and their settings.                                             *)
Page == INSTANCE PageRequests WITH
  page <- screen, Widgets <- <<"w1", "w2">>, Queries <- {"q1", "q2"}, Rates <- {1, 2}, Commands <- {"c1"},
  MaxWire <- 2

Chart == INSTANCE ChartHistory WITH
  w <- screen, Sources <- {"voltage", "current"}, DeviceOf <- [s \in {"voltage", "current"} |-> IF s = "voltage" THEN "d1" ELSE "d2"],
  Fixed <- "current", Caps <- {1, 3}, Block <- 2, MaxSample <- 4
Pairs == INSTANCE XyChart WITH
  w <- screen, Sources <- {"voltage", "current"}, Caps <- {1, 2}, MaxTime <- 3
ASSUME ChartAssumption == Pairs!LimitsAreSizes
Settings == INSTANCE ControlSettings WITH
  w <- screen, MaxEdits <- [k \in {"value", "toggle", "trip", "trigger", "chart", "xy"} |-> IF k = "trip" THEN 2 ELSE 3]

ScreenInit ==
  \/ which = "asking" /\ Asking!Init
  \/ which = "document" /\ Document!Init
  \/ which = "editor" /\ Editor!Init
  \/ which = "paging" /\ Paging!Init
  \/ which = "tasks" /\ Table!Init
  \/ which = "sources" /\ Catalogue!Init
  \/ which = "menu" /\ Menu!Init
  \/ which = "series" /\ Series!Init
  \/ which = "rows" /\ Rows!Init
  \/ which = "forms" /\ Dialogs!Init
  \/ which = "manager" /\ Manager!Init
  \/ which = "monitor" /\ Monitor!Init
  \/ which = "connection" /\ Connection!Init
  \/ which = "runner" /\ RunnerPage!Init
  \/ which = "operator" /\ Operator!Init
  \/ which = "edited" /\ Edited!Init
  \/ which = "other" /\ Other!Init
  \/ which = "proxy" /\ Proxy!Init
  \/ which = "page" /\ Page!Init
  \/ which = "chart" /\ Chart!Init
  \/ which = "pairs" /\ Pairs!Init
  \/ which = "settings" /\ Settings!Init
ScreenNext ==
  \/ which = "asking" /\ Asking!Next
  \/ which = "document" /\ Document!Next
  \/ which = "editor" /\ Editor!Next
  \/ which = "paging" /\ Paging!Next
  \/ which = "tasks" /\ Table!Next
  \/ which = "sources" /\ Catalogue!Next
  \/ which = "menu" /\ Menu!Next
  \/ which = "series" /\ Series!Next
  \/ which = "rows" /\ Rows!Next
  \/ which = "forms" /\ Dialogs!Next
  \/ which = "manager" /\ Manager!Next
  \/ which = "monitor" /\ Monitor!Next
  \/ which = "connection" /\ Connection!Next
  \/ which = "runner" /\ RunnerPage!Next
  \/ which = "operator" /\ Operator!Next
  \/ which = "edited" /\ Edited!Next
  \/ which = "other" /\ Other!Next
  \/ which = "proxy" /\ Proxy!Next
  \/ which = "page" /\ Page!Next
  \/ which = "chart" /\ Chart!Next
  \/ which = "pairs" /\ Pairs!Next
  \/ which = "settings" /\ Settings!Next
MCInit == Init /\ ((which = "console" /\ screen = <<>>) \/ ScreenInit)
MCNext ==
  \/ which = "console" /\ Next /\ UNCHANGED <<which, screen>>
  \/ ScreenNext /\ UNCHANGED <<which, w>>
MCSpec == MCInit /\ [][MCNext]_<<which, screen, w>>
WireBound == which = "page" => Page!WireBound

-----------------------------------------------------------------------------
(* What is at rest shows what the runner has: a console that was asked     *)
(* for input the end of its task and its result, a chart of a result a     *)
(* part of each series without gaps, a clean editor the stored script (or  *)
(* one deleted elsewhere) unless it shows an error or requests crossed     *)
(* (README, section 4), a catalogue the page of its filter and offset as   *)
(* it is after every deletion it was told of, a device manager the devices *)
(* of its endpoint or proxy.  What is stored is what a reload shows: the   *)
(* endpoints and auto-connect switches, also those of older releases.  And *)
(* everything that waits comes to rest: the key that keeps a page of tasks *)
(* from being read twice, the marks of rows and the forms are held only    *)
(* while a request is on its way that will end them.  The monitor's log is *)
(* the newest lines that fit, an answer under its request's tag.           *)
SettledIsStored ==
  /\ which = "asking" => Asking!ConsoleIsFaithful
  /\ which = "series" => Series!SeriesIsWhole
  /\ which = "document" => Document!CleanIsStored
  /\ which = "editor" => Editor!CleanIsStored
  /\ which = "sources" => Catalogue!SettledPage
  /\ which = "rows" => Rows!RowsSettle /\ Rows!MarksAreHeld
  /\ which = "forms" => Dialogs!RowsSettle /\ Dialogs!MarksAreHeld
  /\ which = "manager" => Manager!RowsSettle /\ Manager!WaitsForAnswer
  /\ which = "monitor" => Monitor!LogIsNewest /\ Monitor!AnswersAreTagged
  /\ which = "connection" => Connection!SwitchesAreStored /\ Connection!SocketIsStored
  /\ which = "runner" => RunnerPage!EndpointIsStored
  /\ which = "paging" => Paging!RefreshNotBlocked
  /\ which = "tasks" => Table!RefreshNotBlocked

(* Text that is not saved goes only with the operator's consent, with the  *)
(* answer of a save or a run, or with a template asked for while the       *)
(* buffer was clean: no navigation, restore or late answer replaces it.    *)
(* When a confirmed cancellation succeeds the runner has taken each of its *)
(* requests: all its tasks are cancelling or have ended.  No key, mnemonic *)
(* or click carries out a disabled menu item, and the monitor is cleared   *)
(* by two clicks on its button and none elsewhere.  No device is connected *)
(* unasked but once per endpoint, and no socket after a clear.             *)
OperatorIsObeyed ==
  [][/\ which = "document" => Document!GuardedStep
     /\ which = "editor" => Editor!GuardedStep
     /\ which = "paging" => Paging!CancelStep
     /\ which = "tasks" => Table!CancelStep
     /\ which = "menu" => Menu!DisabledIsInert'
     /\ which = "rows" => Rows!AutoStep
     /\ which = "forms" => Dialogs!AutoStep
     /\ which = "monitor" => Monitor!ClearStep
     /\ which = "connection" => Connection!ClearIsFinal' /\ Connection!OpenStep
     /\ which = "runner" => RunnerPage!DraftStep]_<<which, screen, w>>

(* Whatever layout was stored, and while widgets are added, dragged by two *)
(* pointers, removed and reset: they stay apart and within the grid, a     *)
(* reload shows the same layout, and a default widget has its settings.    *)
(* And the operator's pages keep no data or settings of a widget that was  *)
(* removed.                                                                *)
DashboardIsSound ==
  /\ which = "operator" => Operator!DashboardIsSound /\ Operator!RemovedDataGone
  /\ which = "edited" => Edited!DashboardIsSound /\ Edited!RemovedDataGone
  /\ which = "other" => Other!DashboardIsSound
  /\ which = "proxy" => Proxy!DashboardIsSound

(* A chart shows and stores only values sent by the sources it is set up   *)
(* for now, those of a failed poll under a later time; it loses no point   *)
(* that is newer than one it shows, and shows the same points after a      *)
(* reload.  The pairs of an x/y chart go forward in time, none is recorded *)
(* twice and, unless one save changed its sources and its limit (README,   *)
(* section 4), none mixes an old source with a new one.                    *)
ChartsAreFaithful ==
  /\ which = "chart" => Chart!ChartIsFaithful
  /\ which = "pairs" => Pairs!XyIsFaithful

(* What a settings dialog saved is run by its card and comes back as it    *)
(* was typed: the dialog, the stored form and the card each check it by    *)
(* code of their own.                                                      *)
SavedSettingsRun == which = "settings" => Settings!SavedSettingsRun

(* Whatever is in storage, by a dialog, another tab or an editor, what is  *)
(* polled are valid queries of a chosen device, and the card runs on what  *)
(* is stored.  There is an interval exactly for the queries a saved widget *)
(* wants, at the fastest rate any of them asks for, after widgets were     *)
(* saved, removed and unmounted in any order; a query that loads has a     *)
(* poll it owns, polls and commands wait for a socket that can still       *)
(* answer them, and no value read before a refresh is shown after it.      *)
PollingIsSound ==
  /\ which = "page" =>
       /\ Page!IntervalsMatchWidgets
       /\ Page!LoadingIsOwned /\ Page!WaitsForThisSocket
       /\ Page!RefreshedValueIsNew
  /\ which = "settings" => Settings!PollingIsSound
=============================================================================
