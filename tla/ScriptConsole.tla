---------------------------- MODULE ScriptConsole ----------------------------
(***************************************************************************)
(* The task console of the IDE, next to the runner it asks.  The console   *)
(* follows the event stream of the task it shows, asks for the task's      *)
(* status after every event, for pages of its log while the Logs tab is    *)
(* open, for its result when it ends, and posts the operator's answers.    *)
(*                                                                         *)
(* w.srv is the runner's side of each task: its state, the prompt it waits *)
(* on (0 for none), the prompts it has asked, the length of its log in     *)
(* pages, whether its result is stored and the events it has published.    *)
(* A reply is "none", "asked" or what the server read; only the newest     *)
(* status and result request can have an effect, so each has one slot,     *)
(* while an outdated log request still clears the in-flight flag.          *)
(***************************************************************************)
EXTENDS Naturals, Sequences, SequencesExt

CONSTANTS
  Tasks,
  Submitted, \* the task that is submitted now; the others are past tasks
  Past,      \* states the past tasks are in
  EndStates, \* ways the new task may end
  MaxPrompts, MaxLog,
  MaxShown,  \* pages of log the console keeps
  Tabs,      \* the tabs the operator opens, besides the first
  MaxPages   \* bound: requests for log pages in flight

ASSUME ConsoleAssumption ==
  /\ "none" \notin Tasks
  /\ MaxShown \in Nat /\ MaxPrompts \in Nat /\ MaxLog \in Nat /\ MaxPages \in Nat

VARIABLE w

Ended == {"COMPLETED", "FAILED", "CANCELLED", "TIMED_OUT"}
Cancellable == {"QUEUED", "RUNNING", "PENDING_INPUT"}

-----------------------------------------------------------------------------
(* The runner: each step publishes the event of its change; an end is      *)
(* published before the result is stored.                                  *)
Published(t, s, type) == [s EXCEPT !.events = Append(@, [type |-> type, prompt |-> s.prompt])]
Moved(t, s) == w' = [w EXCEPT !.srv[t] = s]
ServerStarts(t) ==
  LET s == w.srv[t] IN s.state = "QUEUED" /\ Moved(t, Published(t, [s EXCEPT !.state = "RUNNING"], "STARTED"))
ServerLogs(t) ==
  LET s == w.srv[t] IN s.state = "RUNNING" /\ s.log < MaxLog /\ Moved(t, [s EXCEPT !.log = @ + 1])
ServerAsks(t) ==
  LET s == w.srv[t] IN
    /\ s.state = "RUNNING" /\ s.asked < MaxPrompts
    /\ Moved(t, Published(t, [s EXCEPT !.state = "PENDING_INPUT", !.asked = @ + 1, !.prompt = s.asked + 1],
                          "INPUT_REQUESTED"))
(* Nobody answers before the prompt's deadline: the runner does, with 1.   *)
ServerDefaults(t) ==
  LET s == w.srv[t] IN
    /\ s.state = "PENDING_INPUT"
    /\ Moved(t, Published(t, [s EXCEPT !.state = "RUNNING", !.prompt = 0], "INPUT_RESOLVED"))
(* Only a prompt resolved while the task goes on is published as resolved. *)
ServerCancels(t) ==
  LET s == w.srv[t] IN
    /\ s.state \in Cancellable /\ "CANCELLED" \in EndStates
    /\ Moved(t, Published(t, [s EXCEPT !.state = "CANCELLING", !.prompt = 0], "CANCELLING"))
ServerEnds(t) ==
  LET s == w.srv[t] IN
    \E end \in EndStates \intersect (CASE s.state = "RUNNING" -> {"COMPLETED", "FAILED", "TIMED_OUT"}
                                 [] s.state = "PENDING_INPUT" -> {"TIMED_OUT"}
                                 [] s.state = "CANCELLING" -> {"CANCELLED", "TIMED_OUT"}
                                 [] OTHER -> {}) :
      Moved(t, Published(t, [s EXCEPT !.state = end, !.prompt = 0], end))
ServerStores(t) ==
  LET s == w.srv[t] IN s.state \in Ended /\ ~s.stored /\ Moved(t, [s EXCEPT !.stored = TRUE])

-----------------------------------------------------------------------------
(* What the effects of a render do: the log effect and the result effect   *)
(* run again when the tab or the status changes.                           *)
ReadLog(x) ==
  IF x.inFlight THEN x
  ELSE [x EXCEPT !.inFlight = TRUE,
                 !.logs = Append(@, [task |-> x.task, from |-> x.offset, len |-> "asked", cur |-> TRUE])]
LogEffect(x) ==
  LET y == [x EXCEPT !.logs = [i \in DOMAIN @ |-> [@[i] EXCEPT !.cur = FALSE]]]
  IN IF x.tab = "logs" THEN ReadLog(y) ELSE y
ResultEffect(x) ==
  IF x.tab = "result" \/ x.status \in Ended
  THEN [x EXCEPT !.result.asked = "asked", !.result.state = IF @ = "ready" THEN "ready" ELSE "loading"]
  ELSE [x EXCEPT !.result.asked = "none"]
Effects(x) == ResultEffect(LogEffect(x))

SetStatus(x, state) == IF state \in {"", x.status} THEN x ELSE Effects([x EXCEPT !.status = state])
SetTab(x, tab) == IF tab = x.tab THEN x ELSE Effects([x EXCEPT !.tab = tab])

RefreshStatus(x) == [x EXCEPT !.reply = "asked", !.snapshot = [state |-> "", prompt |-> 0]]

OpenTask(t, state) ==
  LET idle == [state |-> "idle", of |-> "none", asked |-> "none"]
      x == [w EXCEPT !.task = t, !.row = state, !.tab = "sse", !.pos = 0, !.stream = "open", !.prompt = 0,
                     !.shown = <<>>, !.offset = 0, !.inFlight = FALSE, !.result = idle, !.posted = 0,
                     !.status = state, !.crossed = \E i \in DOMAIN w.logs : TRUE]
  IN w' = IF <<w.task, w.row>> = <<t, state>> THEN w ELSE Effects(RefreshStatus(x))
ClickRow(t) == OpenTask(t, w.srv[t].state)
RunAnswered(t) == w.srv[t].state = "QUEUED" /\ w.task # t /\ OpenTask(t, "QUEUED")
Close ==
  /\ w.task # "none"
  /\ w' = [w EXCEPT !.task = "none", !.row = "", !.tab = "sse", !.pos = 0, !.stream = "closed", !.prompt = 0,
                    !.shown = <<>>, !.offset = 0, !.inFlight = FALSE, !.logs = <<>>, !.posted = 0, !.status = "",
                    !.result = [state |-> "idle", of |-> "none", asked |-> "none"],
                    !.reply = "none", !.snapshot = [state |-> "", prompt |-> 0], !.crossed = FALSE]
SelectTab == w.task # "none" /\ \E tab \in Tabs \union {"sse"} : w' = SetTab(w, tab)
LogTimer == w.tab = "logs" /\ w.status \notin Ended /\ w' = ReadLog(w)

-----------------------------------------------------------------------------
(* The event stream.  A connection the browser has to open again replays   *)
(* the task from its first event.                                          *)
StateForEvent(e) ==
  CASE e.type \in {"STARTED", "INPUT_RESOLVED"} -> "RUNNING"
    [] e.type = "INPUT_REQUESTED" -> "PENDING_INPUT"
    [] OTHER -> e.type
EventPrompt(x, e) ==
  CASE e.type = "INPUT_REQUESTED" -> e.prompt [] e.type = "INPUT_RESOLVED" -> 0 [] OTHER -> x.prompt
EventArrives ==
  /\ w.stream = "open" /\ w.pos < Len(w.srv[w.task].events)
  /\ LET e == w.srv[w.task].events[w.pos + 1]
         x == SetStatus([w EXCEPT !.pos = @ + 1, !.prompt = EventPrompt(w, e)], StateForEvent(e))
     IN w' = [RefreshStatus(x) EXCEPT !.stream = IF e.type \in Ended THEN "ended" ELSE @]
StreamReconnects == w.stream = "open" /\ w.pos > 0 /\ w' = [w EXCEPT !.pos = 0]
StreamRefused == w.stream = "open" /\ w.pos = 0 /\ w' = [w EXCEPT !.stream = "closed"]

(* The status request: read by the server, then shown.                     *)
StatusRead ==
  /\ w.reply = "asked"
  /\ w' = [w EXCEPT !.reply = "read", !.snapshot = [state |-> w.srv[w.task].state, prompt |-> w.srv[w.task].prompt]]
StatusAnswer ==
  /\ w.reply = "read"
  /\ LET p == w.snapshot.prompt IN
       w' = SetStatus([w EXCEPT !.reply = "none", !.snapshot = [state |-> "", prompt |-> 0],
                                !.prompt = IF p # 0 THEN p ELSE @], w.snapshot.state)
StatusFails == w.reply # "none" /\ w' = [w EXCEPT !.reply = "none", !.snapshot = [state |-> "", prompt |-> 0]]

-----------------------------------------------------------------------------
(* Log pages: one page per request.                                        *)
Kept(s) == IF Len(s) <= MaxShown THEN s ELSE SubSeq(s, Len(s) - MaxShown + 1, Len(s))
PageRead(i) ==
  /\ w.logs[i].len = "asked"
  /\ w' = [w EXCEPT !.logs[i].len = IF w.srv[w.logs[i].task].log > w.logs[i].from THEN "page" ELSE "empty"]
TookPage(i) == [w EXCEPT !.logs = RemoveAt(@, i), !.inFlight = FALSE]
AnswerOfAnyEffect(i) ==          \* mutant: the answer of an effect that was cleaned up is shown
  LET x == TookPage(i) page == w.logs[i] IN
    IF page.len # "page" THEN x
    ELSE [x EXCEPT !.offset = @ + 1, !.shown = Kept(Append(@, [task |-> page.task, page |-> page.from + 1]))]
PageShown(i) ==
  LET x == TookPage(i) page == w.logs[i] IN
    IF ~page.cur \/ page.len # "page" THEN x
    ELSE [x EXCEPT !.offset = @ + 1, !.shown = Kept(Append(@, [task |-> page.task, page |-> page.from + 1]))]
PageAnswer(i) == w.logs[i].len # "asked" /\ w' = PageShown(i)
PageFails(i) == w' = TookPage(i)

(* The result: of a task whose result is not stored yet, an error.         *)
ResultRead ==
  w.result.asked = "asked" /\ w' = [w EXCEPT !.result.asked = IF w.srv[w.task].stored THEN w.task ELSE "missing"]
ResultAnswer ==
  /\ w.result.asked \notin {"none", "asked"}
  /\ w' = [w EXCEPT !.result = IF @.asked = "missing" THEN [state |-> "error", of |-> @.of, asked |-> "none"]
                               ELSE [state |-> "ready", of |-> @.asked, asked |-> "none"]]
ResultFails == w.result.asked # "none" /\ w' = [w EXCEPT !.result.asked = "none", !.result.state = "error"]

-----------------------------------------------------------------------------
(* The operator answers the prompt shown; what is accepted ends it.  The   *)
(* answer closes whatever prompt is shown when it arrives.                 *)
PromptShown == w.tab = "sse" /\ w.prompt # 0
Submit == PromptShown /\ w.posted = 0 /\ w' = [w EXCEPT !.posted = w.prompt]
InputAccepted ==
  LET s == w.srv[w.task] IN
    /\ w.posted # 0 /\ s.prompt = w.posted
    /\ w' = [w EXCEPT !.srv[w.task] = Published(w.task, [s EXCEPT !.state = "RUNNING", !.prompt = 0], "INPUT_RESOLVED"),
                      !.posted = MaxPrompts + 1]
InputAnswer == w.posted = MaxPrompts + 1 /\ w' = [w EXCEPT !.posted = 0, !.prompt = 0]
InputRejected == w.posted \in 1..MaxPrompts /\ w.srv[w.task].prompt # w.posted /\ w' = [w EXCEPT !.posted = 0]

-----------------------------------------------------------------------------
New == [state |-> "QUEUED", prompt |-> 0, asked |-> 0, log |-> 0, stored |-> FALSE, events |-> <<>>]
Init ==
  \E past \in Past :
    w = [srv |-> [t \in Tasks |-> IF t = Submitted THEN New ELSE [New EXCEPT !.state = past, !.log = MaxLog, !.stored = TRUE]],
         task |-> "none", row |-> "", tab |-> "sse", pos |-> 0, stream |-> "closed", status |-> "", prompt |-> 0,
         reply |-> "none", snapshot |-> [state |-> "", prompt |-> 0], posted |-> 0,
         logs |-> <<>>, inFlight |-> FALSE, shown |-> <<>>, offset |-> 0, crossed |-> FALSE,
         result |-> [state |-> "idle", of |-> "none", asked |-> "none"]]
Runner(t) ==
  \/ ServerStarts(t) \/ ServerLogs(t) \/ ServerAsks(t) \/ ServerDefaults(t)
  \/ ServerCancels(t) \/ ServerEnds(t) \/ ServerStores(t)
Console ==
  \/ Close \/ SelectTab \/ LogTimer \/ EventArrives \/ StreamReconnects \/ StreamRefused
  \/ StatusRead \/ StatusAnswer \/ StatusFails \/ ResultRead \/ ResultAnswer \/ ResultFails
  \/ Submit \/ InputAccepted \/ InputAnswer \/ InputRejected
Next ==
  \/ \E t \in Tasks : Runner(t) \/ (Len(w.logs) < MaxPages /\ (ClickRow(t) \/ RunAnswered(t)))
  \/ Len(w.logs) < MaxPages /\ Console
  \/ \E i \in DOMAIN w.logs : PageRead(i) \/ PageAnswer(i) \/ PageFails(i)
Spec == Init /\ [][Next]_w

-----------------------------------------------------------------------------
(* What is shown is of the task shown, when tasks are opened and closed    *)
(* with requests in flight: pages of its log, and its result.              *)
OnlyThisTask ==
  /\ \A i \in DOMAIN w.shown : w.shown[i].task = w.task
  /\ w.result.state = "ready" => w.result.of = w.task

(* The log shown is the end of an unbroken run of pages, none lost or      *)
(* doubled by tab changes, status changes and failed requests, unless a    *)
(* request of an earlier opening was still in flight.                      *)
LogIsContiguous ==
  ~w.crossed => w.shown = Kept([n \in 1..w.offset |-> [task |-> w.task, page |-> n]])

(* Once the stream has ended and no status is asked for, the status shown  *)
(* is the state the task ended in, whatever answers were on their way.     *)
StatusSettles == (w.stream = "ended" /\ w.reply = "none") => w.status = w.srv[w.task].state

(* The console shows one task's log, result and end, whatever is on its way. *)
ConsoleIsFaithful == OnlyThisTask /\ LogIsContiguous /\ StatusSettles
=============================================================================
