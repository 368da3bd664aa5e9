------------------------------ MODULE IdeProofs ------------------------------
(***************************************************************************)
(* Theorems about the task console and the document of the IDE, and about  *)
(* the x/y chart, for any tasks, scripts, texts, queries and bounds.       *)
(*                                                                         *)
(* The console (ScriptConsole, the module extended): what it shows is of   *)
(* the task shown (ShownIsOfTask), the log has no gaps (LogIsUnbroken) and *)
(* the status settles on the end of the task (StatusIsTheEnd): together,   *)
(* ConsoleShowsTask.                                                       *)
(* The document (IdeDocument, as Ide): a clean buffer at rest shows what   *)
(* is stored (CleanBufferIsStored), and unsaved text goes only with        *)
(* consent (UnsavedTextIsKept).                                            *)
(* The x/y chart (XyChart, as Xy): pairs go forward in time, are of the    *)
(* sources configured and are what a reload shows (PairsAreFaithful).      *)
(*                                                                         *)
(* The first two have invariants about the requests in flight: whom an     *)
(* answer is for, and what it may bring; that of the chart is about what   *)
(* was last looked at, on either axis.                                     *)
(***************************************************************************)
EXTENDS ScriptConsole, SequenceTheorems, TLAPS

CONSTANTS Scripts, Texts, Templates, MaxWire   \* of the document
VARIABLE ide

Ide == INSTANCE IdeDocument WITH w <- ide

-----------------------------------------------------------------------------
(* The console.                                                            *)

TaskStates == {"QUEUED", "RUNNING", "PENDING_INPUT", "CANCELLING"} \union Ended \union Past
Types == {"STARTED", "INPUT_REQUESTED", "INPUT_RESOLVED", "CANCELLING"} \union Ended
Events == [type : Types, prompt : Nat]
Servers == [state : TaskStates, prompt : Nat, asked : Nat, log : Nat, stored : BOOLEAN, events : Seq(Events)]
Requests == [task : Tasks, from : Nat, len : {"asked", "page", "empty"}, cur : BOOLEAN]
Pages == [task : Tasks, page : Nat]
Results == [state : {"idle", "loading", "ready", "error"}, of : Tasks \union {"none"},
            asked : Tasks \union {"none", "asked", "missing"}]
Snapshots == [state : TaskStates \union {""}, prompt : Nat]
States ==
  [srv : [Tasks -> Servers], task : Tasks \union {"none"}, row : TaskStates \union {""}, tab : Tabs \union {"sse"}, pos : Nat,
   stream : {"closed", "open", "ended"}, status : TaskStates \union {""}, prompt : Nat, reply : {"none", "asked", "read"},
   snapshot : Snapshots, posted : Nat, logs : Seq(Requests), inFlight : BOOLEAN,
   shown : Seq(Pages), offset : Nat, crossed : BOOLEAN, result : Results]

(* With no task shown nothing is asked for.                                *)
Resting(x) ==
  x.task = "none" =>
    /\ x.tab = "sse" /\ x.stream = "closed" /\ x.reply = "none" /\ x.posted = 0 /\ x.prompt = 0
    /\ x.result.asked = "none" /\ Len(x.logs) = 0

(* The log effect that runs now asked for pages of the task shown.  With   *)
(* no request of an earlier opening in flight there is one request at      *)
(* most, and the pages shown are the last of those before the offset.      *)
Run(x) == [n \in 1..x.offset |-> [task |-> x.task, page |-> n]]
PagesOf(x) ==
  /\ \A i \in DOMAIN x.logs : x.logs[i].cur => x.logs[i].task = x.task
  /\ \A i \in DOMAIN x.shown : x.shown[i].task = x.task
InOrder(x) ==
  ~x.crossed =>
    /\ Len(x.logs) = (IF x.inFlight THEN 1 ELSE 0)
    /\ \A i \in DOMAIN x.logs : x.logs[i].cur => x.logs[i].from = x.offset
    /\ x.shown = Kept(Run(x))

ResultOf(x) ==
  /\ x.result.asked \in {"none", "asked", "missing", x.task}
  /\ x.result.state = "ready" => x.result.of = x.task

(* A prompt is open while its task waits for it, and an event that ends    *)
(* a task is of the state the task stays in.                               *)
Final(s) ==
  /\ s.prompt # 0 => s.state = "PENDING_INPUT"
  /\ \A i \in DOMAIN s.events : s.events[i].type \in Ended => s.state = s.events[i].type
Faithful(x) == \A t \in Tasks : Final(x.srv[t])

(* After the event that ended the task, what is read and shown is its end. *)
AtEnd(x) ==
  x.stream = "ended" =>
    /\ x.srv[x.task].state \in Ended /\ x.status = x.srv[x.task].state
    /\ x.reply = "read" => x.snapshot.state = x.srv[x.task].state

Good(x) == x \in States /\ Resting(x) /\ PagesOf(x) /\ InOrder(x) /\ ResultOf(x) /\ Faithful(x) /\ AtEnd(x)
Inv == Good(w)

-----------------------------------------------------------------------------
LEMMA Starts == ASSUME Init PROVE Inv
<1>1. PICK past \in Past : 
    w = [srv |-> [t \in Tasks |-> IF t = Submitted THEN New ELSE [New EXCEPT !.state = past, !.log = MaxLog, !.stored = TRUE]],
         task |-> "none", row |-> "", tab |-> "sse", pos |-> 0, stream |-> "closed", status |-> "", prompt |-> 0,
         reply |-> "none", snapshot |-> [state |-> "", prompt |-> 0], posted |-> 0,
         logs |-> <<>>, inFlight |-> FALSE, shown |-> <<>>, offset |-> 0, crossed |-> FALSE,
         result |-> [state |-> "idle", of |-> "none", asked |-> "none"]]
  BY DEF Init
<1>2. New \in Servers /\ New.events = <<>> /\ New.prompt = 0
  <2>1. PICK e : e = <<>>
    OBVIOUS
  <2>2. e \in Seq(Events)
    BY <2>1, EmptySeq
  <2>3. New = [state |-> "QUEUED", prompt |-> 0, asked |-> 0, log |-> 0, stored |-> FALSE, events |-> e]
    BY <2>1 DEF New
  <2>4. New \in Servers /\ New.events = e /\ New.prompt = 0
    BY ONLY <2>2, <2>3 DEF Servers, TaskStates
  <2> QED BY <2>1, <2>4
<1>3. PICK n : n = [New EXCEPT !.state = past, !.log = MaxLog, !.stored = TRUE]
  OBVIOUS
<1>4. n \in Servers /\ n.events = <<>> /\ n.prompt = 0
  <2>1. past \in TaskStates BY DEF TaskStates
  <2> QED BY <1>2, <1>3, <2>1, ConsoleAssumption DEF Servers
<1>5. PICK f : f = [t \in Tasks |-> IF t = Submitted THEN New ELSE n]
  OBVIOUS
<1>6. f \in [Tasks -> Servers] /\ \A t \in Tasks : f[t].events = <<>> /\ f[t].prompt = 0
  BY <1>2, <1>4, <1>5
<1>7. w = [srv |-> f, task |-> "none", row |-> "", tab |-> "sse", pos |-> 0, stream |-> "closed", status |-> "", prompt |-> 0,
         reply |-> "none", snapshot |-> [state |-> "", prompt |-> 0], posted |-> 0,
         logs |-> <<>>, inFlight |-> FALSE, shown |-> <<>>, offset |-> 0, crossed |-> FALSE,
         result |-> [state |-> "idle", of |-> "none", asked |-> "none"]]
  BY <1>1, <1>3, <1>5
<1>8. /\ w.srv = f /\ w.task = "none" /\ w.tab = "sse" /\ w.stream = "closed" /\ w.reply = "none" /\ w.posted = 0
      /\ w.prompt = 0 /\ w.logs = <<>> /\ w.inFlight = FALSE /\ w.shown = <<>> /\ w.offset = 0
      /\ w.result = [state |-> "idle", of |-> "none", asked |-> "none"]
  BY ONLY <1>7
<1>9. w \in States
  <2>1. PICK e : e = <<>>
    OBVIOUS
  <2>2. e \in Seq(Requests) /\ e \in Seq(Pages)
    BY <2>1, EmptySeq
  <2>3. PICK r : r = [state |-> "idle", of |-> "none", asked |-> "none"]
    OBVIOUS
  <2>4. r \in Results
    BY <2>3 DEF Results
  <2>5. PICK z : z = [state |-> "", prompt |-> 0]
    OBVIOUS
  <2>6. z \in Snapshots
    BY <2>5 DEF Snapshots
  <2>7. w = [srv |-> f, task |-> "none", row |-> "", tab |-> "sse", pos |-> 0, stream |-> "closed", status |-> "", prompt |-> 0,
             reply |-> "none", snapshot |-> z, posted |-> 0, logs |-> e, inFlight |-> FALSE, shown |-> e, offset |-> 0,
             crossed |-> FALSE, result |-> r]
    BY ONLY <1>7, <2>1, <2>3, <2>5
  <2> QED BY ONLY <1>6, <2>2, <2>4, <2>6, <2>7 DEF States
<1>10. Resting(w) /\ PagesOf(w) /\ ResultOf(w) /\ AtEnd(w)
  BY ONLY <1>8 DEF Resting, PagesOf, ResultOf, AtEnd
<1>11. InOrder(w)
  BY ONLY <1>8, ConsoleAssumption DEF InOrder, Kept, Run
<1>12. Faithful(w)
  BY ONLY <1>6, <1>8 DEF Faithful, Final
<1> QED BY <1>9, <1>10, <1>11, <1>12 DEF Inv, Good

(* A step of the runner changes one task's side and nothing else.          *)
OnlyServer(x, t, s, y) ==
  /\ y \in States
  /\ y.srv[t] = s /\ \A u \in Tasks : u # t => y.srv[u] = x.srv[u]
  /\ y.task = x.task /\ y.row = x.row /\ y.tab = x.tab /\ y.pos = x.pos /\ y.stream = x.stream
  /\ y.status = x.status /\ y.prompt = x.prompt /\ y.reply = x.reply /\ y.snapshot = x.snapshot
  /\ y.posted = x.posted /\ y.logs = x.logs /\ y.inFlight = x.inFlight /\ y.shown = x.shown
  /\ y.offset = x.offset /\ y.crossed = x.crossed /\ y.result = x.result

LEMMA MovedFields ==
  ASSUME NEW x \in States, NEW t \in Tasks, NEW s \in Servers, NEW y, y = [x EXCEPT !.srv[t] = s]
  PROVE  OnlyServer(x, t, s, y)
<1>1. PICK f : f = [x.srv EXCEPT ![t] = s]
  OBVIOUS
<1>2. f \in [Tasks -> Servers] /\ f[t] = s /\ \A u \in Tasks : u # t => f[u] = x.srv[u]
  BY <1>1 DEF States
<1>3. y = [x EXCEPT !.srv = f]
  BY <1>1
<1> HIDE <1>1
<1> QED BY ONLY x \in States, <1>2, <1>3 DEF States, OnlyServer

LEMMA AppendEvent ==
  ASSUME NEW t, NEW s \in Servers, NEW type \in Types, NEW p, p = Published(t, s, type)
  PROVE  /\ p \in Servers /\ p.state = s.state /\ p.prompt = s.prompt
         /\ \A i \in DOMAIN p.events : p.events[i].type = type \/ (i \in DOMAIN s.events /\ p.events[i] = s.events[i])
<1>1. PICK e : e = [type |-> type, prompt |-> s.prompt]
  OBVIOUS
<1>2. e \in Events /\ e.type = type
  BY <1>1 DEF Servers, Events
<1>3. PICK q : q = Append(s.events, e)
  OBVIOUS
<1>4. s.events \in Seq(Events)
  BY DEF Servers
<1>5. q \in Seq(Events) /\ \A i \in DOMAIN q : q[i] = e \/ (i \in DOMAIN s.events /\ q[i] = s.events[i])
  BY <1>2, <1>3, <1>4
<1>6. p = [s EXCEPT !.events = q]
  BY <1>1, <1>3 DEF Published
<1> QED BY ONLY s \in Servers, <1>2, <1>5, <1>6 DEF Servers

-----------------------------------------------------------------------------
(* The effects of a render.                                                *)

\* What no effect changes.
Same(x, y) ==
  /\ y.srv = x.srv /\ y.task = x.task /\ y.tab = x.tab /\ y.stream = x.stream /\ y.reply = x.reply
  /\ y.snapshot = x.snapshot /\ y.posted = x.posted /\ y.shown = x.shown /\ y.offset = x.offset
  /\ y.crossed = x.crossed

\* A request for a page is of the task shown and of the page behind the last.
LEMMA ReadsLog ==
  ASSUME NEW x \in States, x.task \in Tasks, NEW y, y = ReadLog(x)
  PROVE  /\ y \in States /\ Same(x, y) /\ y.result = x.result /\ y.status = x.status
         /\ \/ x.inFlight /\ y.logs = x.logs /\ y.inFlight
            \/ /\ ~x.inFlight /\ y.inFlight /\ Len(y.logs) = Len(x.logs) + 1
               /\ DOMAIN y.logs = 1..(Len(x.logs) + 1)
               /\ y.logs[Len(x.logs) + 1].task = x.task /\ y.logs[Len(x.logs) + 1].from = x.offset
               /\ \A i \in DOMAIN x.logs : y.logs[i] = x.logs[i]
<1>1. CASE x.inFlight
  <2>1. y = x BY <1>1 DEF ReadLog
  <2> QED BY <1>1, <2>1 DEF Same
<1>2. CASE ~x.inFlight
  <2>1. PICK r : r = [task |-> x.task, from |-> x.offset, len |-> "asked", cur |-> TRUE]
    OBVIOUS
  <2>2. r \in Requests /\ r.task = x.task /\ r.from = x.offset
    BY <2>1 DEF Requests, States
  <2>3. PICK q : q = Append(x.logs, r)
    OBVIOUS
  <2>4. x.logs \in Seq(Requests)
    BY DEF States
  <2>5. /\ q \in Seq(Requests) /\ Len(q) = Len(x.logs) + 1 /\ DOMAIN q = 1..(Len(x.logs) + 1)
        /\ q[Len(x.logs) + 1] = r /\ \A i \in DOMAIN x.logs : q[i] = x.logs[i]
    BY <2>2, <2>3, <2>4
  <2>6. y = [x EXCEPT !.inFlight = TRUE, !.logs = q]
    BY <1>2, <2>1, <2>3 DEF ReadLog
  <2>7. y \in States /\ Same(x, y) /\ y.result = x.result /\ y.status = x.status /\ y.logs = q /\ y.inFlight
    BY ONLY x \in States, <2>5, <2>6 DEF States, Same
  <2> QED BY <1>2, <2>2, <2>5, <2>7
<1> QED BY <1>1, <1>2 DEF States

\* The log effect leaves the answers of earlier ones unheard.
LEMMA LogEffectRuns ==
  ASSUME NEW x \in States, x.task \in Tasks, NEW y, y = LogEffect(x)
  PROVE  /\ y \in States /\ Same(x, y) /\ y.result = x.result /\ y.status = x.status
         /\ \A i \in DOMAIN y.logs : y.logs[i].cur => y.logs[i].task = x.task /\ y.logs[i].from = x.offset
         /\ Len(x.logs) = (IF x.inFlight THEN 1 ELSE 0) => Len(y.logs) = (IF y.inFlight THEN 1 ELSE 0)
<1>1. PICK q : q = [i \in DOMAIN x.logs |-> [x.logs[i] EXCEPT !.cur = FALSE]]
  OBVIOUS
<1>2. x.logs \in Seq(Requests) /\ x.inFlight \in BOOLEAN
  BY DEF States
<1>3. Len(x.logs) \in Nat /\ DOMAIN x.logs = 1..Len(x.logs) /\ \A i \in DOMAIN x.logs : x.logs[i] \in Requests
  BY <1>2
<1>4. \A i \in DOMAIN x.logs : q[i] \in Requests /\ ~q[i].cur
  BY <1>1, <1>3 DEF Requests
<1>5. q \in Seq(Requests) /\ Len(q) = Len(x.logs) /\ DOMAIN q = DOMAIN x.logs
  <2>1. q \in [1..Len(x.logs) -> Requests] BY <1>1, <1>3, <1>4
  <2> QED BY <1>3, <2>1
<1>6. PICK z : z = [x EXCEPT !.logs = q]
  OBVIOUS
<1>7. /\ z \in States /\ Same(x, z) /\ z.result = x.result /\ z.status = x.status /\ z.logs = q
      /\ z.inFlight = x.inFlight
  BY ONLY x \in States, <1>5, <1>6 DEF States, Same
<1>8. y = IF x.tab = "logs" THEN ReadLog(z) ELSE z
  <2>1. z.tab = x.tab BY <1>7 DEF Same
  <2> QED BY <1>1, <1>6, <2>1 DEF LogEffect
<1>9. CASE y = z
  BY <1>3, <1>4, <1>5, <1>7, <1>9
<1>10. CASE y = ReadLog(z)
  <2>1. z.task \in Tasks /\ z.task = x.task /\ z.offset = x.offset
    BY <1>7 DEF Same
  <2>2. /\ y \in States /\ Same(z, y) /\ y.result = z.result /\ y.status = z.status
        /\ \/ z.inFlight /\ y.logs = z.logs /\ y.inFlight
           \/ /\ ~z.inFlight /\ y.inFlight /\ Len(y.logs) = Len(z.logs) + 1
              /\ DOMAIN y.logs = 1..(Len(z.logs) + 1)
              /\ y.logs[Len(z.logs) + 1].task = z.task /\ y.logs[Len(z.logs) + 1].from = z.offset
              /\ \A i \in DOMAIN z.logs : y.logs[i] = z.logs[i]
    BY <1>7, <1>10, <2>1, ReadsLog
  <2>3. Same(x, y) /\ y.result = x.result /\ y.status = x.status
    BY <1>7, <2>2 DEF Same
  <2>4. CASE z.inFlight /\ y.logs = z.logs /\ y.inFlight
    BY <1>3, <1>4, <1>5, <1>7, <2>2, <2>3, <2>4
  <2>5. CASE /\ ~z.inFlight /\ y.inFlight /\ Len(y.logs) = Len(z.logs) + 1
             /\ DOMAIN y.logs = 1..(Len(z.logs) + 1)
             /\ y.logs[Len(z.logs) + 1].task = z.task /\ y.logs[Len(z.logs) + 1].from = z.offset
             /\ \A i \in DOMAIN z.logs : y.logs[i] = z.logs[i]
    <3>1. ASSUME NEW i \in DOMAIN y.logs, y.logs[i].cur PROVE y.logs[i].task = x.task /\ y.logs[i].from = x.offset
      <4>1. CASE i \in DOMAIN x.logs BY <1>4, <1>5, <1>7, <2>5, <3>1, <4>1
      <4>2. CASE i \notin DOMAIN x.logs
        <5>1. i = Len(z.logs) + 1 BY <1>3, <1>5, <1>7, <2>5, <4>2
        <5> QED BY <2>1, <2>5, <5>1
      <4> QED BY <4>1, <4>2
    <3>2. ~x.inFlight /\ Len(y.logs) = Len(x.logs) + 1 BY <1>5, <1>7, <2>5
    <3> QED BY <1>2, <2>2, <2>3, <2>5, <3>1, <3>2
  <2> QED BY <2>2, <2>4, <2>5
<1> QED BY <1>8, <1>9, <1>10

\* The result effect keeps a result, and asks at most for one of the task.
LEMMA ResultEffectRuns ==
  ASSUME NEW x \in States, NEW y, y = ResultEffect(x)
  PROVE  /\ y \in States /\ Same(x, y) /\ y.logs = x.logs /\ y.inFlight = x.inFlight /\ y.status = x.status
         /\ y.result.asked \in {"none", "asked"}
         /\ y.result.state = "ready" => x.result.state = "ready" /\ y.result.of = x.result.of
<1>1. x.result \in Results
  BY DEF States
<1>2. PICK r : r = IF x.tab = "result" \/ x.status \in Ended
    THEN [x.result EXCEPT !.asked = "asked", !.state = IF x.result.state = "ready" THEN "ready" ELSE "loading"]
    ELSE [x.result EXCEPT !.asked = "none"]
  OBVIOUS
<1>3. /\ r \in Results /\ r.asked \in {"none", "asked"}
      /\ r.state = "ready" => x.result.state = "ready" /\ r.of = x.result.of
  BY <1>1, <1>2 DEF Results
<1>4. y = [x EXCEPT !.result = r]
  BY <1>2 DEF ResultEffect, States
<1>5. /\ y \in States /\ Same(x, y) /\ y.logs = x.logs /\ y.inFlight = x.inFlight /\ y.status = x.status
      /\ y.result = r
  BY ONLY x \in States, <1>3, <1>4 DEF States, Same
<1> QED BY <1>3, <1>5

\* What the effects of a render of an opened task leave.
LEMMA EffectsRun ==
  ASSUME NEW x \in States, x.task \in Tasks, NEW y, y = Effects(x),
         \A i \in DOMAIN x.shown : x.shown[i].task = x.task,
         ~x.crossed => Len(x.logs) = (IF x.inFlight THEN 1 ELSE 0) /\ x.shown = Kept(Run(x)),
         x.result.state = "ready" => x.result.of = x.task
  PROVE  y \in States /\ Same(x, y) /\ y.status = x.status /\ PagesOf(y) /\ InOrder(y) /\ ResultOf(y)
<1>1. PICK z : z = LogEffect(x)
  OBVIOUS
<1>2. /\ z \in States /\ Same(x, z) /\ z.result = x.result /\ z.status = x.status
      /\ \A i \in DOMAIN z.logs : z.logs[i].cur => z.logs[i].task = x.task /\ z.logs[i].from = x.offset
      /\ Len(x.logs) = (IF x.inFlight THEN 1 ELSE 0) => Len(z.logs) = (IF z.inFlight THEN 1 ELSE 0)
  BY <1>1, LogEffectRuns
<1>3. y = ResultEffect(z)
  BY <1>1 DEF Effects
<1>4. /\ y \in States /\ Same(z, y) /\ y.logs = z.logs /\ y.inFlight = z.inFlight /\ y.status = z.status
      /\ y.result.asked \in {"none", "asked"}
      /\ y.result.state = "ready" => z.result.state = "ready" /\ y.result.of = z.result.of
  BY <1>2, <1>3, ResultEffectRuns
<1>5. Same(x, y)
  BY <1>2, <1>4 DEF Same
<1>6. y.task = x.task /\ y.offset = x.offset /\ y.shown = x.shown /\ y.crossed = x.crossed
  BY <1>5 DEF Same
<1>7. PagesOf(y)
  BY <1>2, <1>4, <1>6 DEF PagesOf
<1>8. InOrder(y)
  BY <1>2, <1>4, <1>6 DEF InOrder, Run
<1>9. ResultOf(y)
  BY <1>2, <1>4, <1>6 DEF ResultOf
<1> QED BY <1>2, <1>4, <1>5, <1>7, <1>8, <1>9

-----------------------------------------------------------------------------
(* Steps that leave most of the console alone.                             *)

SameLog(x, y) ==
  /\ y.task = x.task /\ y.logs = x.logs /\ y.inFlight = x.inFlight /\ y.shown = x.shown /\ y.offset = x.offset
  /\ y.crossed = x.crossed
SameResult(x, y) == y.task = x.task /\ y.result = x.result
SameStream(x, y) == y.task = x.task /\ y.stream = x.stream /\ y.status = x.status /\ y.srv = x.srv
SameReply(x, y) == y.reply = x.reply /\ y.snapshot = x.snapshot
SameRest(x, y) ==
  /\ y.task = x.task /\ y.tab = x.tab /\ y.stream = x.stream /\ y.reply = x.reply /\ y.posted = x.posted
  /\ y.prompt = x.prompt /\ y.result = x.result /\ y.logs = x.logs

LEMMA Unmoved ==
  ASSUME NEW x, Good(x), NEW y
  PROVE  /\ SameLog(x, y) => PagesOf(y) /\ InOrder(y)
         /\ SameResult(x, y) => ResultOf(y)
         /\ y.srv = x.srv => Faithful(y)
         /\ SameStream(x, y) /\ (y.reply = "read" => y.reply = x.reply /\ y.snapshot = x.snapshot) => AtEnd(y)
         /\ SameRest(x, y) => Resting(y)
<1>1. SameLog(x, y) => PagesOf(y) /\ InOrder(y)
  BY DEF Good, SameLog, PagesOf, InOrder, Run
<1>2. SameResult(x, y) => ResultOf(y)
  BY DEF Good, SameResult, ResultOf
<1>3. y.srv = x.srv => Faithful(y)
  BY DEF Good, Faithful
<1>4. SameStream(x, y) /\ (y.reply = "read" => y.reply = x.reply /\ y.snapshot = x.snapshot) => AtEnd(y)
  BY DEF Good, SameStream, AtEnd
<1>5. SameRest(x, y) => Resting(y)
  BY DEF Good, SameRest, Resting
<1> QED BY <1>1, <1>2, <1>3, <1>4, <1>5

LEMMA SomeTask ==
  ASSUME NEW x, Good(x)
  PROVE  x.task # "none" => x.task \in Tasks
BY DEF Good, States

\* A step of the runner on the task t.
LEMMA RunnerMoves ==
  ASSUME NEW x, Good(x), NEW t \in Tasks, NEW s \in Servers, Final(s),
         x.srv[t].state \in Ended => s.state = x.srv[t].state,
         NEW y, y = [x EXCEPT !.srv[t] = s]
  PROVE  Good(y)
<1>1. /\ y \in States
      /\ y.srv[t] = s /\ \A u \in Tasks : u # t => y.srv[u] = x.srv[u]
      /\ y.task = x.task /\ y.row = x.row /\ y.tab = x.tab /\ y.pos = x.pos /\ y.stream = x.stream
      /\ y.status = x.status /\ y.prompt = x.prompt /\ y.reply = x.reply /\ y.snapshot = x.snapshot
      /\ y.posted = x.posted /\ y.logs = x.logs /\ y.inFlight = x.inFlight /\ y.shown = x.shown
      /\ y.offset = x.offset /\ y.crossed = x.crossed /\ y.result = x.result
  <2>1. x \in States BY DEF Good
  <2>2. OnlyServer(x, t, s, y) BY <2>1, MovedFields
  <2> QED BY ONLY <2>2 DEF OnlyServer
<1>2. SameLog(x, y) /\ SameResult(x, y) /\ SameRest(x, y)
  BY <1>1 DEF SameLog, SameResult, SameRest
<1>3. Faithful(y)
  BY <1>1 DEF Good, Faithful
<1>4. AtEnd(y)
  <2> SUFFICES ASSUME y.stream = "ended" PROVE
        /\ y.srv[y.task].state \in Ended /\ y.status = y.srv[y.task].state
        /\ y.reply = "read" => y.snapshot.state = y.srv[y.task].state
    BY DEF AtEnd
  <2>1. x.stream = "ended" /\ x.task \in Tasks
    BY <1>1, SomeTask DEF Good, Resting
  <2>2. y.srv[x.task].state = x.srv[x.task].state
    BY <1>1, <2>1 DEF Good, AtEnd
  <2> QED BY <1>1, <2>1, <2>2 DEF Good, AtEnd
<1> QED BY <1>1, <1>2, <1>3, <1>4, Unmoved DEF Good

\* What is published as the type of a new state is that state or no end.
LEMMA PublishedIsFinal ==
  ASSUME NEW t, NEW r \in Servers, Final(r), r.state \notin Ended, NEW s \in Servers, s.events = r.events,
         s.prompt # 0 => s.state = "PENDING_INPUT", NEW type \in Types, type \in Ended => s.state = type,
         NEW p, p = Published(t, s, type)
  PROVE  p \in Servers /\ Final(p) /\ p.state = s.state
<1>1. /\ p \in Servers /\ p.state = s.state /\ p.prompt = s.prompt
      /\ \A i \in DOMAIN p.events : p.events[i].type = type \/ (i \in DOMAIN s.events /\ p.events[i] = s.events[i])
  BY AppendEvent
<1>2. \A i \in DOMAIN s.events : s.events[i].type \notin Ended
  BY DEF Final
<1> QED BY <1>1, <1>2 DEF Final

LEMMA RunnerStep ==
  ASSUME Inv, NEW t \in Tasks, Runner(t)
  PROVE  Good(w')
<1>1. PICK r : r = w.srv[t]
  OBVIOUS
<1>2. r \in Servers /\ Final(r) /\ Good(w)
  BY <1>1 DEF Inv, Good, States, Faithful
<1>3. ASSUME NEW p \in Servers, Final(p), r.state \in Ended => p.state = r.state, w' = [w EXCEPT !.srv[t] = p]
      PROVE  Good(w')
  BY <1>1, <1>2, <1>3, RunnerMoves
<1>4. ASSUME NEW s \in Servers, s.events = r.events, s.prompt # 0 => s.state = "PENDING_INPUT", r.state \notin Ended,
             NEW type \in Types, type \in Ended => s.state = type, w' = [w EXCEPT !.srv[t] = Published(t, s, type)]
      PROVE  Good(w')
  <2>1. PICK p : p = Published(t, s, type)
    OBVIOUS
  <2>2. p \in Servers /\ Final(p) /\ p.state = s.state
    BY <1>2, <1>4, <2>1, PublishedIsFinal
  <2> QED BY <1>3, <1>4, <2>1, <2>2
<1>5. CASE ServerStarts(t)
  <2>1. PICK s : s = [r EXCEPT !.state = "RUNNING"]
    OBVIOUS
  <2>2. s \in Servers /\ s.events = r.events /\ s.prompt = 0 /\ r.state \notin Ended
    BY <1>1, <1>2, <1>5, <2>1 DEF ServerStarts, Servers, TaskStates, Final, Ended
  <2>3. w' = [w EXCEPT !.srv[t] = Published(t, s, "STARTED")]
    BY <1>1, <1>5, <2>1 DEF ServerStarts, Moved
  <2>4. "STARTED" \in Types /\ "STARTED" \notin Ended
    BY DEF Types, Ended
  <2> QED BY <1>4, <2>2, <2>3, <2>4
<1>6. CASE ServerLogs(t)
  <2>1. PICK s : s = [r EXCEPT !.log = r.log + 1]
    OBVIOUS
  <2>2. s \in Servers /\ Final(s) /\ s.state = r.state
    BY <1>2, <2>1 DEF Servers, Final
  <2>3. w' = [w EXCEPT !.srv[t] = s]
    BY <1>1, <1>2, <1>6, <2>1 DEF ServerLogs, Moved, Servers
  <2> QED BY <1>3, <2>2, <2>3
<1>7. CASE ServerAsks(t)
  <2>1. PICK s : s = [r EXCEPT !.state = "PENDING_INPUT", !.asked = r.asked + 1, !.prompt = r.asked + 1]
    OBVIOUS
  <2>2. s \in Servers /\ s.events = r.events /\ s.state = "PENDING_INPUT" /\ r.state \notin Ended
    <3>1. r.state = "RUNNING" BY <1>1, <1>7 DEF ServerAsks
    <3>2. r \in Servers BY <1>2
    <3>3. PICK n : n = r.asked + 1
      OBVIOUS
    <3>4. n \in Nat
      BY <3>2, <3>3 DEF Servers
    <3>5. s = [r EXCEPT !.state = "PENDING_INPUT", !.asked = n, !.prompt = n]
      BY <2>1, <3>3
    <3>6. "PENDING_INPUT" \in TaskStates /\ "RUNNING" \notin Ended
      BY DEF TaskStates, Ended
    <3>7. s \in Servers /\ s.events = r.events /\ s.state = "PENDING_INPUT"
      BY ONLY <3>2, <3>4, <3>5, <3>6 DEF Servers
    <3> QED BY ONLY <3>1, <3>6, <3>7
  <2>3. w' = [w EXCEPT !.srv[t] = Published(t, s, "INPUT_REQUESTED")]
    <3>1. w' = [w EXCEPT !.srv[t] = Published(t, [r EXCEPT !.state = "PENDING_INPUT", !.asked = @ + 1, !.prompt = r.asked + 1],
                                             "INPUT_REQUESTED")]
      BY <1>1, <1>7 DEF ServerAsks, Moved
    <3>2. s = [r EXCEPT !.state = "PENDING_INPUT", !.asked = @ + 1, !.prompt = r.asked + 1]
      BY <1>2, <2>1 DEF Servers
    <3> QED BY ONLY <3>1, <3>2
  <2>4. "INPUT_REQUESTED" \in Types /\ "INPUT_REQUESTED" \notin Ended
    BY DEF Types, Ended
  <2> QED BY <1>4, <2>2, <2>3, <2>4
<1>8. CASE ServerDefaults(t)
  <2>1. PICK s : s = [r EXCEPT !.state = "RUNNING", !.prompt = 0]
    OBVIOUS
  <2>2. s \in Servers /\ s.events = r.events /\ s.prompt = 0 /\ r.state \notin Ended
    BY <1>1, <1>2, <1>8, <2>1 DEF ServerDefaults, Servers, TaskStates, Ended
  <2>3. w' = [w EXCEPT !.srv[t] = Published(t, s, "INPUT_RESOLVED")]
    BY <1>1, <1>8, <2>1 DEF ServerDefaults, Moved
  <2>4. "INPUT_RESOLVED" \in Types /\ "INPUT_RESOLVED" \notin Ended
    BY DEF Types, Ended
  <2> QED BY <1>4, <2>2, <2>3, <2>4
<1>9. CASE ServerCancels(t)
  <2>1. PICK s : s = [r EXCEPT !.state = "CANCELLING", !.prompt = 0]
    OBVIOUS
  <2>2. s \in Servers /\ s.events = r.events /\ s.prompt = 0 /\ r.state \notin Ended
    BY <1>1, <1>2, <1>9, <2>1 DEF ServerCancels, Cancellable, Servers, TaskStates, Ended
  <2>3. w' = [w EXCEPT !.srv[t] = Published(t, s, "CANCELLING")]
    BY <1>1, <1>9, <2>1 DEF ServerCancels, Moved
  <2>4. "CANCELLING" \in Types /\ "CANCELLING" \notin Ended
    BY DEF Types, Ended
  <2> QED BY <1>4, <2>2, <2>3, <2>4
<1>10. CASE ServerEnds(t)
  <2>1. PICK end \in Ended : r.state \notin Ended /\ w' = [w EXCEPT !.srv[t] = Published(t, [r EXCEPT !.state = end, !.prompt = 0], end)]
    BY <1>1, <1>10 DEF ServerEnds, Moved, Ended
  <2>2. PICK s : s = [r EXCEPT !.state = end, !.prompt = 0]
    OBVIOUS
  <2>3. s \in Servers /\ s.events = r.events /\ s.prompt = 0 /\ s.state = end
    BY <1>2, <2>2 DEF Servers, TaskStates
  <2>4. end \in Types
    BY DEF Types
  <2> QED BY <1>4, <2>1, <2>2, <2>3, <2>4
<1>11. CASE ServerStores(t)
  <2>1. PICK s : s = [r EXCEPT !.stored = TRUE]
    OBVIOUS
  <2>2. s \in Servers /\ Final(s) /\ s.state = r.state
    BY <1>2, <2>1 DEF Servers, Final
  <2>3. w' = [w EXCEPT !.srv[t] = s]
    BY <1>1, <1>11, <2>1 DEF ServerStores, Moved
  <2> QED BY <1>3, <2>2, <2>3
<1> QED BY <1>5, <1>6, <1>7, <1>8, <1>9, <1>10, <1>11 DEF Runner

-----------------------------------------------------------------------------
(* The status, the prompt and the answer to it.                            *)

\* A step that changes only these.
SameMost(x, y) ==
  /\ y \in States /\ y.srv = x.srv /\ y.task = x.task /\ y.tab = x.tab /\ y.stream = x.stream /\ y.status = x.status
  /\ y.logs = x.logs /\ y.inFlight = x.inFlight /\ y.shown = x.shown /\ y.offset = x.offset /\ y.crossed = x.crossed
  /\ y.result = x.result

LEMMA SmallStep ==
  ASSUME NEW x, Good(x), NEW y, SameMost(x, y),
         x.task = "none" => y.reply = "none" /\ y.posted = 0 /\ y.prompt = 0,
         y.reply = "read" => \/ y.reply = x.reply /\ y.snapshot = x.snapshot
                             \/ y.snapshot.state = x.srv[x.task].state
  PROVE  Good(y)
<1>1. SameLog(x, y) /\ SameResult(x, y) /\ SameStream(x, y)
  BY DEF SameMost, SameLog, SameResult, SameStream
<1>2. Resting(y)
  BY DEF Good, Resting, SameMost
<1>3. AtEnd(y)
  BY DEF Good, AtEnd, SameMost
<1>4. y \in States /\ y.srv = x.srv
  BY DEF SameMost
<1> QED BY <1>1, <1>2, <1>3, <1>4, Unmoved DEF Good

LEMMA StatusSteps ==
  ASSUME Inv, StatusRead \/ StatusFails \/ StreamReconnects \/ StreamRefused
  PROVE  Good(w')
<1>1. Good(w) /\ w \in States /\ w.srv \in [Tasks -> Servers]
  BY DEF Inv, Good, States
<1>2. CASE StatusRead
  <2>1. w.task \in Tasks
    BY <1>1, <1>2, SomeTask DEF StatusRead, Good, Resting
  <2>2. PICK z : z = [state |-> w.srv[w.task].state, prompt |-> w.srv[w.task].prompt]
    OBVIOUS
  <2>3. z \in Snapshots /\ z.state = w.srv[w.task].state
    BY <1>1, <2>1, <2>2 DEF Servers, Snapshots
  <2>4. w' = [w EXCEPT !.reply = "read", !.snapshot = z]
    BY <1>2, <2>2 DEF StatusRead
  <2>5. SameMost(w, w') /\ w'.posted = w.posted /\ w'.prompt = w.prompt /\ w'.snapshot = z
    BY ONLY <1>1, <2>3, <2>4 DEF States, SameMost
  <2>6. w.task # "none"
    BY <2>1, ConsoleAssumption
  <2> QED BY <1>1, <2>3, <2>5, <2>6, SmallStep
<1>3. CASE StatusFails
  <2>1. PICK z : z = [state |-> "", prompt |-> 0]
    OBVIOUS
  <2>2. z \in Snapshots
    BY <2>1 DEF Snapshots
  <2>3. w' = [w EXCEPT !.reply = "none", !.snapshot = z]
    BY <1>3, <2>1 DEF StatusFails
  <2>4. SameMost(w, w') /\ w'.posted = w.posted /\ w'.prompt = w.prompt /\ w'.reply = "none"
    BY ONLY <1>1, <2>2, <2>3 DEF States, SameMost
  <2>5. w.task = "none" => w.posted = 0 /\ w.prompt = 0
    BY <1>1 DEF Good, Resting
  <2> QED BY <1>1, <2>4, <2>5, SmallStep
<1>4. CASE StreamReconnects
  <2>1. SameMost(w, w') /\ w'.posted = w.posted /\ w'.prompt = w.prompt /\ w'.reply = w.reply /\ w'.snapshot = w.snapshot
    BY <1>1, <1>4 DEF StreamReconnects, States, SameMost
  <2>2. w.task = "none" => w.posted = 0 /\ w.prompt = 0 /\ w.reply = "none"
    BY <1>1 DEF Good, Resting
  <2> QED BY <1>1, <2>1, <2>2, SmallStep
<1>5. CASE StreamRefused
  <2>1. w' = [w EXCEPT !.stream = "closed"]
    BY <1>5 DEF StreamRefused
  <2>2. /\ w' \in States /\ w'.srv = w.srv /\ w'.stream = "closed" /\ SameLog(w, w') /\ SameResult(w, w')
        /\ w'.tab = w.tab /\ w'.reply = w.reply /\ w'.posted = w.posted /\ w'.prompt = w.prompt
    BY ONLY <1>1, <2>1 DEF States, SameLog, SameResult
  <2>3. Resting(w') /\ AtEnd(w')
    BY <1>1, <2>2 DEF Good, Resting, AtEnd, SameLog, SameResult
  <2> QED BY <1>1, <2>2, <2>3, Unmoved DEF Good
<1> QED BY <1>2, <1>3, <1>4, <1>5

LEMMA PromptSteps ==
  ASSUME Inv, Submit \/ InputAccepted \/ InputAnswer \/ InputRejected
  PROVE  Good(w')
<1>1. Good(w) /\ w \in States /\ w.srv \in [Tasks -> Servers]
  BY DEF Inv, Good, States
<1>2. w.task = "none" => w.posted = 0 /\ w.prompt = 0 /\ w.reply = "none"
  BY <1>1 DEF Good, Resting
<1>3. CASE Submit
  <2>1. w.prompt # 0 /\ w' = [w EXCEPT !.posted = w.prompt]
    BY <1>3 DEF Submit, PromptShown
  <2>2. SameMost(w, w') /\ w'.reply = w.reply /\ w'.snapshot = w.snapshot
    BY ONLY <1>1, <2>1 DEF States, SameMost
  <2> QED BY <1>1, <1>2, <2>1, <2>2, SmallStep
<1>4. CASE InputAnswer
  <2>1. w.posted = MaxPrompts + 1 /\ w' = [w EXCEPT !.posted = 0, !.prompt = 0]
    BY <1>4 DEF InputAnswer
  <2>2. SameMost(w, w') /\ w'.reply = w.reply /\ w'.snapshot = w.snapshot /\ w'.posted = 0 /\ w'.prompt = 0
    BY ONLY <1>1, <2>1 DEF States, SameMost
  <2> QED BY <1>1, <1>2, <2>2, SmallStep
<1>5. CASE InputRejected
  <2>1. w' = [w EXCEPT !.posted = 0]
    BY <1>5 DEF InputRejected
  <2>2. SameMost(w, w') /\ w'.reply = w.reply /\ w'.snapshot = w.snapshot /\ w'.posted = 0 /\ w'.prompt = w.prompt
    BY ONLY <1>1, <2>1 DEF States, SameMost
  <2> QED BY <1>1, <1>2, <2>2, SmallStep
<1>6. CASE InputAccepted
  <2>1. PICK r : r = w.srv[w.task]
    OBVIOUS
  <2>2. w.posted # 0 /\ r.prompt = w.posted
    BY <1>6, <2>1 DEF InputAccepted
  <2>3. w.task \in Tasks
    BY <1>1, <1>2, <2>2, SomeTask
  <2>4. r \in Servers /\ Final(r) /\ r.state \notin Ended
    BY <1>1, <2>1, <2>2, <2>3 DEF Good, Faithful, Final, Ended
  <2>5. PICK s : s = [r EXCEPT !.state = "RUNNING", !.prompt = 0]
    OBVIOUS
  <2>6. s \in Servers /\ s.events = r.events /\ s.prompt = 0 /\ s.state = "RUNNING"
    BY ONLY <2>4, <2>5 DEF Servers, TaskStates
  <2>7. PICK p : p = Published(w.task, s, "INPUT_RESOLVED")
    OBVIOUS
  <2>8. p \in Servers /\ Final(p)
    <3>1. "INPUT_RESOLVED" \in Types /\ "INPUT_RESOLVED" \notin Ended
      BY DEF Types, Ended
    <3> QED BY <2>4, <2>6, <2>7, <3>1, PublishedIsFinal
  <2>9. PICK y : y = [w EXCEPT !.srv[w.task] = p]
    OBVIOUS
  <2>10. Good(y)
    BY <1>1, <2>1, <2>3, <2>4, <2>8, <2>9, RunnerMoves
  <2>11. PICK n : n = MaxPrompts + 1
    OBVIOUS
  <2>12. n \in Nat
    BY <2>11, ConsoleAssumption
  <2>13. w' = [y EXCEPT !.posted = n]
    <3>1. w' = [w EXCEPT !.srv[w.task] = p, !.posted = n]
      BY <1>6, <2>1, <2>5, <2>7, <2>11 DEF InputAccepted
    <3> QED BY ONLY <2>9, <3>1
  <2>14. y.task = w.task /\ y.task # "none" /\ y \in States
    <3>1. y.task = w.task BY <2>9
    <3> QED BY <2>3, <2>10, <3>1, ConsoleAssumption DEF Good
  <2>15. SameMost(y, w') /\ w'.reply = y.reply /\ w'.snapshot = y.snapshot
    BY ONLY <2>12, <2>13, <2>14 DEF States, SameMost
  <2> QED BY <2>10, <2>14, <2>15, SmallStep
<1> QED BY <1>3, <1>4, <1>5, <1>6

-----------------------------------------------------------------------------
(* The result of the task.                                                 *)
LEMMA ResultSteps ==
  ASSUME Inv, ResultRead \/ ResultAnswer \/ ResultFails
  PROVE  Good(w')
<1>1. Good(w) /\ w \in States /\ w.result \in Results /\ ResultOf(w)
  BY DEF Inv, Good, States
<1>2. w.task \in Tasks /\ w.task # "none"
  BY <1>1, SomeTask DEF ResultRead, ResultAnswer, ResultFails, Good, Resting
<1>3. ASSUME NEW r \in Results, w' = [w EXCEPT !.result = r], r.asked \in {"none", "asked", "missing", w.task},
             r.state = "ready" => r.of = w.task
      PROVE  Good(w')
  <2>1. /\ w' \in States /\ w'.srv = w.srv /\ w'.task = w.task /\ w'.result = r /\ SameLog(w, w') /\ SameStream(w, w')
        /\ w'.reply = w.reply /\ w'.snapshot = w.snapshot
    BY ONLY <1>1, <1>3 DEF States, SameLog, SameStream
  <2>2. ResultOf(w') /\ Resting(w')
    BY <1>2, <1>3, <2>1 DEF ResultOf, Resting
  <2> QED BY <1>1, <2>1, <2>2, Unmoved DEF Good
<1>4. CASE ResultRead
  <2>1. PICK a : a = IF w.srv[w.task].stored THEN w.task ELSE "missing"
    OBVIOUS
  <2>2. PICK r : r = [w.result EXCEPT !.asked = a]
    OBVIOUS
  <2>3. r \in Results /\ r.asked = a /\ r.state = w.result.state /\ r.of = w.result.of
    BY <1>1, <1>2, <2>1, <2>2 DEF Results
  <2>4. w' = [w EXCEPT !.result = r]
    BY <1>4, <2>1, <2>2 DEF ResultRead
  <2>5. a \in {"none", "asked", "missing", w.task}
    BY <2>1
  <2> QED BY <1>1, <1>3, <2>3, <2>4, <2>5 DEF ResultOf
<1>5. CASE ResultAnswer
  <2>1. PICK r : r = IF w.result.asked = "missing" THEN [state |-> "error", of |-> w.result.of, asked |-> "none"]
                     ELSE [state |-> "ready", of |-> w.result.asked, asked |-> "none"]
    OBVIOUS
  <2>2. w.result.asked \notin {"none", "asked"}
    BY <1>5 DEF ResultAnswer
  <2>3. r \in Results /\ r.asked = "none" /\ (r.state = "ready" => r.of = w.task)
    BY <1>1, <1>2, <2>1, <2>2 DEF Results, ResultOf
  <2>4. w' = [w EXCEPT !.result = r]
    BY <1>1, <1>5, <2>1 DEF ResultAnswer, Results
  <2> QED BY <1>3, <2>3, <2>4
<1>6. CASE ResultFails
  <2>1. PICK r : r = [w.result EXCEPT !.asked = "none", !.state = "error"]
    OBVIOUS
  <2>2. r \in Results /\ r.asked = "none" /\ r.state = "error"
    BY <1>1, <2>1 DEF Results
  <2>3. w' = [w EXCEPT !.result = r]
    BY <1>6, <2>1 DEF ResultFails
  <2> QED BY <1>3, <2>2, <2>3
<1> QED BY <1>4, <1>5, <1>6

-----------------------------------------------------------------------------
(* The pages of the log.                                                   *)

LEMMA RemovedPlaces ==
  ASSUME NEW S, NEW s \in Seq(S), NEW i \in DOMAIN s
  PROVE  /\ RemoveAt(s, i) \in Seq(S)
         /\ DOMAIN RemoveAt(s, i) = 1..(Len(s) - 1)
         /\ \A k \in 1..(Len(s) - 1) : RemoveAt(s, i)[k] = s[IF k < i THEN k ELSE k + 1]
<1>1. PICK a, b : a = SubSeq(s, 1, i - 1) /\ b = SubSeq(s, i + 1, Len(s))
  OBVIOUS
<1>2. i \in 1..Len(s) /\ Len(s) \in Nat
  OBVIOUS
<1>3. a \in Seq(S) /\ Len(a) = i - 1 /\ \A k \in 1..(i - 1) : a[k] = s[k]
  BY <1>1, <1>2
<1>4. b \in Seq(S) /\ Len(b) = Len(s) - i /\ \A k \in 1..(Len(s) - i) : b[k] = s[k + i]
  BY <1>1, <1>2
<1>5. PICK c : c = a \o b
  OBVIOUS
<1>6. RemoveAt(s, i) = c
  BY <1>1, <1>5 DEF RemoveAt
<1>7. c \in Seq(S) /\ Len(c) = Len(a) + Len(b)
  BY <1>3, <1>4, <1>5, ConcatProperties
<1>8. \A k \in 1..(Len(a) + Len(b)) : c[k] = IF k <= Len(a) THEN a[k] ELSE b[k - Len(a)]
  BY <1>3, <1>4, <1>5, ConcatProperties
<1>9. Len(a) + Len(b) = Len(s) - 1 /\ Len(a) = i - 1
  BY <1>2, <1>3, <1>4
<1>10. DOMAIN c = 1..(Len(s) - 1)
  BY <1>7, <1>9
<1>11. ASSUME NEW k \in 1..(Len(s) - 1) PROVE c[k] = s[IF k < i THEN k ELSE k + 1]
  <2> HIDE <1>5
  <2>0. c[k] = IF k <= i - 1 THEN a[k] ELSE b[k - (i - 1)]
    BY <1>8, <1>9
  <2>1. CASE k < i
    <3>1. k <= i - 1 /\ k \in 1..(i - 1) BY <1>2, <2>1
    <3> QED BY <1>3, <2>0, <2>1, <3>1
  <2>2. CASE ~(k < i)
    <3>1. c[k] = b[k - (i - 1)]
      <4>1. ~(k <= i - 1) BY <1>2, <2>2
      <4> QED BY <2>0, <4>1
    <3>2. k - (i - 1) \in 1..(Len(s) - i) BY <1>2, <2>2
    <3>3. b[k - (i - 1)] = s[(k - (i - 1)) + i] BY <1>4, <3>2
    <3> QED BY <1>2, <2>2, <3>1, <3>3
  <2> QED BY <2>1, <2>2
<1> QED BY <1>6, <1>7, <1>10, <1>11

LEMMA Removed ==
  ASSUME NEW S, NEW s \in Seq(S), NEW i \in DOMAIN s
  PROVE  /\ RemoveAt(s, i) \in Seq(S)
         /\ Len(RemoveAt(s, i)) = Len(s) - 1
         /\ \A k \in DOMAIN RemoveAt(s, i) : \E j \in DOMAIN s : RemoveAt(s, i)[k] = s[j]
<1>1. /\ RemoveAt(s, i) \in Seq(S) /\ DOMAIN RemoveAt(s, i) = 1..(Len(s) - 1)
      /\ \A k \in 1..(Len(s) - 1) : RemoveAt(s, i)[k] = s[IF k < i THEN k ELSE k + 1]
  BY RemovedPlaces
<1>2. i \in 1..Len(s) /\ Len(s) \in Nat /\ DOMAIN s = 1..Len(s)
  OBVIOUS
<1>3. PICK q : q = RemoveAt(s, i)
  OBVIOUS
<1>4. Len(q) = Len(s) - 1
  <2>1. q \in Seq(S) /\ DOMAIN q = 1..(Len(s) - 1) BY <1>1, <1>3
  <2>2. Len(q) \in Nat /\ DOMAIN q = 1..Len(q) BY ONLY <2>1, LenProperties
  <2>3. Len(s) - 1 \in Nat BY <1>2
  <2>4. PICK m, n : m = Len(q) /\ n = Len(s) - 1 OBVIOUS
  <2>5. m \in Nat /\ n \in Nat /\ 1..m = 1..n BY ONLY <2>1, <2>2, <2>3, <2>4
  <2>6. m <= n
    <3>1. m >= 1 => m \in 1..n BY ONLY <2>5
    <3> QED BY ONLY <2>5, <3>1
  <2>7. n <= m
    <3>1. n >= 1 => n \in 1..m BY ONLY <2>5
    <3> QED BY ONLY <2>5, <3>1
  <2> QED BY ONLY <2>4, <2>5, <2>6, <2>7
<1>5. \A k \in 1..(Len(s) - 1) : (IF k < i THEN k ELSE k + 1) \in DOMAIN s
  BY <1>2
<1> QED BY <1>1, <1>3, <1>4, <1>5

\* The pages kept are pages there were.
LEMMA KeptPages ==
  ASSUME NEW S, NEW s \in Seq(S)
  PROVE  Kept(s) \in Seq(S) /\ \A k \in DOMAIN Kept(s) : \E j \in DOMAIN s : Kept(s)[k] = s[j]
<1>1. CASE Len(s) <= MaxShown
  BY <1>1 DEF Kept
<1>2. CASE ~(Len(s) <= MaxShown)
  <2>1. PICK c : c = SubSeq(s, Len(s) - MaxShown + 1, Len(s))
    OBVIOUS
  <2>2. Kept(s) = c
    BY <1>2, <2>1 DEF Kept
  <2>3. Len(s) \in Nat /\ DOMAIN s = 1..Len(s) /\ Len(s) - MaxShown + 1 \in 1..(Len(s) + 1)
    BY <1>2, ConsoleAssumption
  <2>4. c \in Seq(S) /\ Len(c) = MaxShown /\ \A k \in 1..MaxShown : c[k] = s[Len(s) - MaxShown + k]
    BY <2>1, <2>3, ConsoleAssumption
  <2>5. ASSUME NEW k \in DOMAIN c PROVE \E j \in DOMAIN s : c[k] = s[j]
    <3>1. k \in 1..MaxShown BY <2>4
    <3>2. Len(s) - MaxShown + k \in DOMAIN s BY <2>3, <3>1, ConsoleAssumption
    <3> QED BY <2>4, <3>1, <3>2
  <2> QED BY <2>2, <2>4, <2>5
<1> QED BY <1>1, <1>2, ConsoleAssumption

\* Which pages are kept does not depend on when the older ones were dropped.
LEMMA KeptOnce ==
  ASSUME NEW S, NEW s \in Seq(S), NEW e \in S
  PROVE  Kept(Append(Kept(s), e)) = Kept(Append(s, e))
<1>1. Len(s) \in Nat /\ MaxShown \in Nat
  BY ConsoleAssumption
<1>2. CASE Len(s) <= MaxShown
  BY <1>2 DEF Kept
<1>3. CASE ~(Len(s) <= MaxShown)
  <2>1. PICK c : c = SubSeq(s, Len(s) - MaxShown + 1, Len(s))
    OBVIOUS
  <2>2. Kept(s) = c
    BY <1>3, <2>1 DEF Kept
  <2>3. c \in Seq(S) /\ Len(c) = MaxShown /\ \A k \in 1..MaxShown : c[k] = s[Len(s) - MaxShown + k]
    BY <1>1, <1>3, <2>1
  <2>4. PICK p, q : p = Append(c, e) /\ q = Append(s, e)
    OBVIOUS
  <2>5. /\ p \in Seq(S) /\ Len(p) = MaxShown + 1 /\ p[MaxShown + 1] = e /\ \A k \in 1..MaxShown : p[k] = c[k]
        /\ q \in Seq(S) /\ Len(q) = Len(s) + 1 /\ q[Len(s) + 1] = e /\ \A k \in 1..Len(s) : q[k] = s[k]
    BY <1>1, <2>3, <2>4
  <2>6. PICK u, v : u = SubSeq(p, 2, MaxShown + 1) /\ v = SubSeq(q, Len(s) + 1 - MaxShown + 1, Len(s) + 1)
    OBVIOUS
  <2>7. Kept(p) = u /\ Kept(q) = v
    BY <1>1, <1>3, <2>5, <2>6 DEF Kept
  <2>8. u \in Seq(S) /\ Len(u) = MaxShown /\ \A k \in 1..MaxShown : u[k] = p[k + 1]
    BY <1>1, <2>5, <2>6
  <2>9. v \in Seq(S) /\ Len(v) = MaxShown /\ \A k \in 1..MaxShown : v[k] = q[Len(s) + 1 - MaxShown + k]
    <3>1. PICK m, n : m = Len(s) + 1 - MaxShown + 1 /\ n = Len(s) + 1
      OBVIOUS
    <3>2. m \in 1..(n + 1) /\ n = Len(q) /\ n \in Nat /\ n - m + 1 = MaxShown
      BY <1>1, <1>3, <2>5, <3>1
    <3>3. v = SubSeq(q, m, n)
      BY <2>6, <3>1
    <3>4. v \in Seq(S) /\ Len(v) = n - m + 1 /\ \A k \in 1..(n - m + 1) : v[k] = q[m + k - 1]
      <4>1. q \in Seq(S)
        BY <2>5
      <4> QED BY ONLY <3>2, <3>3, <4>1
    <3>5. \A k \in 1..MaxShown : m + k - 1 = Len(s) + 1 - MaxShown + k
      BY <1>1, <3>1
    <3> QED BY <3>2, <3>4, <3>5
  <2>10. ASSUME NEW k \in 1..MaxShown PROVE u[k] = v[k]
    <3>1. CASE k = MaxShown
      BY <1>1, <1>3, <2>5, <2>8, <2>9, <3>1
    <3>2. CASE k # MaxShown
      <4>1. k + 1 \in 1..MaxShown /\ Len(s) + 1 - MaxShown + k \in 1..Len(s)
        BY <1>1, <1>3, <3>2
      <4>2. u[k] = s[Len(s) - MaxShown + (k + 1)]
        BY <2>3, <2>5, <2>8, <4>1
      <4>3. v[k] = s[Len(s) + 1 - MaxShown + k]
        BY <2>5, <2>9, <4>1
      <4>4. Len(s) - MaxShown + (k + 1) = Len(s) + 1 - MaxShown + k
        BY <1>1, <4>1
      <4> QED BY <4>2, <4>3, <4>4
    <3> QED BY <3>1, <3>2
  <2>11. u = v
    BY <2>8, <2>9, <2>10, SeqEqual
  <2> QED BY <2>2, <2>4, <2>7, <2>11
<1> QED BY <1>2, <1>3, <1>1


\* A request that is over, whatever came of it.
LEMMA PageTaken ==
  ASSUME Inv, NEW i \in DOMAIN w.logs, NEW y, y = TookPage(i)
  PROVE  /\ Good(y) /\ w.task \in Tasks /\ y.task = w.task /\ y.offset = w.offset /\ y.shown = w.shown
         /\ y.crossed = w.crossed
         /\ ~w.crossed => Len(y.logs) = 0
<1>1. Good(w) /\ w \in States /\ w.logs \in Seq(Requests)
  BY DEF Inv, Good, States
<1>2. PICK q : q = RemoveAt(w.logs, i)
  OBVIOUS
<1>3. q \in Seq(Requests) /\ Len(q) = Len(w.logs) - 1 /\ \A k \in DOMAIN q : \E j \in DOMAIN w.logs : q[k] = w.logs[j]
  BY <1>1, <1>2, Removed
<1>4. y = [w EXCEPT !.logs = q, !.inFlight = FALSE]
  BY <1>2 DEF TookPage
<1>5. /\ y \in States /\ y.srv = w.srv /\ y.logs = q /\ y.inFlight = FALSE /\ y.task = w.task /\ y.offset = w.offset
      /\ y.shown = w.shown /\ y.crossed = w.crossed /\ SameResult(w, y) /\ SameStream(w, y) /\ SameReply(w, y)
  BY ONLY <1>1, <1>3, <1>4 DEF States, SameResult, SameStream, SameReply
<1>6. Len(w.logs) \in Nat /\ Len(w.logs) # 0
  BY <1>1
<1>7. w.task \in Tasks /\ w.task # "none"
  BY <1>1, <1>6, SomeTask DEF Good, Resting
<1>8. PagesOf(y)
  BY <1>1, <1>3, <1>5 DEF Good, PagesOf
<1>9. ~w.crossed => Len(y.logs) = 0
  BY <1>1, <1>3, <1>5, <1>6 DEF Good, InOrder
<1>10. InOrder(y)
  <2>1. ~w.crossed => w.shown = Kept(Run(w)) /\ \A j \in DOMAIN w.logs : w.logs[j].cur => w.logs[j].from = w.offset
    BY <1>1 DEF Good, InOrder
  <2> QED BY <1>3, <1>5, <1>9, <2>1 DEF InOrder, Run
<1>11. Resting(y)
  BY <1>5, <1>7 DEF Resting
<1>12. Good(y)
  BY <1>1, <1>5, <1>8, <1>10, <1>11, Unmoved DEF Good, SameReply
<1> QED BY <1>5, <1>7, <1>9, <1>12

\* A page that is shown continues what is shown.
LEMMA PageAdded ==
  ASSUME NEW x, Good(x), x.task \in Tasks, ~x.crossed => Len(x.logs) = 0, NEW e \in Pages, e.task = x.task,
         ~x.crossed => e.page = x.offset + 1,
         NEW y, y = [x EXCEPT !.offset = x.offset + 1, !.shown = Kept(Append(x.shown, e))]
  PROVE  Good(y)
<1>1. x \in States /\ x.shown \in Seq(Pages) /\ x.offset \in Nat
  BY DEF Good, States
<1>2. PICK n : n = x.offset + 1
  OBVIOUS
<1>3. PICK p, q : p = Append(x.shown, e) /\ q = Kept(p)
  OBVIOUS
<1>4. p \in Seq(Pages) /\ \A k \in DOMAIN p : p[k] = e \/ (k \in DOMAIN x.shown /\ p[k] = x.shown[k])
  BY <1>1, <1>3
<1>5. q \in Seq(Pages) /\ \A k \in DOMAIN q : \E j \in DOMAIN p : q[k] = p[j]
  BY <1>3, <1>4, KeptPages
<1>6. n \in Nat /\ y = [x EXCEPT !.offset = n, !.shown = q]
  BY <1>1, <1>2, <1>3
<1>7. /\ y \in States /\ y.srv = x.srv /\ y.logs = x.logs /\ y.inFlight = x.inFlight /\ y.task = x.task /\ y.offset = n
      /\ y.shown = q /\ y.crossed = x.crossed /\ SameResult(x, y) /\ SameStream(x, y) /\ SameReply(x, y) /\ SameRest(x, y)
  BY ONLY <1>1, <1>5, <1>6 DEF States, SameResult, SameStream, SameReply, SameRest
<1>8. PagesOf(y)
  <2>1. \A k \in DOMAIN p : p[k].task = x.task
    BY <1>4 DEF Good, PagesOf
  <2>2. \A k \in DOMAIN q : q[k].task = x.task
    BY <1>5, <2>1
  <2> QED BY <1>7, <2>2 DEF Good, PagesOf
<1>9. ASSUME ~x.crossed PROVE q = Kept(Run(y))
  <2>1. PICK r : r = Run(x)
    OBVIOUS
  <2>2. x.shown = Kept(r)
    BY <1>9, <2>1 DEF Good, InOrder
  <2>3. r \in Seq(Pages) /\ Len(r) = x.offset /\ \A k \in 1..x.offset : r[k] = [task |-> x.task, page |-> k]
    <3>1. \A k \in 1..x.offset : [task |-> x.task, page |-> k] \in Pages
      BY <1>1 DEF Pages
    <3>2. r = [k \in 1..x.offset |-> [task |-> x.task, page |-> k]]
      BY <2>1 DEF Run
    <3>3. r \in [1..x.offset -> Pages]
      BY <3>1, <3>2
    <3> QED BY <1>1, <3>2, <3>3
  <2>4. q = Kept(Append(r, e))
    BY <1>3, <2>2, <2>3, KeptOnce
  <2>5. e = [task |-> x.task, page |-> n]
    BY <1>2, <1>9 DEF Pages
  <2>6. PICK a, b : a = Append(r, e) /\ b = Run(y)
    OBVIOUS
  <2>7. a \in Seq(Pages) /\ Len(a) = n /\ a[n] = e /\ \A k \in 1..x.offset : a[k] = r[k]
    BY <1>1, <1>2, <2>3, <2>6
  <2>8. b = [k \in 1..n |-> [task |-> x.task, page |-> k]]
    BY <1>7, <2>6 DEF Run
  <2>9. b \in Seq(Pages) /\ Len(b) = n /\ \A k \in 1..n : b[k] = [task |-> x.task, page |-> k]
    <3>1. \A k \in 1..n : [task |-> x.task, page |-> k] \in Pages
      BY <1>6 DEF Pages
    <3>2. b \in [1..n -> Pages]
      BY <2>8, <3>1
    <3> QED BY <1>6, <2>8, <3>2
  <2>10. ASSUME NEW k \in 1..n PROVE a[k] = b[k]
    <3>1. CASE k = n BY <1>6, <2>5, <2>7, <2>9, <3>1
    <3>2. CASE k # n
      <4>1. k \in 1..x.offset BY <1>1, <1>2, <3>2
      <4> QED BY <2>3, <2>7, <2>9, <4>1
    <3> QED BY <3>1, <3>2
  <2>11. a = b
    BY <2>7, <2>9, <2>10, SeqEqual
  <2> QED BY <2>4, <2>6, <2>11
<1>10. InOrder(y)
  <2>1. ~x.crossed => Len(x.logs) = (IF x.inFlight THEN 1 ELSE 0) /\ DOMAIN x.logs = {}
    <3>1. x.logs \in Seq(Requests) BY <1>1 DEF States
    <3>2. ~x.crossed => Len(x.logs) = (IF x.inFlight THEN 1 ELSE 0) BY DEF Good, InOrder
    <3> QED BY <3>1, <3>2
  <2> QED BY <1>7, <1>9, <2>1 DEF InOrder
<1> QED BY <1>7, <1>8, <1>10, Unmoved DEF Good, SameReply

LEMMA PageSteps ==
  ASSUME Inv, NEW i \in DOMAIN w.logs, PageRead(i) \/ PageAnswer(i) \/ PageFails(i)
  PROVE  Good(w')
<1>1. Good(w) /\ w \in States /\ w.logs \in Seq(Requests) /\ w.offset \in Nat
  BY DEF Inv, Good, States
<1>2. PICK y : y = TookPage(i)
  OBVIOUS
<1>3. /\ Good(y) /\ w.task \in Tasks /\ y.task = w.task /\ y.offset = w.offset /\ y.shown = w.shown
      /\ y.crossed = w.crossed /\ (~w.crossed => Len(y.logs) = 0)
  BY <1>2, PageTaken
<1>4. PICK r : r = w.logs[i]
  OBVIOUS
<1>5. r \in Requests
  BY <1>1, <1>4
<1>6. CASE PageRead(i)
  <2>1. PICK n \in {"page", "empty"} : w' = [w EXCEPT !.logs[i].len = n]
    BY <1>6 DEF PageRead
  <2>2. PICK m : m = [r EXCEPT !.len = n]
    OBVIOUS
  <2>3. m \in Requests /\ m.task = r.task /\ m.from = r.from /\ m.cur = r.cur
    BY ONLY <1>5, <2>2 DEF Requests
  <2>4. PICK q : q = [w.logs EXCEPT ![i] = m]
    OBVIOUS
  <2>5. /\ q \in Seq(Requests) /\ Len(q) = Len(w.logs) /\ DOMAIN q = DOMAIN w.logs
        /\ \A k \in DOMAIN q : q[k].task = w.logs[k].task /\ q[k].from = w.logs[k].from /\ q[k].cur = w.logs[k].cur
    BY ONLY <1>1, <1>4, <2>3, <2>4, i \in DOMAIN w.logs
  <2>6. w' = [w EXCEPT !.logs = q]
    BY ONLY <1>1, <1>4, <2>1, <2>2, <2>4
  <2>7. /\ w' \in States /\ w'.srv = w.srv /\ w'.logs = q /\ w'.inFlight = w.inFlight /\ w'.task = w.task
        /\ w'.offset = w.offset /\ w'.shown = w.shown /\ w'.crossed = w.crossed
        /\ SameResult(w, w') /\ SameStream(w, w') /\ SameReply(w, w')
    BY ONLY <1>1, <2>5, <2>6 DEF States, SameResult, SameStream, SameReply
  <2>8. PagesOf(w') /\ InOrder(w')
    <3>1. PagesOf(w')
      BY <1>1, <2>5, <2>7 DEF Good, PagesOf
    <3>2. InOrder(w')
      BY <1>1, <2>5, <2>7 DEF Good, InOrder, Run
    <3> QED BY <3>1, <3>2
  <2>9. Resting(w')
    BY <1>3, <2>7, ConsoleAssumption DEF Resting
  <2> QED BY <1>1, <2>7, <2>8, <2>9, Unmoved DEF Good, SameReply
<1>7. CASE PageAnswer(i)
  <2>1. CASE ~r.cur \/ r.len # "page"
    <3>1. w' = y
      BY <1>2, <1>4, <1>7, <2>1 DEF PageAnswer, PageShown
    <3> QED BY <1>3, <3>1
  <2>2. CASE ~(~r.cur \/ r.len # "page")
    <3>1. PICK e : e = [task |-> r.task, page |-> r.from + 1]
      OBVIOUS
    <3>2. e \in Pages /\ e.task = r.task /\ e.page = r.from + 1
      BY <1>5, <3>1 DEF Pages, Requests
    <3>3. r.task = w.task /\ (~w.crossed => r.from = w.offset)
      BY <1>1, <1>4, <2>2 DEF Good, PagesOf, InOrder
    <3>4. w' = [y EXCEPT !.offset = y.offset + 1, !.shown = Kept(Append(y.shown, e))]
      <4>1. w' = [y EXCEPT !.offset = @ + 1, !.shown = Kept(Append(@, e))]
        BY <1>2, <1>4, <1>7, <2>2, <3>1 DEF PageAnswer, PageShown
      <4> QED BY ONLY <4>1
    <3> QED BY <1>3, <3>2, <3>3, <3>4, PageAdded
  <2> QED BY <2>1, <2>2
<1>8. CASE PageFails(i)
  BY <1>2, <1>3, <1>8 DEF PageFails
<1> QED BY <1>6, <1>7, <1>8

LEMMA TimerStep ==
  ASSUME Inv, LogTimer
  PROVE  Good(w')
<1>1. Good(w) /\ w \in States /\ w.tab = "logs" /\ w' = ReadLog(w)
  BY DEF Inv, Good, LogTimer
<1>2. w.task \in Tasks
  BY <1>1, SomeTask DEF Good, Resting
<1>3. PICK y : y = w'
  OBVIOUS
<1>4. /\ y \in States /\ Same(w, y) /\ y.result = w.result /\ y.status = w.status
      /\ \/ w.inFlight /\ y.logs = w.logs /\ y.inFlight
         \/ /\ ~w.inFlight /\ y.inFlight /\ Len(y.logs) = Len(w.logs) + 1
            /\ DOMAIN y.logs = 1..(Len(w.logs) + 1)
            /\ y.logs[Len(w.logs) + 1].task = w.task /\ y.logs[Len(w.logs) + 1].from = w.offset
            /\ \A i \in DOMAIN w.logs : y.logs[i] = w.logs[i]
  BY <1>1, <1>2, <1>3, ReadsLog
<1>5. w.logs \in Seq(Requests) /\ w.inFlight \in BOOLEAN
  BY <1>1 DEF States
<1>6. Len(w.logs) \in Nat /\ DOMAIN w.logs = 1..Len(w.logs)
  BY <1>5
<1>7. /\ \A i \in DOMAIN y.logs : \/ y.logs[i].task = w.task /\ y.logs[i].from = w.offset
                                  \/ i \in DOMAIN w.logs /\ y.logs[i] = w.logs[i]
      /\ Len(w.logs) = (IF w.inFlight THEN 1 ELSE 0) => Len(y.logs) = (IF y.inFlight THEN 1 ELSE 0)
  BY <1>4, <1>5, <1>6
<1>8. y.task = w.task /\ y.shown = w.shown /\ y.offset = w.offset /\ y.crossed = w.crossed /\ y.srv = w.srv
  BY <1>4 DEF Same
<1>9. PagesOf(y)
  BY <1>1, <1>7, <1>8 DEF Good, PagesOf
<1>10. InOrder(y)
  BY <1>1, <1>7, <1>8 DEF Good, InOrder, Run
<1>11. Resting(y)
  BY <1>2, <1>8, ConsoleAssumption DEF Resting
<1>12. SameResult(w, y) /\ SameStream(w, y) /\ SameReply(w, y)
  BY <1>4 DEF Same, SameResult, SameStream, SameReply
<1>13. Good(y)
  BY <1>1, <1>4, <1>8, <1>9, <1>10, <1>11, <1>12, Unmoved DEF Good, SameReply
<1> QED BY <1>3, <1>13

-----------------------------------------------------------------------------
(* Steps that render the console anew.                                     *)

\* A new status or tab of a task runs the effects; all else is kept.
LEMMA Rendered ==
  ASSUME NEW x, Good(x), x.task \in Tasks, NEW z \in States, Same([x EXCEPT !.tab = z.tab], z), z.logs = x.logs,
         z.inFlight = x.inFlight, z.result = x.result, NEW y, y = Effects(z)
  PROVE  /\ y \in States /\ Same(z, y) /\ y.status = z.status /\ PagesOf(y) /\ InOrder(y) /\ ResultOf(y)
         /\ Resting(y) /\ Faithful(y)
<1>1. z.task = x.task /\ z.srv = x.srv /\ z.shown = x.shown /\ z.offset = x.offset /\ z.crossed = x.crossed
  BY DEF Same, Good, States
<1>2. \A i \in DOMAIN z.shown : z.shown[i].task = z.task
  BY <1>1 DEF Good, PagesOf
<1>3. ~z.crossed => Len(z.logs) = (IF z.inFlight THEN 1 ELSE 0) /\ z.shown = Kept(Run(z))
  BY <1>1 DEF Good, InOrder, Run
<1>4. z.result.state = "ready" => z.result.of = z.task
  BY <1>1 DEF Good, ResultOf
<1>5. y \in States /\ Same(z, y) /\ y.status = z.status /\ PagesOf(y) /\ InOrder(y) /\ ResultOf(y)
  BY <1>1, <1>2, <1>3, <1>4, EffectsRun
<1>6. y.task = x.task /\ y.srv = x.srv
  BY <1>1, <1>5 DEF Same
<1>7. Resting(y) /\ Faithful(y)
  BY <1>6, ConsoleAssumption DEF Resting, Faithful, Good
<1> QED BY <1>5, <1>7

LEMMA StatusSet ==
  ASSUME NEW x, Good(x), x.task \in Tasks, NEW s \in TaskStates \union {""}, NEW y, y = SetStatus(x, s)
  PROVE  /\ y \in States /\ Same(x, y) /\ PagesOf(y) /\ InOrder(y) /\ ResultOf(y) /\ Resting(y) /\ Faithful(y)
         /\ y.status = IF s = "" THEN x.status ELSE s
<1>1. CASE s \in {"", x.status}
  <2>1. y = x BY <1>1 DEF SetStatus
  <2> QED BY <1>1, <2>1 DEF Same, Good
<1>2. CASE s \notin {"", x.status}
  <2>1. PICK z : z = [x EXCEPT !.status = s]
    OBVIOUS
  <2>2. x \in States
    BY DEF Good
  <2>3. /\ z \in States /\ Same(x, z) /\ z.logs = x.logs /\ z.inFlight = x.inFlight /\ z.result = x.result /\ z.status = s
        /\ Same([x EXCEPT !.tab = z.tab], z)
    BY ONLY <2>1, <2>2, s \in TaskStates \union {""} DEF States, Same
  <2>4. y = Effects(z)
    BY <1>2, <2>1 DEF SetStatus
  <2>5. /\ y \in States /\ Same(z, y) /\ y.status = z.status /\ PagesOf(y) /\ InOrder(y) /\ ResultOf(y)
        /\ Resting(y) /\ Faithful(y)
    BY <2>3, <2>4, Rendered
  <2>6. Same(x, y)
    BY <2>3, <2>5 DEF Same
  <2> QED BY <1>2, <2>3, <2>5, <2>6
<1> QED BY <1>1, <1>2

LEMMA TabStep ==
  ASSUME Inv, SelectTab
  PROVE  Good(w')
<1>1. Good(w) /\ w \in States
  BY DEF Inv, Good
<1>2. w.task \in Tasks
  BY <1>1, SomeTask DEF SelectTab
<1>3. PICK tab \in Tabs \union {"sse"} : w' = SetTab(w, tab)
  BY DEF SelectTab
<1>4. CASE tab = w.tab
  BY <1>1, <1>3, <1>4 DEF SetTab
<1>5. CASE tab # w.tab
  <2>1. PICK z : z = [w EXCEPT !.tab = tab]
    OBVIOUS
  <2>2. /\ z \in States /\ Same([w EXCEPT !.tab = z.tab], z) /\ z.logs = w.logs /\ z.inFlight = w.inFlight
        /\ z.result = w.result /\ SameStream(w, z) /\ SameReply(w, z)
    BY ONLY <1>1, <2>1, tab \in Tabs \union {"sse"} DEF States, Same, SameStream, SameReply
  <2>3. w' = Effects(z)
    BY <1>3, <1>5, <2>1 DEF SetTab
  <2>4. /\ w' \in States /\ Same(z, w') /\ w'.status = z.status /\ PagesOf(w') /\ InOrder(w') /\ ResultOf(w')
        /\ Resting(w') /\ Faithful(w')
    BY <1>1, <1>2, <2>2, <2>3, Rendered
  <2>5. SameStream(w, w') /\ SameReply(w, w')
    BY <2>2, <2>4 DEF Same, SameStream, SameReply
  <2>6. AtEnd(w')
    BY <1>1, <2>5, Unmoved DEF SameReply
  <2> QED BY <2>4, <2>6 DEF Good
<1> QED BY <1>4, <1>5

\* The answer after the last event is the end that is shown already.
LEMMA AnswerStep ==
  ASSUME Inv, StatusAnswer
  PROVE  Good(w')
<1>1. Good(w) /\ w \in States /\ w.reply = "read"
  BY DEF Inv, Good, StatusAnswer
<1>2. w.task \in Tasks /\ w.task # "none"
  BY <1>1, SomeTask DEF Good, Resting
<1>3. PICK z : z = [state |-> "", prompt |-> 0]
  OBVIOUS
<1>4. PICK n : n = IF w.snapshot.prompt # 0 THEN w.snapshot.prompt ELSE w.prompt
  OBVIOUS
<1>5. PICK x : x = [w EXCEPT !.reply = "none", !.snapshot = z, !.prompt = n]
  OBVIOUS
<1>6. w.snapshot \in Snapshots /\ w.prompt \in Nat
  BY <1>1 DEF States
<1>7. z \in Snapshots /\ n \in Nat /\ w.snapshot.state \in TaskStates \union {""}
  BY <1>3, <1>4, <1>6 DEF Snapshots
<1>8. SameMost(w, x) /\ x.reply = "none"
  BY ONLY <1>1, <1>5, <1>7 DEF States, SameMost
<1>9. Good(x) /\ x.task \in Tasks
  <2>1. Good(x) BY <1>1, <1>2, <1>8, SmallStep
  <2> QED BY <1>2, <1>8, <2>1 DEF SameMost
<1>10. w' = SetStatus(x, w.snapshot.state)
  <2>1. w' = SetStatus([w EXCEPT !.reply = "none", !.snapshot = [state |-> "", prompt |-> 0],
                                 !.prompt = IF w.snapshot.prompt # 0 THEN w.snapshot.prompt ELSE @], w.snapshot.state)
    BY DEF StatusAnswer
  <2>2. [w EXCEPT !.reply = "none", !.snapshot = [state |-> "", prompt |-> 0],
                  !.prompt = IF w.snapshot.prompt # 0 THEN w.snapshot.prompt ELSE @] = x
    BY ONLY <1>1, <1>3, <1>4, <1>5 DEF States
  <2> QED BY <2>1, <2>2
<1>11. PICK y : y = w'
  OBVIOUS
<1>12. /\ y \in States /\ Same(x, y) /\ PagesOf(y) /\ InOrder(y) /\ ResultOf(y) /\ Resting(y) /\ Faithful(y)
       /\ y.status = IF w.snapshot.state = "" THEN x.status ELSE w.snapshot.state
  <2>1. y = SetStatus(x, w.snapshot.state)
    BY <1>10, <1>11
  <2>2. w.snapshot.state \in TaskStates \union {""}
    BY <1>7
  <2> HIDE <1>10, <1>11
  <2> QED BY <1>9, <2>1, <2>2, StatusSet
<1>13. AtEnd(y)
  <2>1. y.stream = w.stream /\ y.task = w.task /\ y.srv = w.srv /\ y.reply = "none" /\ x.status = w.status
    BY <1>8, <1>12 DEF Same, SameMost
  <2>2. w.stream = "ended" => /\ w.srv[w.task].state \in Ended /\ w.status = w.srv[w.task].state
                              /\ w.snapshot.state = w.srv[w.task].state
    BY <1>1 DEF Good, AtEnd
  <2> QED BY <1>12, <2>1, <2>2 DEF AtEnd
<1> QED BY <1>11, <1>12, <1>13 DEF Good

\* The event that ended the task is of the state it is in.
LEMMA EventStep ==
  ASSUME Inv, EventArrives
  PROVE  Good(w')
<1>1. /\ Good(w) /\ w \in States /\ w.stream = "open" /\ w.srv \in [Tasks -> Servers] /\ w.pos \in Nat /\ w.prompt \in Nat
      /\ w.pos < Len(w.srv[w.task].events)
  BY DEF Inv, Good, EventArrives, States
<1>2. w.task \in Tasks /\ w.task # "none"
  BY <1>1, SomeTask DEF Good, Resting
<1>3. PICK s : s = w.srv[w.task]
  OBVIOUS
<1>4. s \in Servers /\ s.events \in Seq(Events) /\ Final(s)
  BY <1>1, <1>2, <1>3 DEF Servers, Good, Faithful
<1>5. PICK e : e = s.events[w.pos + 1]
  OBVIOUS
<1>6. w.pos + 1 \in DOMAIN s.events
  BY <1>1, <1>3, <1>4
<1>7. e \in Events /\ (e.type \in Ended => s.state = e.type)
  BY <1>4, <1>5, <1>6 DEF Final
<1>8. StateForEvent(e) \in TaskStates /\ StateForEvent(e) # "" /\ (e.type \in Ended => StateForEvent(e) = e.type)
  BY <1>7 DEF StateForEvent, Events, Types, TaskStates, Ended
<1>9. PICK p, n : p = w.pos + 1 /\ n = EventPrompt(w, e)
  OBVIOUS
<1>10. p \in Nat /\ n \in Nat
  BY <1>1, <1>7, <1>9 DEF EventPrompt, Events
<1>11. PICK z : z = [w EXCEPT !.pos = p, !.prompt = n]
  OBVIOUS
<1>12. SameMost(w, z) /\ SameReply(w, z) /\ z.posted = w.posted
  BY ONLY <1>1, <1>10, <1>11 DEF States, SameMost, SameReply
<1>13. Good(z) /\ z.task \in Tasks
  <2>1. Good(z) BY <1>1, <1>2, <1>12, SmallStep DEF SameReply
  <2> QED BY <1>2, <1>12, <2>1 DEF SameMost
<1>14. PICK x : x = SetStatus(z, StateForEvent(e))
  OBVIOUS
<1>15. /\ x \in States /\ Same(z, x) /\ PagesOf(x) /\ InOrder(x) /\ ResultOf(x) /\ Resting(x) /\ Faithful(x)
       /\ x.status = StateForEvent(e)
  BY <1>8, <1>13, <1>14, StatusSet
<1>16. x.task = w.task /\ x.srv = w.srv /\ x.stream = "open"
  BY <1>1, <1>12, <1>15 DEF Same, SameMost
<1>17. PICK b : b = [state |-> "", prompt |-> 0]
  OBVIOUS
<1>18. PICK u : u = IF e.type \in Ended THEN "ended" ELSE "open"
  OBVIOUS
<1>19. b \in Snapshots /\ u \in {"open", "ended"}
  BY <1>17, <1>18 DEF Snapshots
<1>20. w' = [x EXCEPT !.reply = "asked", !.snapshot = b, !.stream = u]
  <2>1. w' = [RefreshStatus(x) EXCEPT !.stream = IF e.type \in Ended THEN "ended" ELSE @]
    <3>1. z = [w EXCEPT !.pos = @ + 1, !.prompt = EventPrompt(w, e)]
      BY <1>9, <1>11
    <3> QED BY <1>3, <1>5, <1>14, <3>1 DEF EventArrives
  <2>2. RefreshStatus(x) = [x EXCEPT !.reply = "asked", !.snapshot = b]
    BY <1>17 DEF RefreshStatus
  <2> QED BY ONLY <1>15, <1>16, <1>18, <2>1, <2>2 DEF States
<1>21. /\ w' \in States /\ SameLog(x, w') /\ SameResult(x, w') /\ w'.srv = x.srv /\ w'.status = x.status
       /\ w'.reply = "asked" /\ w'.stream = u
  BY ONLY <1>15, <1>19, <1>20 DEF States, SameLog, SameResult
<1>22. PagesOf(w') /\ InOrder(w') /\ ResultOf(w') /\ Faithful(w')
  <2>1. PagesOf(w') BY <1>15, <1>21 DEF SameLog, PagesOf
  <2>2. InOrder(w') BY <1>15, <1>21 DEF SameLog, InOrder, Run
  <2>3. ResultOf(w') BY <1>15, <1>21 DEF SameResult, ResultOf
  <2>4. Faithful(w') BY <1>15, <1>21 DEF Faithful
  <2> QED BY <2>1, <2>2, <2>3, <2>4
<1>23. w'.task = w.task
  BY <1>16, <1>21 DEF SameLog
<1>24. Resting(w')
  BY <1>2, <1>23 DEF Resting
<1>25. AtEnd(w')
  BY <1>3, <1>7, <1>8, <1>15, <1>16, <1>18, <1>21, <1>23 DEF AtEnd
<1> QED BY <1>21, <1>22, <1>24, <1>25 DEF Good

\* A task is opened with nothing of the one before but its late answers.
LEMMA OpenStep ==
  ASSUME Inv, NEW t \in Tasks, NEW state \in TaskStates, OpenTask(t, state)
  PROVE  Good(w')
<1>1. Good(w) /\ w \in States /\ w.logs \in Seq(Requests)
  BY DEF Inv, Good, States
<1>2. CASE <<w.task, w.row>> = <<t, state>>
  BY <1>1, <1>2 DEF OpenTask
<1>3. CASE <<w.task, w.row>> # <<t, state>>
  <2>1. PICK idle, e, b : /\ idle = [state |-> "idle", of |-> "none", asked |-> "none"] /\ e = <<>>
                          /\ b = [state |-> "", prompt |-> 0]
    OBVIOUS
  <2>2. PICK c \in BOOLEAN : c = (\E i \in DOMAIN w.logs : TRUE)
    OBVIOUS
  <2>3. idle \in Results /\ idle.state = "idle" /\ e \in Seq(Pages) /\ Len(e) = 0 /\ DOMAIN e = {} /\ b \in Snapshots
    <3>1. idle \in Results /\ idle.state = "idle" BY <2>1 DEF Results
    <3>2. e \in Seq(Pages) /\ Len(e) = 0 BY <2>1, EmptySeq
    <3>3. DOMAIN e = 1..0 BY ONLY <3>2, LenProperties
    <3>4. b \in Snapshots BY <2>1 DEF Snapshots
    <3> QED BY <3>1, <3>2, <3>3, <3>4
  <2>4. PICK z : z = [w EXCEPT !.task = t, !.row = state, !.tab = "sse", !.pos = 0, !.stream = "open", !.prompt = 0,
                     !.shown = e, !.offset = 0, !.inFlight = FALSE, !.result = idle, !.posted = 0,
                     !.status = state, !.crossed = c, !.reply = "asked", !.snapshot = b]
    OBVIOUS
  <2>5. w' = Effects(z)
    <3>1. PICK x : x = [w EXCEPT !.task = t, !.row = state, !.tab = "sse", !.pos = 0, !.stream = "open", !.prompt = 0,
                     !.shown = e, !.offset = 0, !.inFlight = FALSE, !.result = idle, !.posted = 0,
                     !.status = state, !.crossed = c]
      OBVIOUS
    <3>2. w' = Effects(RefreshStatus(x))
      BY <1>3, <2>1, <2>2, <3>1 DEF OpenTask
    <3>3. RefreshStatus(x) = z
      BY ONLY <2>1, <2>4, <3>1 DEF RefreshStatus
    <3> QED BY <3>2, <3>3
  <2>6. /\ z \in States /\ z.srv = w.srv /\ z.logs = w.logs /\ z.task = t /\ z.shown = e /\ z.offset = 0
        /\ z.inFlight = FALSE /\ z.result = idle /\ z.crossed = c /\ z.stream = "open" /\ z.reply = "asked"
    <3>1. c \in BOOLEAN /\ idle \in Results /\ e \in Seq(Pages) /\ b \in Snapshots
      BY <2>2, <2>3
    <3>0. w \in States
      BY <1>1
    <3>2. PICK x : x = [w EXCEPT !.task = t, !.row = state, !.tab = "sse", !.pos = 0, !.stream = "open", !.prompt = 0]
      OBVIOUS
    <3>3. x \in States /\ x.srv = w.srv /\ x.logs = w.logs /\ x.task = t /\ x.stream = "open"
      BY ONLY <3>0, <3>2, t \in Tasks, state \in TaskStates DEF States
    <3>4. z = [x EXCEPT !.shown = e, !.offset = 0, !.inFlight = FALSE, !.result = idle, !.posted = 0,
                        !.status = state, !.crossed = c, !.reply = "asked", !.snapshot = b]
      BY ONLY <2>4, <3>2
    <3>5. PICK y : y = [x EXCEPT !.shown = e, !.offset = 0, !.inFlight = FALSE, !.result = idle]
      OBVIOUS
    <3>6. /\ y \in States /\ y.srv = w.srv /\ y.logs = w.logs /\ y.task = t /\ y.stream = "open" /\ y.shown = e
          /\ y.offset = 0 /\ y.inFlight = FALSE /\ y.result = idle
      BY ONLY <3>1, <3>3, <3>5 DEF States
    <3>7. z = [y EXCEPT !.posted = 0, !.status = state, !.crossed = c, !.reply = "asked", !.snapshot = b]
      BY ONLY <3>4, <3>5
    <3> QED BY ONLY <3>1, <3>6, <3>7, state \in TaskStates DEF States
  <2>7. z.shown = Kept(Run(z))
    <3>1. Run(z) = <<>> BY <2>6 DEF Run
    <3>2. Kept(<<>>) = <<>> BY ConsoleAssumption DEF Kept
    <3> QED BY <2>1, <2>6, <3>1, <3>2
  <2>8. ~z.crossed => Len(z.logs) = 0
    <3>1. c = FALSE => ~(1 \in DOMAIN w.logs) BY <2>2
    <3>2. Len(w.logs) \in Nat /\ DOMAIN w.logs = 1..Len(w.logs) BY <1>1
    <3> QED BY <2>6, <3>1, <3>2
  <2>9. w' \in States /\ Same(z, w') /\ w'.status = z.status /\ PagesOf(w') /\ InOrder(w') /\ ResultOf(w')
    BY <2>3, <2>5, <2>6, <2>7, <2>8, EffectsRun
  <2>10. w'.task = t /\ w'.srv = w.srv /\ w'.stream = "open"
    BY <2>6, <2>9 DEF Same
  <2>11. Resting(w') /\ Faithful(w') /\ AtEnd(w')
    BY <1>1, <2>10, ConsoleAssumption DEF Resting, Faithful, AtEnd, Good
  <2> QED BY <2>9, <2>11 DEF Good
<1> QED BY <1>2, <1>3

LEMMA CloseStep ==
  ASSUME Inv, Close
  PROVE  Good(w')
<1>1. Good(w) /\ w \in States
  BY DEF Inv, Good
<1>2. PICK idle, e, b : /\ idle = [state |-> "idle", of |-> "none", asked |-> "none"] /\ e = <<>>
                        /\ b = [state |-> "", prompt |-> 0]
  OBVIOUS
<1>3. /\ idle \in Results /\ idle.state = "idle" /\ idle.asked = "none" /\ e \in Seq(Pages) /\ e \in Seq(Requests)
      /\ Len(e) = 0 /\ DOMAIN e = {} /\ b \in Snapshots
  <2>1. idle \in Results /\ idle.state = "idle" /\ idle.asked = "none" BY <1>2 DEF Results
  <2>2. e \in Seq(Pages) /\ e \in Seq(Requests) /\ Len(e) = 0 BY <1>2, EmptySeq
  <2>3. DOMAIN e = 1..0 BY ONLY <2>2, LenProperties
  <2>4. b \in Snapshots BY <1>2 DEF Snapshots
  <2> QED BY <2>1, <2>2, <2>3, <2>4
<1>4. w' = [w EXCEPT !.task = "none", !.row = "", !.tab = "sse", !.pos = 0, !.stream = "closed", !.prompt = 0,
                    !.shown = e, !.offset = 0, !.inFlight = FALSE, !.logs = e, !.posted = 0, !.status = "",
                    !.result = idle, !.reply = "none", !.snapshot = b, !.crossed = FALSE]
  BY <1>2 DEF Close
<1>5. /\ w' \in States /\ w'.srv = w.srv /\ w'.task = "none" /\ w'.tab = "sse" /\ w'.stream = "closed" /\ w'.prompt = 0
      /\ w'.shown = e /\ w'.offset = 0 /\ w'.inFlight = FALSE /\ w'.logs = e /\ w'.posted = 0 /\ w'.result = idle
      /\ w'.reply = "none"
  <2>1. w \in States /\ idle \in Results /\ e \in Seq(Pages) /\ e \in Seq(Requests) /\ b \in Snapshots
    BY <1>1, <1>3
  <2> QED BY ONLY <1>4, <2>1 DEF States
<1>6. Resting(w') /\ PagesOf(w') /\ ResultOf(w') /\ AtEnd(w')
  BY <1>3, <1>5 DEF Resting, PagesOf, ResultOf, AtEnd
<1>7. InOrder(w')
  <2>1. Run(w') = <<>> BY <1>5 DEF Run
  <2>2. Kept(<<>>) = <<>> BY ConsoleAssumption DEF Kept
  <2> QED BY <1>2, <1>3, <1>5, <2>1, <2>2 DEF InOrder
<1>8. Faithful(w')
  BY <1>1, <1>5 DEF Good, Faithful
<1> QED BY <1>5, <1>6, <1>7, <1>8 DEF Good

-----------------------------------------------------------------------------
LEMMA ConsoleStep ==
  ASSUME Inv, Console
  PROVE  Good(w')
BY StatusSteps, PromptSteps, ResultSteps, TimerStep, TabStep, AnswerStep, EventStep, CloseStep DEF Console

LEMMA Steps ==
  ASSUME Inv, Next
  PROVE  Good(w')
<1>1. CASE \E t \in Tasks : Runner(t) \/ (Len(w.logs) < MaxPages /\ (ClickRow(t) \/ RunAnswered(t)))
  <2>1. PICK t \in Tasks : Runner(t) \/ ClickRow(t) \/ RunAnswered(t)
    BY <1>1
  <2>2. w.srv[t].state \in TaskStates /\ "QUEUED" \in TaskStates
    BY DEF Inv, Good, States, Servers, TaskStates
  <2>3. CASE Runner(t) BY <2>3, RunnerStep
  <2>4. CASE ClickRow(t) BY <2>2, <2>4, OpenStep DEF ClickRow
  <2>5. CASE RunAnswered(t) BY <2>2, <2>5, OpenStep DEF RunAnswered
  <2> QED BY <2>1, <2>3, <2>4, <2>5
<1>2. CASE Len(w.logs) < MaxPages /\ Console
  BY <1>2, ConsoleStep
<1>3. CASE \E i \in DOMAIN w.logs : PageRead(i) \/ PageAnswer(i) \/ PageFails(i)
  BY <1>3, PageSteps
<1> QED BY <1>1, <1>2, <1>3 DEF Next

\* The invariant of the console and of the runner it asks.
THEOREM ConsoleSound == Spec => []Inv
<1>1. Init => Inv
  BY Starts
<1>2. Inv /\ [Next]_w => Inv'
  <2> SUFFICES ASSUME Inv, [Next]_w PROVE Inv'
    OBVIOUS
  <2>1. CASE Next
    <3>1. Good(w') BY <2>1, Steps
    <3> QED BY <3>1 DEF Inv
  <2>2. CASE UNCHANGED w BY <2>2 DEF Inv
  <2> QED BY <2>1, <2>2
<1> QED BY <1>1, <1>2, PTL DEF Spec

\* What is shown is of the task shown: pages of its log and its result, when
\* tasks are opened and closed with requests in flight.
THEOREM ShownIsOfTask == Spec => []OnlyThisTask
<1>1. Inv => OnlyThisTask
  BY DEF Inv, Good, PagesOf, ResultOf, OnlyThisTask
<1> QED BY <1>1, ConsoleSound, PTL

\* The pages shown are the last of an unbroken run from the first, unless a
\* request of an earlier opening was still in flight.
THEOREM LogIsUnbroken == Spec => []LogIsContiguous
<1>1. Inv => LogIsContiguous
  BY DEF Inv, Good, InOrder, Run, LogIsContiguous
<1> QED BY <1>1, ConsoleSound, PTL

\* When the stream has ended and no status is asked for, the status shown is
\* the state the task ended in.
THEOREM StatusIsTheEnd == Spec => []StatusSettles
<1>1. Inv => StatusSettles
  BY DEF Inv, Good, AtEnd, StatusSettles
<1> QED BY <1>1, ConsoleSound, PTL

\* The console shows the pages and the result of the task shown, an unbroken
\* log and, once the stream has ended, how the task ended.
THEOREM ConsoleShowsTask == Spec => []ConsoleIsFaithful
<1>1. OnlyThisTask /\ LogIsContiguous /\ StatusSettles => ConsoleIsFaithful
  BY DEF ConsoleIsFaithful
<1> QED BY <1>1, ShownIsOfTask, LogIsUnbroken, StatusIsTheEnd, PTL

-----------------------------------------------------------------------------
(* The document.                                                           *)

AllTexts == Texts \union Templates \union {Ide!Blank}
Ids == Scripts \union {Ide!None}
Kinds == {"save", "run", "template", "open", "restore"}
Docs == [id : Ids, text : AllTexts]
Actions == [do : {"replace", "new", "leave"}, doc : Docs] \union {Ide!Nothing}
Asks == [kind : Kinds, id : Ids, text : AllTexts, dirty : BOOLEAN, step : {"asked", "done"}, here : BOOLEAN]
Papers ==
  [stored : [Scripts -> AllTexts \union {Ide!None, "deleted"}], last : Ids, open : {"left", "loading", "ready"}, fresh : BOOLEAN,
   id : Ids, text : AllTexts, base : AllTexts, pending : Actions, dialog : BOOLEAN, wire : Seq(Asks),
   crossed : BOOLEAN, error : BOOLEAN]

(* What is named is stored, or was; what is read or written is of a script. *)
Known(stored, id) == id # Ide!None => id \in Scripts /\ stored[id] # Ide!None
Named(x) ==
  /\ Known(x.stored, x.id) /\ Known(x.stored, x.pending.doc.id) /\ Known(x.stored, x.last)
  /\ \A i \in DOMAIN x.wire : LET r == x.wire[i] IN
       /\ Known(x.stored, r.id)
       /\ r.kind = "template" => r.id = Ide!None
       /\ (r.kind \in {"open", "restore"} \/ (Ide!IsStore(r.kind) /\ r.step = "done")) => r.id # Ide!None

(* The one request that restores the document is waited for; the other     *)
(* answers that are listened to come to a document that is open.           *)
Restoring(x) ==
  /\ \A i \in DOMAIN x.wire : x.wire[i].here => x.open = IF x.wire[i].kind = "restore" THEN "loading" ELSE "ready"
  /\ \A i, j \in DOMAIN x.wire :
       (x.wire[i].kind = "restore" /\ x.wire[i].here /\ x.wire[j].kind = "restore" /\ x.wire[j].here) => i = j
  /\ x.open # "ready" => x.id = Ide!None /\ ~x.dialog

Fits(stored, id, text) == id # Ide!None => stored[id] \in {text, "deleted"}

(* With no crossing: a save or run is the only request about stored        *)
(* scripts, what was read or stored is what is stored, and the text the    *)
(* buffer was last in step with is stored unless a store is on its way or  *)
(* has failed.                                                             *)
Lonely(x) ==
  \A i, j \in DOMAIN x.wire : (i # j /\ Ide!IsStore(x.wire[i].kind)) => x.wire[j].kind = "template"
Read(x) == \A i \in DOMAIN x.wire : x.wire[i].step = "done" => Fits(x.stored, x.wire[i].id, x.wire[i].text)
NoStore(x) == \A i \in DOMAIN x.wire : ~Ide!IsStore(x.wire[i].kind)
InStep(x) == (~x.error /\ NoStore(x)) => Fits(x.stored, x.id, x.base)
Listened(x) ==
  \A i \in DOMAIN x.wire :
    (Ide!IsStore(x.wire[i].kind) /\ ~x.wire[i].here) => x.id = Ide!None /\ x.pending.doc.id = Ide!None
(* So is the document that waits for the operator's consent.               *)
Waiting(x) ==
  LET d == x.pending.doc IN
    (d.id # Ide!None /\ x.stored[d.id] # "deleted") =>
      /\ x.stored[d.id] = d.text
      /\ x.id = d.id => x.text = d.text /\ x.base = d.text
      /\ \A i \in DOMAIN x.wire : (Ide!IsStore(x.wire[i].kind) /\ x.wire[i].id = d.id) => x.wire[i].text = d.text

Sound(x) ==
  /\ x \in Papers /\ Named(x) /\ Restoring(x)
  /\ ~x.crossed => Lonely(x) /\ Read(x) /\ Listened(x) /\ Waiting(x)
GoodDoc(x) == Sound(x) /\ (~x.crossed => InStep(x))
DocInv == GoodDoc(ide)

\* What may come into the buffer.
Fitting(x, d) ==
  /\ d \in Docs /\ Known(x.stored, d.id)
  /\ ~x.crossed => /\ Fits(x.stored, d.id, d.text)
                   /\ d.id # Ide!None => \A i \in DOMAIN x.wire : Ide!IsStore(x.wire[i].kind) => x.wire[i].here

\* The IDE is entered with nothing on its way.
LEMMA DocStarts == ASSUME Ide!Distinct, Ide!Init PROVE DocInv
<1>1. PICK t \in Texts, s \in Scripts :
    ide = [stored |-> [u \in Scripts |-> IF u = s THEN t ELSE Ide!None], last |-> s, open |-> "left", fresh |-> TRUE,
         id |-> Ide!None, text |-> Ide!Blank, base |-> Ide!Blank, pending |-> Ide!Nothing, dialog |-> FALSE,
         wire |-> <<>>, crossed |-> FALSE, error |-> FALSE]
  BY DEF Ide!Init
<1>2. PICK f, e : f = [u \in Scripts |-> IF u = s THEN t ELSE Ide!None] /\ e = <<>>
  OBVIOUS
<1>3. f \in [Scripts -> AllTexts \union {Ide!None, "deleted"}] /\ f[s] = t
  BY <1>2 DEF AllTexts
<1>4. e \in Seq(Asks) /\ DOMAIN e = {}
  <2>1. e \in Seq(Asks) /\ Len(e) = 0 BY <1>2, EmptySeq
  <2>2. DOMAIN e = 1..0 BY ONLY <2>1, LenProperties
  <2> QED BY <2>1, <2>2
<1>5. Ide!Nothing \in Actions /\ Ide!Nothing.doc.id = Ide!None
  BY DEF Ide!Nothing, Actions, Docs, Ide!Document, Ids, AllTexts
<1>6. ide = [stored |-> f, last |-> s, open |-> "left", fresh |-> TRUE, id |-> Ide!None, text |-> Ide!Blank, base |-> Ide!Blank,
           pending |-> Ide!Nothing, dialog |-> FALSE, wire |-> e, crossed |-> FALSE, error |-> FALSE]
  BY ONLY <1>1, <1>2
<1>7. Ide!None \in Ids /\ s \in Ids /\ Ide!Blank \in AllTexts
  BY DEF Ids, AllTexts
<1>8. ide \in Papers
  BY ONLY <1>3, <1>4, <1>5, <1>6, <1>7 DEF Papers
<1>9. /\ ide.stored = f /\ ide.last = s /\ ide.open = "left" /\ ide.id = Ide!None /\ ide.text = Ide!Blank /\ ide.base = Ide!Blank
      /\ ide.pending = Ide!Nothing /\ ide.wire = e /\ ~ide.crossed /\ ~ide.dialog
  BY ONLY <1>6
<1>10. s # Ide!None => f[s] # Ide!None
  <2>1. t # Ide!None BY Ide!Distinct DEF Ide!Distinct
  <2> QED BY <1>3, <2>1
<1>11. Named(ide) /\ Restoring(ide)
  BY <1>4, <1>5, <1>9, <1>10 DEF Named, Restoring, Known
<1>12. Lonely(ide) /\ Read(ide) /\ Listened(ide) /\ Waiting(ide) /\ InStep(ide)
  BY <1>4, <1>5, <1>9 DEF Lonely, Read, Listened, Waiting, InStep, Fits
<1> QED BY <1>8, <1>11, <1>12 DEF DocInv, GoodDoc, Sound

-----------------------------------------------------------------------------
(* The buffer and the document that waits.                                 *)

\* What a step that leaves the wire and the store alone keeps.
SameWire(x, y) == y.stored = x.stored /\ y.wire = x.wire /\ y.crossed = x.crossed
SameBuffer(x, y) == y.open = x.open /\ y.id = x.id /\ y.base = x.base /\ y.error = x.error
Idle(x, y) == SameWire(x, y) /\ SameBuffer(x, y) /\ y.text = x.text /\ y.pending = x.pending

LEMMA IdleStep ==
  ASSUME NEW x, NEW y \in Papers, Idle(x, y), Known(y.stored, y.last), y.dialog => y.open = "ready"
  PROVE  (Sound(x) => Sound(y)) /\ (GoodDoc(x) => GoodDoc(y))
<1>1. Named(x) => Named(y)
  BY DEF Idle, SameWire, SameBuffer, Named
<1>2. Restoring(x) => Restoring(y)
  BY DEF Idle, SameWire, SameBuffer, Restoring
<1>3. /\ Lonely(x) => Lonely(y)
      /\ Read(x) => Read(y)
      /\ Listened(x) => Listened(y)
      /\ Waiting(x) => Waiting(y)
      /\ InStep(x) => InStep(y)
  BY DEF Idle, SameWire, SameBuffer, Lonely, Read, Listened, Waiting, InStep, NoStore
<1>4. y.crossed = x.crossed
  BY DEF Idle, SameWire
<1> QED BY <1>1, <1>2, <1>3, <1>4 DEF Sound, GoodDoc

LEMMA ReplacedIsGood ==
  ASSUME NEW x, Sound(x), NEW d, Fitting(x, d), x.open = "ready" \/ d.id = Ide!None, NEW y, y = Ide!Replaced(x, d)
  PROVE  GoodDoc(y) /\ SameWire(x, y) /\ y.pending = x.pending /\ y.open = x.open
<1>1. x \in Papers /\ d \in Docs
  BY DEF Sound, Fitting
<1>2. y = [x EXCEPT !.text = d.text, !.base = d.text, !.id = d.id, !.error = FALSE]
  BY DEF Ide!Replaced
<1>3. /\ y \in Papers /\ SameWire(x, y) /\ y.pending = x.pending /\ y.open = x.open /\ y.last = x.last
      /\ y.dialog = x.dialog /\ y.id = d.id /\ y.text = d.text /\ y.base = d.text /\ ~y.error
  BY ONLY <1>1, <1>2 DEF Papers, Docs, SameWire
<1>4. Named(y)
  BY <1>3 DEF Sound, Named, Fitting, SameWire
<1>5. Restoring(y)
  BY <1>3 DEF Sound, Restoring, SameWire
<1>6. ASSUME ~x.crossed PROVE Lonely(y) /\ Read(y) /\ Listened(y) /\ Waiting(y) /\ InStep(y)
  <2>1. Lonely(y) /\ Read(y)
    BY <1>3, <1>6 DEF Sound, Lonely, Read, SameWire
  <2>2. Listened(y)
    BY <1>3, <1>6 DEF Sound, Listened, SameWire, Fitting
  <2>3. InStep(y)
    BY <1>3, <1>6 DEF InStep, SameWire, Fitting, Fits
  <2>4. Waiting(y)
    <3>1. Waiting(x) BY <1>6 DEF Sound
    <3>2. d.id # Ide!None => x.stored[d.id] \in {d.text, "deleted"} BY <1>6 DEF Fitting, Fits
    <3> QED BY <1>3, <3>1, <3>2 DEF Waiting, SameWire
  <2> QED BY <2>1, <2>2, <2>3, <2>4
<1>7. y.crossed = x.crossed
  BY <1>3 DEF SameWire
<1> QED BY <1>3, <1>4, <1>5, <1>6, <1>7 DEF GoodDoc, Sound

LEMMA PendingIsGood ==
  ASSUME NEW x, GoodDoc(x), NEW a \in Actions, Fitting(x, a.doc),
         a.doc.id = Ide!None \/ (a.doc.id # x.id /\ (~x.crossed => NoStore(x))), NEW y, y = [x EXCEPT !.pending = a]
  PROVE  GoodDoc(y)
<1>1. x \in Papers
  BY DEF GoodDoc, Sound
<1>2. /\ y \in Papers /\ SameWire(x, y) /\ SameBuffer(x, y) /\ y.text = x.text /\ y.last = x.last
      /\ y.dialog = x.dialog /\ y.pending = a
  BY ONLY <1>1, a \in Actions, y = [x EXCEPT !.pending = a] DEF Papers, SameWire, SameBuffer
<1>3. Named(y)
  BY <1>2 DEF GoodDoc, Sound, Named, Fitting, SameWire, SameBuffer
<1>4. Restoring(y)
  BY <1>2 DEF GoodDoc, Sound, Restoring, SameWire, SameBuffer
<1>5. ASSUME ~x.crossed PROVE Lonely(y) /\ Read(y) /\ Listened(y) /\ Waiting(y) /\ InStep(y)
  <2>1. Lonely(y) /\ Read(y) /\ InStep(y)
    BY <1>2, <1>5 DEF GoodDoc, Sound, Lonely, Read, InStep, NoStore, SameWire, SameBuffer
  <2>2. Listened(y)
    BY <1>2, <1>5 DEF GoodDoc, Sound, Listened, SameWire, SameBuffer, Fitting
  <2>3. Waiting(y)
    BY <1>2, <1>5 DEF Waiting, SameWire, SameBuffer, Fitting, Fits, NoStore
  <2> QED BY <2>1, <2>2, <2>3
<1>6. y.crossed = x.crossed
  BY <1>2 DEF SameWire
<1> QED BY <1>2, <1>3, <1>4, <1>5, <1>6 DEF GoodDoc, Sound

LEMMA Nothings ==
  /\ Ide!Nothing \in Actions /\ Ide!Nothing.doc = Ide!Document /\ Ide!Document \in Docs /\ Ide!Document.id = Ide!None
  /\ \A x : Fitting(x, Ide!Document)
<1>1. Ide!Document \in Docs /\ Ide!Document.id = Ide!None
  BY DEF Ide!Document, Docs, Ids, AllTexts
<1>2. Ide!Nothing \in Actions /\ Ide!Nothing.doc = Ide!Document
  BY <1>1 DEF Ide!Nothing, Actions
<1>3. \A x : Fitting(x, Ide!Document)
  BY <1>1 DEF Fitting, Known, Fits
<1> QED BY <1>1, <1>2, <1>3

LEMMA OpenedIsGood ==
  ASSUME NEW x, GoodDoc(x), x.open = "ready", NEW d, Fitting(x, d), d.id = Ide!None \/ (~x.crossed => NoStore(x)),
         NEW y, y = Ide!Opened(x, d)
  PROVE  GoodDoc(y)
<1>1. CASE ~Ide!Dirty(x)
  <2>1. y = Ide!Replaced(x, d) BY <1>1 DEF Ide!Opened
  <2> QED BY <2>1, ReplacedIsGood DEF GoodDoc
<1>2. CASE Ide!Dirty(x) /\ (d.id # x.id \/ d.id = Ide!None)
  <2>1. PICK a : a = [do |-> "replace", doc |-> d]
    OBVIOUS
  <2>2. y = [x EXCEPT !.pending = a]
    BY <1>2, <2>1 DEF Ide!Opened
  <2>3. a \in Actions /\ a.doc = d
    BY <2>1 DEF Actions, Fitting
  <2> QED BY <1>2, <2>2, <2>3, PendingIsGood
<1>3. CASE Ide!Dirty(x) /\ ~(d.id # x.id \/ d.id = Ide!None)
  BY <1>3 DEF Ide!Opened
<1> QED BY <1>1, <1>2, <1>3

\* Leaving the workspace: the answers on their way reach no buffer.
LEMMA LeaveIsGood ==
  ASSUME NEW x, GoodDoc(x), x.pending.doc.id = Ide!None, NEW y,
         y = [x EXCEPT !.open = "left", !.fresh = TRUE, !.id = Ide!None, !.text = Ide!Blank, !.base = Ide!Blank,
                       !.dialog = FALSE, !.wire = [i \in DOMAIN x.wire |-> [x.wire[i] EXCEPT !.here = FALSE]]]
  PROVE  GoodDoc(y)
<1>1. x \in Papers /\ x.wire \in Seq(Asks)
  BY DEF GoodDoc, Sound, Papers
<1>2. PICK q : q = [i \in DOMAIN x.wire |-> [x.wire[i] EXCEPT !.here = FALSE]]
  OBVIOUS
<1>3. Len(x.wire) \in Nat /\ DOMAIN x.wire = 1..Len(x.wire) /\ \A i \in DOMAIN x.wire : x.wire[i] \in Asks
  BY <1>1
<1>4. \A i \in DOMAIN x.wire :
        /\ q[i] \in Asks /\ ~q[i].here
        /\ q[i].kind = x.wire[i].kind /\ q[i].id = x.wire[i].id /\ q[i].text = x.wire[i].text /\ q[i].step = x.wire[i].step
  BY <1>2, <1>3 DEF Asks
<1>5. q \in Seq(Asks) /\ DOMAIN q = DOMAIN x.wire
  <2>1. q \in [1..Len(x.wire) -> Asks] BY <1>2, <1>3, <1>4
  <2> QED BY <1>3, <2>1
<1>6. Ide!None \in Ids /\ Ide!Blank \in AllTexts
  BY DEF Ids, AllTexts
<1>7. y = [x EXCEPT !.open = "left", !.fresh = TRUE, !.id = Ide!None, !.text = Ide!Blank, !.base = Ide!Blank,
                    !.dialog = FALSE, !.wire = q]
  BY ONLY <1>2, y = [x EXCEPT !.open = "left", !.fresh = TRUE, !.id = Ide!None, !.text = Ide!Blank, !.base = Ide!Blank,
                       !.dialog = FALSE, !.wire = [i \in DOMAIN x.wire |-> [x.wire[i] EXCEPT !.here = FALSE]]]
<1>8. /\ y \in Papers /\ y.open = "left" /\ y.id = Ide!None /\ y.text = Ide!Blank /\ y.base = Ide!Blank /\ y.wire = q
      /\ ~y.dialog /\ y.stored = x.stored /\ y.pending = x.pending /\ y.last = x.last /\ y.crossed = x.crossed /\ y.error = x.error
  BY ONLY <1>1, <1>5, <1>6, <1>7 DEF Papers
<1>9. Named(y)
  BY <1>4, <1>5, <1>8 DEF GoodDoc, Sound, Named, Known
<1>10. Restoring(y)
  BY <1>4, <1>5, <1>8 DEF Restoring
<1>11. ASSUME ~x.crossed PROVE Lonely(y) /\ Read(y) /\ Listened(y) /\ Waiting(y) /\ InStep(y)
  <2>1. Lonely(y) /\ Read(y)
    BY <1>4, <1>5, <1>8, <1>11 DEF GoodDoc, Sound, Lonely, Read
  <2>2. Listened(y) /\ InStep(y) /\ Waiting(y)
    BY <1>8 DEF Listened, InStep, Fits, Waiting
  <2> QED BY <2>1, <2>2
<1> QED BY <1>8, <1>9, <1>10, <1>11 DEF GoodDoc, Sound

LEMMA DoIsGood ==
  ASSUME NEW x, GoodDoc(x), x.open = "ready", x.pending.doc.id = Ide!None, NEW a \in Actions, a.do # "nothing",
         Fitting(x, a.doc), NEW y, y = Ide!Do(x, a)
  PROVE  GoodDoc(y)
<1>1. CASE a.do = "replace"
  <2>1. y = Ide!Replaced(x, a.doc) BY <1>1 DEF Ide!Do
  <2> QED BY <2>1, ReplacedIsGood DEF GoodDoc
<1>2. CASE a.do = "new"
  <2>1. PICK z : z = [x EXCEPT !.last = Ide!None, !.fresh = FALSE]
    OBVIOUS
  <2>2. y = Ide!Replaced(z, Ide!Document) BY <1>2, <2>1 DEF Ide!Do
  <2>3. Ide!None \in Ids
    BY DEF Ids
  <2>4. x \in Papers
    BY DEF GoodDoc, Sound
  <2>5. z \in Papers /\ Idle(x, z) /\ z.last = Ide!None /\ z.open = x.open
    BY ONLY <2>1, <2>3, <2>4 DEF Papers, Idle, SameWire, SameBuffer
  <2>6. GoodDoc(z)
    <3>1. Known(z.stored, z.last) BY <2>5 DEF Known
    <3> QED BY <2>5, <3>1, x.open = "ready", IdleStep
  <2> QED BY <2>2, <2>5, <2>6, Nothings, ReplacedIsGood DEF GoodDoc
<1>3. CASE a.do = "leave"
  <2>1. y = [x EXCEPT !.open = "left", !.fresh = TRUE, !.id = Ide!None, !.text = Ide!Blank, !.base = Ide!Blank,
                       !.dialog = FALSE, !.wire = [i \in DOMAIN x.wire |-> [x.wire[i] EXCEPT !.here = FALSE]]]
    <3>1. y = [x EXCEPT !.open = "left", !.fresh = TRUE, !.id = Ide!None, !.text = Ide!Blank, !.base = Ide!Blank,
                        !.dialog = FALSE, !.wire = [i \in DOMAIN @ |-> [@[i] EXCEPT !.here = FALSE]]]
      BY <1>3 DEF Ide!Do
    <3> QED BY ONLY <3>1
  <2> QED BY <2>1, LeaveIsGood
<1> QED BY <1>1, <1>2, <1>3 DEF Actions, Ide!Nothing

\* What is not done at once waits.
LEMMA RequestIsGood ==
  ASSUME NEW x, GoodDoc(x), x.open = "ready", NEW a \in Actions, a.do # "nothing", Fitting(x, a.doc), a.doc.id = Ide!None,
         NEW dirty \in BOOLEAN, dirty \/ a.do = "replace" \/ x.pending.doc.id = Ide!None, NEW y, y = Ide!Request(x, dirty, a)
  PROVE  GoodDoc(y)
<1>1. CASE dirty
  <2>1. y = [x EXCEPT !.pending = a] BY <1>1 DEF Ide!Request
  <2> QED BY <2>1, PendingIsGood
<1>2. CASE ~dirty
  <2>1. y = Ide!Do(x, a) BY <1>2 DEF Ide!Request
  <2>2. CASE a.do = "replace"
    <3>1. y = Ide!Replaced(x, a.doc) BY <2>1, <2>2 DEF Ide!Do
    <3> QED BY <3>1, ReplacedIsGood DEF GoodDoc
  <2>3. CASE a.do # "replace"
    BY <1>2, <2>1, <2>3, DoIsGood
  <2> QED BY <2>2, <2>3
<1> QED BY <1>1, <1>2

-----------------------------------------------------------------------------
(* The wire.                                                               *)

\* A request that is asked.
LEMMA AskIsGood ==
  ASSUME NEW x, GoodDoc(x), NEW kind \in Kinds, NEW id \in Ids, NEW text \in AllTexts, Known(x.stored, id),
         kind = "template" => id = Ide!None, kind \in {"open", "restore"} => id # Ide!None,
         kind # "restore" => x.open = "ready",
         kind = "restore" => /\ x.open = "loading"
                             /\ \A i \in DOMAIN x.wire : ~(x.wire[i].kind = "restore" /\ x.wire[i].here),
         Ide!IsStore(kind) => id = Ide!None \/ (id = x.id /\ text = x.text),
         NEW y, y = Ide!Ask(x, kind, id, text)
  PROVE  GoodDoc(y)
<1>1. x \in Papers /\ x.wire \in Seq(Asks) /\ x.crossed \in BOOLEAN
  BY DEF GoodDoc, Sound, Papers
<1>2. PICK c \in BOOLEAN : c = (x.crossed \/ Ide!Crosses(x, kind))
  BY <1>1
<1>3. PICK b \in BOOLEAN : b = Ide!Dirty(x)
  BY DEF Ide!Dirty
<1>4. PICK r : r = [kind |-> kind, id |-> id, text |-> text, dirty |-> b, step |-> "asked", here |-> TRUE]
  OBVIOUS
<1>5. /\ r \in Asks /\ r.kind = kind /\ r.id = id /\ r.text = text /\ r.step = "asked" /\ r.here
  BY <1>3, <1>4 DEF Asks
<1>6. PICK q, n, z : q = Append(x.wire, r) /\ n = Len(x.wire) + 1 /\ z = (IF Ide!IsStore(kind) THEN FALSE ELSE x.error)
  OBVIOUS
<1>7. /\ q \in Seq(Asks) /\ n \in Nat /\ DOMAIN q = 1..n /\ DOMAIN x.wire = 1..(n - 1) /\ q[n] = r /\ n \in DOMAIN q
      /\ \A i \in DOMAIN x.wire : q[i] = x.wire[i]
  BY <1>1, <1>5, <1>6
<1>8. z \in BOOLEAN
  BY <1>1, <1>6 DEF Papers
<1>9. y = [x EXCEPT !.crossed = c, !.wire = q, !.error = z]
  BY <1>1, <1>2, <1>3, <1>4, <1>6 DEF Ide!Ask, Papers
<1>10. /\ y \in Papers /\ y.stored = x.stored /\ y.last = x.last /\ y.open = x.open /\ y.id = x.id /\ y.text = x.text
       /\ y.base = x.base /\ y.pending = x.pending /\ y.wire = q /\ y.crossed = c /\ y.error = z /\ y.dialog = x.dialog
  <2>1. c \in BOOLEAN BY <1>2
  <2> QED BY ONLY <1>1, <1>7, <1>8, <1>9, <2>1 DEF Papers
<1>11. \A i \in DOMAIN q : q[i] = r \/ (i \in DOMAIN x.wire /\ q[i] = x.wire[i])
  BY <1>7
<1>12. Named(y)
  BY <1>5, <1>10, <1>11 DEF GoodDoc, Sound, Named
<1>13. Restoring(y)
  <2>1. \A i \in DOMAIN q : i = n \/ (i \in DOMAIN x.wire /\ q[i] = x.wire[i])
    BY <1>7
  <2>2. (\A i \in DOMAIN x.wire : ~(x.wire[i].kind = "restore" /\ x.wire[i].here)) \/ kind # "restore"
    OBVIOUS
  <2> QED BY <1>5, <1>7, <1>10, <2>1, <2>2 DEF GoodDoc, Sound, Restoring
<1>14. ASSUME ~c PROVE Lonely(y) /\ Read(y) /\ Listened(y) /\ Waiting(y) /\ InStep(y)
  <2>1. /\ Lonely(x) /\ Read(x) /\ Listened(x) /\ Waiting(x) /\ InStep(x)
        /\ \A i \in DOMAIN x.wire : \/ kind = "template" \/ x.wire[i].kind = "template"
                                    \/ (~Ide!IsStore(kind) /\ ~Ide!IsStore(x.wire[i].kind))
    BY <1>2, <1>14 DEF GoodDoc, Sound, Ide!Crosses
  <2>2. Lonely(y)
    <3> SUFFICES ASSUME NEW i \in DOMAIN q, NEW j \in DOMAIN q, i # j, Ide!IsStore(q[i].kind) PROVE q[j].kind = "template"
      BY <1>10 DEF Lonely
    <3>1. CASE i \in DOMAIN x.wire /\ j \in DOMAIN x.wire
      BY <1>7, <2>1, <3>1 DEF Lonely
    <3>2. CASE i \notin DOMAIN x.wire
      <4>1. i = n /\ j \in DOMAIN x.wire BY <1>7, <3>2
      <4>2. q[i].kind = kind /\ q[j] = x.wire[j] BY <1>5, <1>7, <4>1
      <4>3. kind # "template"
        <5>1. Ide!IsStore(kind) BY <4>2
        <5> QED BY ONLY <5>1 DEF Ide!IsStore
      <4> QED BY <2>1, <4>1, <4>2, <4>3
    <3>3. CASE j \notin DOMAIN x.wire
      <4>1. j = n /\ i \in DOMAIN x.wire BY <1>7, <3>3
      <4>2. q[j].kind = kind /\ q[i] = x.wire[i] BY <1>5, <1>7, <4>1
      <4>3. q[i].kind # "template" BY DEF Ide!IsStore
      <4> QED BY <2>1, <4>1, <4>2, <4>3
    <3> QED BY <3>1, <3>2, <3>3
  <2>3. Read(y)
    BY <1>5, <1>10, <1>11, <2>1 DEF Read
  <2>4. Listened(y)
    BY <1>5, <1>10, <1>11, <2>1 DEF Listened
  <2>5. Waiting(y)
    <3> DEFINE d == x.pending.doc
    <3> SUFFICES ASSUME d.id # Ide!None, x.stored[d.id] # "deleted"
                 PROVE  /\ x.stored[d.id] = d.text
                        /\ x.id = d.id => x.text = d.text /\ x.base = d.text
                        /\ \A i \in DOMAIN q : (Ide!IsStore(q[i].kind) /\ q[i].id = d.id) => q[i].text = d.text
      BY <1>10 DEF Waiting
    <3>1. /\ x.stored[d.id] = d.text
          /\ x.id = d.id => x.text = d.text /\ x.base = d.text
          /\ \A i \in DOMAIN x.wire : (Ide!IsStore(x.wire[i].kind) /\ x.wire[i].id = d.id) => x.wire[i].text = d.text
      BY <2>1 DEF Waiting
    <3>2. (Ide!IsStore(kind) /\ id = d.id) => text = d.text
      BY <3>1
    <3> QED BY <1>5, <1>11, <3>1, <3>2
  <2>6. InStep(y)
    <3>1. CASE Ide!IsStore(kind)
      <4>1. ~NoStore(y) BY <1>5, <1>7, <1>10, <3>1 DEF NoStore
      <4> QED BY <4>1 DEF InStep
    <3>2. CASE ~Ide!IsStore(kind)
      <4>1. z = x.error BY <1>6, <3>2
      <4>2. NoStore(y) => NoStore(x) BY <1>7, <1>10 DEF NoStore
      <4> QED BY <1>10, <2>1, <4>1, <4>2 DEF InStep
    <3> QED BY <3>1, <3>2
  <2> QED BY <2>2, <2>3, <2>4, <2>5, <2>6
<1> QED BY <1>10, <1>12, <1>13, <1>14 DEF GoodDoc, Sound

\* A wire without one of its requests: where each of the others was.
Where(s, i, q, f) ==
  \A k \in DOMAIN q : /\ f[k] \in DOMAIN s /\ f[k] # i /\ q[k] = s[f[k]]
                      /\ \A l \in DOMAIN q : k # l => f[k] # f[l]

LEMMA Others ==
  ASSUME NEW S, NEW s \in Seq(S), NEW i \in DOMAIN s, NEW q, q = RemoveAt(s, i)
  PROVE  /\ q \in Seq(S)
         /\ \E f : Where(s, i, q, f)
         /\ \A j \in DOMAIN s : j # i => \E k \in DOMAIN q : q[k] = s[j]
<1>1. /\ q \in Seq(S) /\ DOMAIN q = 1..(Len(s) - 1) /\ Len(s) \in Nat /\ DOMAIN s = 1..Len(s)
      /\ \A k \in 1..(Len(s) - 1) : q[k] = s[IF k < i THEN k ELSE k + 1]
  BY RemovedPlaces
<1>2. PICK f : f = [k \in DOMAIN q |-> IF k < i THEN k ELSE k + 1]
  OBVIOUS
<1>3. Where(s, i, q, f)
  BY <1>1, <1>2 DEF Where
<1>4. ASSUME NEW j \in DOMAIN s, j # i PROVE \E k \in DOMAIN q : q[k] = s[j]
  <2>1. PICK k : k = (IF j < i THEN j ELSE j - 1)
    OBVIOUS
  <2>2. k \in DOMAIN q /\ q[k] = s[j]
    BY <1>1, <1>4, <2>1
  <2> QED BY <2>2
<1> QED BY <1>1, <1>3, <1>4

\* A request taken off the wire, for its answer or its failure.
LEMMA TookIsSound ==
  ASSUME NEW x, GoodDoc(x), NEW i \in DOMAIN x.wire, NEW y, y = Ide!Took(x, i)
  PROVE  /\ Sound(y) /\ SameBuffer(x, y) /\ y.text = x.text /\ y.pending = x.pending /\ y.stored = x.stored
         /\ y.crossed = x.crossed /\ y.last = x.last /\ y.dialog = x.dialog
         /\ ~x.crossed => \/ Ide!IsStore(x.wire[i].kind) /\ NoStore(y)
                          \/ ~Ide!IsStore(x.wire[i].kind) /\ InStep(y)
         /\ (~x.crossed /\ x.wire[i].kind # "template") => NoStore(y)
         /\ (x.wire[i].kind = "restore" /\ x.wire[i].here) =>
              \A k \in DOMAIN y.wire : ~(y.wire[k].kind = "restore" /\ y.wire[k].here)
<1>1. x \in Papers /\ x.wire \in Seq(Asks)
  BY DEF GoodDoc, Sound, Papers
<1>2. PICK q : q = RemoveAt(x.wire, i)
  OBVIOUS
<1>3. PICK f : \A k \in DOMAIN q : /\ f[k] \in DOMAIN x.wire /\ f[k] # i /\ q[k] = x.wire[f[k]]
                                   /\ \A l \in DOMAIN q : k # l => f[k] # f[l]
  <2>1. PICK f : Where(x.wire, i, q, f)
    BY <1>1, <1>2, Others
  <2> QED BY <2>1 DEF Where
<1>4. q \in Seq(Asks) /\ \A j \in DOMAIN x.wire : j # i => \E k \in DOMAIN q : q[k] = x.wire[j]
  BY <1>1, <1>2, Others
<1>5. y = [x EXCEPT !.wire = q]
  BY <1>2 DEF Ide!Took, Ide!RemoveAt, RemoveAt
<1>6. /\ y \in Papers /\ y.wire = q /\ SameBuffer(x, y) /\ y.text = x.text /\ y.pending = x.pending /\ y.stored = x.stored
      /\ y.crossed = x.crossed /\ y.last = x.last /\ y.dialog = x.dialog
  BY ONLY <1>1, <1>4, <1>5 DEF Papers, SameBuffer
<1>7. Named(y)
  BY <1>3, <1>6 DEF GoodDoc, Sound, Named, SameBuffer
<1>8. Restoring(y)
  <2>1. \A k \in DOMAIN q : q[k].here => y.open = IF q[k].kind = "restore" THEN "loading" ELSE "ready"
    BY <1>3, <1>6 DEF GoodDoc, Sound, Restoring, SameBuffer
  <2>2. \A k, l \in DOMAIN q : (q[k].kind = "restore" /\ q[k].here /\ q[l].kind = "restore" /\ q[l].here) => k = l
    BY <1>3 DEF GoodDoc, Sound, Restoring
  <2>3. y.open # "ready" => y.id = Ide!None /\ ~y.dialog
    BY <1>6 DEF GoodDoc, Sound, Restoring, SameBuffer
  <2> QED BY <1>6, <2>1, <2>2, <2>3 DEF Restoring
<1>9. ASSUME ~x.crossed PROVE /\ Lonely(y) /\ Read(y) /\ Listened(y) /\ Waiting(y)
                              /\ x.wire[i].kind # "template" => NoStore(y)
                              /\ ~Ide!IsStore(x.wire[i].kind) => InStep(y)
  <2>1. Lonely(x) /\ Read(x) /\ Listened(x) /\ Waiting(x) /\ InStep(x)
    BY <1>9 DEF GoodDoc, Sound
  <2>2. Lonely(y)
    BY <1>3, <1>6, <2>1 DEF Lonely
  <2>3. Read(y) /\ Listened(y)
    BY <1>3, <1>6, <2>1 DEF Read, Listened, SameBuffer
  <2>4. Waiting(y)
    BY <1>3, <1>6, <2>1 DEF Waiting, SameBuffer
  <2>5. x.wire[i].kind # "template" => NoStore(y)
    BY <1>3, <1>6, <2>1 DEF Lonely, NoStore
  <2>6. ~Ide!IsStore(x.wire[i].kind) => InStep(y)
    <3>1. (~Ide!IsStore(x.wire[i].kind) /\ NoStore(y)) => NoStore(x)
      BY <1>4, <1>6 DEF NoStore
    <3> QED BY <1>6, <2>1, <3>1 DEF InStep, SameBuffer
  <2> QED BY <2>2, <2>3, <2>4, <2>5, <2>6
<1>10. Ide!IsStore(x.wire[i].kind) => x.wire[i].kind # "template"
  BY DEF Ide!IsStore
<1>11. (x.wire[i].kind = "restore" /\ x.wire[i].here) =>
              \A k \in DOMAIN y.wire : ~(y.wire[k].kind = "restore" /\ y.wire[k].here)
  BY <1>3, <1>6 DEF GoodDoc, Sound, Restoring
<1>12. Sound(y)
  BY <1>6, <1>7, <1>8, <1>9 DEF Sound
<1> QED BY <1>6, <1>9, <1>10, <1>11, <1>12

\* One request altered where it is on the wire.
LEMMA Altered ==
  ASSUME NEW s \in Seq(Asks), NEW i \in DOMAIN s, NEW e \in Asks, NEW q, q = [s EXCEPT ![i] = e]
  PROVE  q \in Seq(Asks) /\ DOMAIN q = DOMAIN s /\ q[i] = e /\ \A j \in DOMAIN s : j # i => q[j] = s[j]
<1>1. Len(s) \in Nat /\ DOMAIN s = 1..Len(s) /\ s \in [1..Len(s) -> Asks]
  OBVIOUS
<1>2. q \in [1..Len(s) -> Asks]
  BY <1>1
<1> QED BY <1>1, <1>2

\* A script or a template that the runner reads.
LEMMA ReadsStep ==
  ASSUME DocInv, NEW i \in DOMAIN ide.wire, Ide!Reads(i)
  PROVE  DocInv'
<1>1. ide \in Papers /\ ide.wire \in Seq(Asks) /\ Sound(ide) /\ GoodDoc(ide) /\ Named(ide) /\ Restoring(ide)
  BY DEF DocInv, GoodDoc, Sound, Papers
<1>2. ide.wire[i] \in Asks
  BY <1>1
<1>3. PICK t \in AllTexts :
        /\ ide' = [ide EXCEPT !.wire[i].step = "done", !.wire[i].text = t]
        /\ ~Ide!IsStore(ide.wire[i].kind)
        /\ Fits(ide.stored, ide.wire[i].id, t)
  <2>1. CASE ide.wire[i].kind = "template" /\ \E t \in Templates : ide' = [ide EXCEPT !.wire[i].step = "done", !.wire[i].text = t]
    <3>1. ~Ide!IsStore(ide.wire[i].kind) BY <2>1 DEF Ide!IsStore
    <3>2. ide.wire[i].id = Ide!None BY <1>1, <2>1 DEF Named
    <3> QED BY <2>1, <3>1, <3>2 DEF Fits, AllTexts
  <2>2. CASE /\ ide.wire[i].kind \in {"open", "restore"} /\ Ide!Exists(ide.wire[i].id)
             /\ ide' = [ide EXCEPT !.wire[i].step = "done", !.wire[i].text = ide.stored[ide.wire[i].id]]
    <3>1. ~Ide!IsStore(ide.wire[i].kind) BY <2>2 DEF Ide!IsStore
    <3>2. ide.wire[i].id \in Scripts
      BY <1>1, <2>2 DEF Named, Known
    <3>3. ide.stored[ide.wire[i].id] \in AllTexts
      BY <1>1, <2>2, <3>2 DEF Papers, Ide!Exists
    <3> QED BY <2>2, <3>1, <3>3 DEF Fits
  <2> QED BY <2>1, <2>2 DEF Ide!Reads
<1>4. PICK e, q : e = [ide.wire[i] EXCEPT !.step = "done", !.text = t] /\ q = [ide.wire EXCEPT ![i] = e]
  OBVIOUS
<1>5. e \in Asks /\ e.kind = ide.wire[i].kind /\ e.id = ide.wire[i].id /\ e.text = t /\ e.here = ide.wire[i].here
  BY ONLY <1>2, <1>4, t \in AllTexts DEF Asks
<1>6. q \in Seq(Asks) /\ DOMAIN q = DOMAIN ide.wire /\ q[i] = e /\ \A j \in DOMAIN ide.wire : j # i => q[j] = ide.wire[j]
  BY <1>1, <1>4, <1>5, Altered
<1>7. PICK y : y = [ide EXCEPT !.wire = q]
  OBVIOUS
<1>8. ide' = y
  <2>1. ide' = [ide EXCEPT !.wire = [ide.wire EXCEPT ![i] = [ide.wire[i] EXCEPT !.step = "done", !.text = t]]]
    BY ONLY <1>1, <1>2, <1>3, i \in DOMAIN ide.wire DEF Papers, Asks
  <2> QED BY ONLY <1>4, <1>7, <2>1
<1>9. /\ y \in Papers /\ y.wire = q /\ y.stored = ide.stored /\ y.last = ide.last /\ y.id = ide.id /\ y.open = ide.open
      /\ y.pending = ide.pending /\ y.text = ide.text /\ y.base = ide.base /\ y.error = ide.error /\ y.dialog = ide.dialog
      /\ y.crossed = ide.crossed
  BY ONLY <1>1, <1>6, <1>7 DEF Papers
<1>10. \A j \in DOMAIN q : /\ q[j].kind = ide.wire[j].kind /\ q[j].id = ide.wire[j].id /\ q[j].here = ide.wire[j].here
                           /\ Ide!IsStore(q[j].kind) => q[j] = ide.wire[j]
  BY <1>3, <1>5, <1>6
<1>11. Named(y)
  BY <1>1, <1>6, <1>9, <1>10 DEF Named
<1>12. Restoring(y)
  BY <1>1, <1>6, <1>9, <1>10 DEF Restoring
<1>13. ASSUME ~ide.crossed PROVE Lonely(y) /\ Read(y) /\ Listened(y) /\ Waiting(y) /\ InStep(y)
  <2>1. Lonely(ide) /\ Read(ide) /\ Listened(ide) /\ Waiting(ide) /\ InStep(ide)
    BY <1>1, <1>13 DEF GoodDoc, Sound
  <2>2. Lonely(y) /\ Listened(y)
    BY <1>6, <1>9, <1>10, <2>1 DEF Lonely, Listened
  <2>3. Read(y)
    BY <1>3, <1>5, <1>6, <1>9, <2>1 DEF Read
  <2>4. Waiting(y)
    BY <1>6, <1>9, <1>10, <2>1 DEF Waiting
  <2>5. NoStore(y) => NoStore(ide)
    BY <1>6, <1>9, <1>10 DEF NoStore
  <2> QED BY <1>9, <2>1, <2>2, <2>3, <2>4, <2>5 DEF InStep
<1> QED BY <1>8, <1>9, <1>11, <1>12, <1>13 DEF DocInv, GoodDoc, Sound

\* A save or a run that the runner stores.
LEMMA StoresStep ==
  ASSUME Ide!Distinct, DocInv, NEW i \in DOMAIN ide.wire, Ide!Stores(i)
  PROVE  DocInv'
<1>1. ide \in Papers /\ ide.wire \in Seq(Asks) /\ Sound(ide) /\ GoodDoc(ide) /\ Named(ide) /\ Restoring(ide)
  BY DEF DocInv, GoodDoc, Sound, Papers
<1>2. ide.wire[i] \in Asks
  BY <1>1
<1>3. PICK s \in Scripts :
        /\ ide' = [ide EXCEPT !.stored[s] = ide.wire[i].text, !.wire[i].step = "done", !.wire[i].id = s]
        /\ Ide!IsStore(ide.wire[i].kind)
        /\ ide.stored[s] = Ide!None \/ (ide.wire[i].id = s /\ ide.stored[s] # "deleted")
  <2>1. PICK s \in IF ide.wire[i].id = Ide!None THEN Ide!Free ELSE {s \in {ide.wire[i].id} : Ide!Exists(s)} :
          /\ ide' = [ide EXCEPT !.stored[s] = ide.wire[i].text, !.wire[i].step = "done", !.wire[i].id = s]
          /\ Ide!IsStore(ide.wire[i].kind)
    BY DEF Ide!Stores
  <2>2. CASE ide.wire[i].id = Ide!None
    BY <2>1, <2>2 DEF Ide!Free
  <2>3. CASE ide.wire[i].id # Ide!None
    <3>1. s = ide.wire[i].id /\ s \in Scripts
      BY <1>2, <2>1, <2>3 DEF Asks, Ids
    <3> QED BY <2>1, <2>3, <3>1 DEF Ide!Exists
  <2> QED BY <2>2, <2>3
<1>4. PICK e, q, f : /\ e = [ide.wire[i] EXCEPT !.step = "done", !.id = s] /\ q = [ide.wire EXCEPT ![i] = e]
                     /\ f = [ide.stored EXCEPT ![s] = ide.wire[i].text]
  OBVIOUS
<1>5. /\ e \in Asks /\ e.kind = ide.wire[i].kind /\ e.id = s /\ e.text = ide.wire[i].text /\ e.here = ide.wire[i].here
      /\ e.text \in AllTexts
  <2>1. s \in Ids BY <1>3 DEF Ids
  <2> QED BY ONLY <1>2, <1>4, <2>1 DEF Asks
<1>6. q \in Seq(Asks) /\ DOMAIN q = DOMAIN ide.wire /\ q[i] = e /\ \A j \in DOMAIN ide.wire : j # i => q[j] = ide.wire[j]
  BY <1>1, <1>4, <1>5, Altered
<1>7. /\ f \in [Scripts -> AllTexts \union {Ide!None, "deleted"}] /\ f[s] = e.text /\ f[s] # Ide!None
      /\ \A u \in Scripts : u # s => f[u] = ide.stored[u]
  <2>1. ide.stored \in [Scripts -> AllTexts \union {Ide!None, "deleted"}]
    BY <1>1 DEF Papers
  <2>2. e.text # Ide!None
    BY <1>5, Ide!Distinct DEF Ide!Distinct, AllTexts, Ide!None, Ide!Blank
  <2> QED BY <1>4, <1>5, <2>1, <2>2
<1>8. PICK y : y = [ide EXCEPT !.stored = f, !.wire = q]
  OBVIOUS
<1>9. ide' = y
  <2>1. ide' = [ide EXCEPT !.stored = [ide.stored EXCEPT ![s] = ide.wire[i].text],
                       !.wire = [ide.wire EXCEPT ![i] = [ide.wire[i] EXCEPT !.step = "done", !.id = s]]]
    BY ONLY <1>1, <1>2, <1>3, i \in DOMAIN ide.wire DEF Papers, Asks
  <2> QED BY ONLY <1>4, <1>8, <2>1
<1>10. /\ y \in Papers /\ y.wire = q /\ y.stored = f /\ y.last = ide.last /\ y.id = ide.id /\ y.open = ide.open
       /\ y.pending = ide.pending /\ y.text = ide.text /\ y.base = ide.base /\ y.error = ide.error /\ y.dialog = ide.dialog
       /\ y.crossed = ide.crossed
  BY ONLY <1>1, <1>6, <1>7, <1>8 DEF Papers
<1>11. \A j \in DOMAIN q : /\ q[j].kind = ide.wire[j].kind /\ q[j].here = ide.wire[j].here /\ q[j].text = ide.wire[j].text
                           /\ q[j].id = IF j = i THEN s ELSE ide.wire[j].id
  BY <1>5, <1>6
<1>12. \A u : Known(ide.stored, u) => Known(f, u)
  BY <1>7 DEF Known
<1>13. Named(y)
  <2>1. \A j \in DOMAIN q : Known(f, q[j].id)
    BY <1>1, <1>3, <1>6, <1>7, <1>11, <1>12 DEF Named, Known
  <2>2. s # Ide!None
    BY <1>3, Ide!Distinct DEF Ide!Distinct
  <2>3. ide.wire[i].kind # "template" BY <1>3 DEF Ide!IsStore
  <2> QED BY <1>1, <1>5, <1>6, <1>10, <1>11, <1>12, <2>1, <2>2, <2>3 DEF Named
<1>14. Restoring(y)
  BY <1>1, <1>6, <1>10, <1>11 DEF Restoring
<1>15. ASSUME ~ide.crossed PROVE Lonely(y) /\ Read(y) /\ Listened(y) /\ Waiting(y) /\ InStep(y)
  <2>1. Lonely(ide) /\ Read(ide) /\ Listened(ide) /\ Waiting(ide) /\ InStep(ide)
    BY <1>1, <1>15 DEF GoodDoc, Sound
  <2>2. Lonely(y) /\ Listened(y)
    BY <1>6, <1>10, <1>11, <2>1 DEF Lonely, Listened
  <2>3. InStep(y)
    BY <1>3, <1>6, <1>10, <1>11 DEF InStep, NoStore
  <2>4. Read(y)
    <3> SUFFICES ASSUME NEW j \in DOMAIN q, q[j].step = "done" PROVE Fits(f, q[j].id, q[j].text)
      BY <1>10 DEF Read
    <3>1. CASE j = i BY <1>5, <1>6, <1>7, <3>1 DEF Fits
    <3>2. CASE j # i
      <4>1. ide.wire[j].kind = "template" BY <1>3, <1>6, <2>1, <3>2 DEF Lonely
      <4>2. q[j].id = Ide!None BY <1>1, <1>6, <1>11, <3>2, <4>1 DEF Named
      <4> QED BY <4>2 DEF Fits
    <3> QED BY <3>1, <3>2
  <2>5. Waiting(y)
    <3> DEFINE d == ide.pending.doc
    <3> SUFFICES ASSUME d.id # Ide!None, f[d.id] # "deleted"
                 PROVE  /\ f[d.id] = d.text
                        /\ ide.id = d.id => ide.text = d.text /\ ide.base = d.text
                        /\ \A j \in DOMAIN q : (Ide!IsStore(q[j].kind) /\ q[j].id = d.id) => q[j].text = d.text
      BY <1>10 DEF Waiting
    <3>1. d.id \in Scripts /\ ide.stored[d.id] # Ide!None
      BY <1>1 DEF Named, Known
    <3>2. \A j \in DOMAIN q : Ide!IsStore(q[j].kind) => j = i
      BY <1>3, <1>6, <1>11, <2>1 DEF Lonely, Ide!IsStore
    <3>3. CASE d.id = s
      <4>1. ide.wire[i].id = s /\ ide.stored[s] # "deleted"
        BY <1>3, <3>1, <3>3
      <4>2. /\ ide.id = d.id => ide.text = d.text /\ ide.base = d.text
            /\ ide.wire[i].text = d.text
        BY <1>3, <2>1, <3>3, <4>1 DEF Waiting
      <4> QED BY <1>5, <1>6, <1>7, <3>2, <3>3, <4>2
    <3>4. CASE d.id # s
      <4>1. f[d.id] = ide.stored[d.id]
        BY <1>7, <3>1, <3>4
      <4>2. ide.stored[d.id] = d.text /\ (ide.id = d.id => ide.text = d.text /\ ide.base = d.text)
        BY <2>1, <4>1 DEF Waiting
      <4> QED BY <1>5, <1>6, <3>2, <3>4, <4>1, <4>2
    <3> QED BY <3>3, <3>4
  <2> QED BY <2>2, <2>3, <2>4, <2>5
<1> QED BY <1>9, <1>10, <1>13, <1>14, <1>15 DEF DocInv, GoodDoc, Sound

LEMMA DeletedStep ==
  ASSUME DocInv, Ide!DeletedElsewhere
  PROVE  DocInv'
<1>1. ide \in Papers /\ Sound(ide) /\ GoodDoc(ide) /\ Named(ide) /\ Restoring(ide)
  BY DEF DocInv, GoodDoc, Sound
<1>2. PICK s \in Scripts : ide' = [ide EXCEPT !.stored[s] = "deleted"]
  BY DEF Ide!DeletedElsewhere
<1>3. PICK f : f = [ide.stored EXCEPT ![s] = "deleted"]
  OBVIOUS
<1>4. /\ f \in [Scripts -> AllTexts \union {Ide!None, "deleted"}] /\ f[s] = "deleted"
      /\ \A u \in Scripts : u # s => f[u] = ide.stored[u]
  <2>1. ide.stored \in [Scripts -> AllTexts \union {Ide!None, "deleted"}]
    BY <1>1 DEF Papers
  <2> QED BY <1>3, <2>1
<1>5. PICK y : y = [ide EXCEPT !.stored = f]
  OBVIOUS
<1>6. ide' = y
  BY ONLY <1>1, <1>2, <1>3, <1>5 DEF Papers
<1>7. /\ y \in Papers /\ y.wire = ide.wire /\ y.stored = f /\ y.last = ide.last /\ y.id = ide.id /\ y.open = ide.open
      /\ y.pending = ide.pending /\ y.text = ide.text /\ y.base = ide.base /\ y.error = ide.error /\ y.dialog = ide.dialog
      /\ y.crossed = ide.crossed
  BY ONLY <1>1, <1>4, <1>5 DEF Papers
<1>8. \A u : Known(ide.stored, u) => Known(f, u)
  BY <1>4 DEF Known, Ide!None
<1>9. Named(y)
  BY <1>1, <1>7, <1>8 DEF Named
<1>10. Restoring(y)
  BY <1>1, <1>7 DEF Restoring
<1>11. ASSUME ~ide.crossed PROVE Lonely(y) /\ Read(y) /\ Listened(y) /\ Waiting(y) /\ InStep(y)
  <2>1. Lonely(ide) /\ Read(ide) /\ Listened(ide) /\ Waiting(ide) /\ InStep(ide)
    BY <1>1, <1>11 DEF GoodDoc, Sound
  <2>2. Lonely(y) /\ Listened(y)
    BY <1>7, <2>1 DEF Lonely, Listened
  <2>3. \A u, text : (Known(ide.stored, u) /\ Fits(ide.stored, u, text)) => Fits(f, u, text)
    BY <1>4 DEF Fits, Known
  <2>4. Read(y) /\ InStep(y)
    BY <1>1, <1>7, <2>1, <2>3 DEF Read, InStep, NoStore, Named
  <2>5. Waiting(y)
    <3>1. Known(ide.stored, ide.pending.doc.id) BY <1>1 DEF Named
    <3> QED BY <1>4, <1>7, <2>1, <3>1 DEF Waiting, Known
  <2> QED BY <2>2, <2>4, <2>5
<1> QED BY <1>6, <1>7, <1>9, <1>10, <1>11 DEF DocInv, GoodDoc, Sound

-----------------------------------------------------------------------------
(* The answers.                                                            *)

\* The buffer takes the document that was remembered, the dialog closes.
LEMMA PersistedIsGood ==
  ASSUME NEW x, Sound(x), x.open = "ready", NEW d, Fitting(x, d), NEW y,
         y = Ide!Replaced(Ide!PersistDocument(x, d), d) \/ y = Ide!SaveAnswer(x, d)
  PROVE  GoodDoc(y)
<1>1. PICK z : z = [x EXCEPT !.last = d.id, !.fresh = FALSE]
  OBVIOUS
<1>2. x \in Papers /\ d.id \in Ids
  BY DEF Sound, Fitting, Docs
<1>3. z \in Papers /\ Idle(x, z) /\ z.last = d.id /\ z.open = x.open
  BY ONLY <1>1, <1>2 DEF Papers, Idle, SameWire, SameBuffer
<1>4. Sound(z)
  <2>1. Known(z.stored, z.last)
    BY <1>3 DEF Fitting, Idle, SameWire
  <2> QED BY <1>3, <2>1, x.open = "ready", IdleStep
<1>5. Fitting(z, d)
  BY <1>3 DEF Fitting, Idle, SameWire
<1>6. PICK v : v = Ide!Replaced(z, d)
  OBVIOUS
<1>7. GoodDoc(v) /\ v.open = "ready"
  BY <1>3, <1>4, <1>5, <1>6, ReplacedIsGood
<1>8. PICK u : u = [v EXCEPT !.dialog = FALSE]
  OBVIOUS
<1>9. v \in Papers /\ Known(v.stored, v.last)
  BY <1>7 DEF GoodDoc, Sound, Named
<1>10. u \in Papers /\ Idle(v, u) /\ u.last = v.last /\ u.open = v.open
  BY ONLY <1>8, <1>9 DEF Papers, Idle, SameWire, SameBuffer
<1>11. GoodDoc(u)
  <2>1. Known(u.stored, u.last)
    BY <1>9, <1>10 DEF Idle, SameWire
  <2> QED BY <1>7, <1>10, <2>1, IdleStep
<1>12. y = v \/ y = u
  BY <1>1, <1>6, <1>8 DEF Ide!PersistDocument, Ide!SaveAnswer
<1> QED BY <1>7, <1>11, <1>12

LEMMA OpenedDocument ==
  ASSUME NEW x, GoodDoc(x), x.open = "ready", NEW d, Fitting(x, d), d.id = Ide!None \/ (~x.crossed => NoStore(x)),
         NEW y, y = Ide!OpenDocument(x, d)
  PROVE  GoodDoc(y)
<1>1. PICK z : z = [x EXCEPT !.last = d.id, !.fresh = FALSE]
  OBVIOUS
<1>2. x \in Papers /\ d.id \in Ids
  BY DEF GoodDoc, Sound, Fitting, Docs
<1>3. z \in Papers /\ Idle(x, z) /\ z.last = d.id /\ z.open = x.open
  BY ONLY <1>1, <1>2 DEF Papers, Idle, SameWire, SameBuffer
<1>4. GoodDoc(z)
  <2>1. Known(z.stored, z.last)
    BY <1>3 DEF Fitting, Idle, SameWire
  <2> QED BY <1>3, <2>1, x.open = "ready", IdleStep
<1>5. Fitting(z, d) /\ (d.id = Ide!None \/ (~z.crossed => NoStore(z)))
  BY <1>3 DEF Fitting, Idle, SameWire, NoStore
<1>6. y = Ide!Opened(z, d)
  BY <1>1 DEF Ide!OpenDocument
<1> QED BY <1>3, <1>4, <1>5, <1>6, OpenedIsGood

\* The document is open, restored or not.
LEMMA ReadyIsGood ==
  ASSUME NEW x, GoodDoc(x), x.open # "ready", \A i \in DOMAIN x.wire : ~x.wire[i].here, NEW last \in Ids,
         Known(x.stored, last), NEW fresh \in BOOLEAN, NEW y,
         y = [x EXCEPT !.open = "ready", !.fresh = fresh, !.last = last]
  PROVE  GoodDoc(y)
<1>1. x \in Papers
  BY DEF GoodDoc, Sound
<1>2. /\ y \in Papers /\ SameWire(x, y) /\ y.open = "ready" /\ y.id = x.id /\ y.base = x.base /\ y.text = x.text
      /\ y.error = x.error /\ y.pending = x.pending /\ y.last = last
  BY ONLY <1>1, last \in Ids, fresh \in BOOLEAN,
          y = [x EXCEPT !.open = "ready", !.fresh = fresh, !.last = last] DEF Papers, SameWire
<1>3. Named(y)
  BY <1>2 DEF GoodDoc, Sound, Named, SameWire
<1>4. Restoring(y)
  BY <1>2 DEF Restoring, SameWire
<1>5. ASSUME ~x.crossed PROVE Lonely(y) /\ Read(y) /\ Listened(y) /\ Waiting(y) /\ InStep(y)
  BY <1>2, <1>5 DEF GoodDoc, Sound, Lonely, Read, Listened, Waiting, InStep, NoStore, SameWire
<1>6. y.crossed = x.crossed
  BY <1>2 DEF SameWire
<1> QED BY <1>2, <1>3, <1>4, <1>5, <1>6 DEF GoodDoc, Sound

\* What an answer brings may come into the buffer.
LEMMA AnswerFits ==
  ASSUME DocInv, NEW i \in DOMAIN ide.wire, ide.wire[i].step = "done", NEW x, x = Ide!Took(ide, i),
         NEW d, d = [id |-> ide.wire[i].id, text |-> ide.wire[i].text]
  PROVE  /\ d.id = ide.wire[i].id /\ Fitting(x, d) /\ Sound(x) /\ x.open = ide.open
         /\ (~Ide!IsStore(ide.wire[i].kind) \/ ~ide.wire[i].here) => GoodDoc(x)
         /\ d.id = Ide!None \/ (~x.crossed => NoStore(x))
<1>1. /\ GoodDoc(ide) /\ Sound(ide) /\ Named(ide) /\ ide.wire \in Seq(Asks)
      /\ ~ide.crossed => Read(ide) /\ Listened(ide)
  BY DEF DocInv, GoodDoc, Sound, Papers
<1>2. ide.wire[i] \in Asks
  BY <1>1
<1>3. d \in Docs /\ d.id = ide.wire[i].id /\ d.text = ide.wire[i].text
  BY <1>2 DEF Asks, Docs
<1>4. /\ Sound(x) /\ SameBuffer(ide, x) /\ x.stored = ide.stored /\ x.crossed = ide.crossed
      /\ ~ide.crossed => \/ Ide!IsStore(ide.wire[i].kind) /\ NoStore(x)
                         \/ ~Ide!IsStore(ide.wire[i].kind) /\ InStep(x)
      /\ (~ide.crossed /\ ide.wire[i].kind # "template") => NoStore(x)
  <2>1. GoodDoc(ide) BY <1>1
  <2> QED BY ONLY <2>1, TookIsSound, i \in DOMAIN ide.wire, x = Ide!Took(ide, i)
<1>5. Known(x.stored, d.id)
  BY <1>1, <1>3, <1>4 DEF Named
<1>6. d.id = Ide!None \/ (~x.crossed => NoStore(x))
  BY <1>1, <1>3, <1>4 DEF Named
<1>7. ~x.crossed => Fits(x.stored, d.id, d.text)
  BY <1>1, <1>3, <1>4 DEF Read
<1>8. Fitting(x, d)
  BY <1>3, <1>5, <1>6, <1>7 DEF Fitting, NoStore
<1>9. ASSUME ~Ide!IsStore(ide.wire[i].kind) \/ ~ide.wire[i].here PROVE GoodDoc(x)
  <2>1. CASE ~Ide!IsStore(ide.wire[i].kind)
    BY <1>4, <2>1 DEF GoodDoc
  <2>2. CASE Ide!IsStore(ide.wire[i].kind) /\ ~ide.wire[i].here
    <3>1. ~ide.crossed => x.id = Ide!None
      BY <1>1, <1>4, <2>2 DEF Listened, SameBuffer
    <3> QED BY <1>4, <3>1 DEF GoodDoc, InStep, Fits
  <2> QED BY <1>9, <2>1, <2>2
<1> QED BY <1>3, <1>4, <1>6, <1>8, <1>9 DEF SameBuffer

\* After the one request that restores the document nothing is listened to.
LEMMA NoneListened ==
  ASSUME DocInv, NEW i \in DOMAIN ide.wire, ide.wire[i].kind = "restore", ide.wire[i].here, NEW x, x = Ide!Took(ide, i)
  PROVE  GoodDoc(x) /\ x.open # "ready" /\ \A k \in DOMAIN x.wire : ~x.wire[k].here
<1>1. GoodDoc(ide) /\ ide.open = "loading"
  BY DEF DocInv, GoodDoc, Sound, Restoring
<1>2. ~Ide!IsStore(ide.wire[i].kind)
  BY DEF Ide!IsStore
<1>3. /\ Sound(x) /\ SameBuffer(ide, x) /\ x.crossed = ide.crossed /\ (~ide.crossed => InStep(x))
      /\ \A k \in DOMAIN x.wire : ~(x.wire[k].kind = "restore" /\ x.wire[k].here)
  BY <1>1, <1>2, TookIsSound
<1>4. \A k \in DOMAIN x.wire : ~x.wire[k].here
  BY <1>1, <1>3 DEF Sound, Restoring, SameBuffer
<1> QED BY <1>1, <1>3, <1>4 DEF GoodDoc, SameBuffer

LEMMA DocAnswerStep ==
  ASSUME DocInv, NEW i \in DOMAIN ide.wire, Ide!Answer(i)
  PROVE  DocInv'
<1>1. GoodDoc(ide) /\ Sound(ide) /\ Named(ide) /\ Restoring(ide) /\ ide \in Papers /\ ide.wire \in Seq(Asks)
  BY DEF DocInv, GoodDoc, Sound, Papers
<1>2. ide.wire[i] \in Asks /\ ide.wire[i].step = "done"
  BY <1>1 DEF Ide!Answer
<1>3. PICK x, d : x = Ide!Took(ide, i) /\ d = [id |-> ide.wire[i].id, text |-> ide.wire[i].text]
  OBVIOUS
<1>4. /\ d.id = ide.wire[i].id /\ Fitting(x, d) /\ Sound(x) /\ x.open = ide.open
      /\ (~Ide!IsStore(ide.wire[i].kind) \/ ~ide.wire[i].here) => GoodDoc(x)
      /\ d.id = Ide!None \/ (~x.crossed => NoStore(x))
  BY <1>2, <1>3, AnswerFits
<1>5. PICK y : y = ide'
  OBVIOUS
<1>6. CASE ~ide.wire[i].here
  <2>1. PICK l : l = IF ide.wire[i].kind \in {"save", "run", "open"} THEN ide.wire[i].id ELSE x.last
    OBVIOUS
  <2>2. y = [x EXCEPT !.last = l]
    BY <1>3, <1>5, <1>6, <2>1 DEF Ide!Answer
  <2>3. x \in Papers /\ Named(x) /\ Restoring(x) /\ GoodDoc(x)
    BY <1>4, <1>6 DEF Sound
  <2>4. l \in Ids
    BY <1>2, <2>1, <2>3 DEF Papers, Asks
  <2>5. Known(x.stored, l)
    BY <1>4, <2>1, <2>3 DEF Named, Fitting
  <2>6. y \in Papers /\ Idle(x, y) /\ y.last = l /\ y.dialog = x.dialog
    BY ONLY <2>2, <2>3, <2>4 DEF Papers, Idle, SameWire, SameBuffer
  <2>7. y.dialog => y.open = "ready"
    BY <2>3, <2>6 DEF Restoring, Idle, SameBuffer
  <2>8. Known(y.stored, y.last)
    BY <2>5, <2>6 DEF Idle, SameWire
  <2> QED BY <1>5, <2>3, <2>6, <2>7, <2>8, IdleStep DEF DocInv
<1>7. CASE ide.wire[i].here /\ ide.wire[i].kind = "restore"
  <2>1. GoodDoc(x) /\ x.open # "ready" /\ \A k \in DOMAIN x.wire : ~x.wire[k].here
    BY <1>3, <1>7, NoneListened
  <2>2. PICK z : z = [x EXCEPT !.open = "ready", !.fresh = FALSE, !.last = x.last]
    OBVIOUS
  <2>3. x \in Papers /\ x.last \in Ids /\ Known(x.stored, x.last) /\ FALSE \in BOOLEAN
    BY <2>1 DEF GoodDoc, Sound, Papers, Named
  <2>4. GoodDoc(z)
    BY <2>1, <2>2, <2>3, ReadyIsGood
  <2>5. z.open = "ready" /\ z.stored = x.stored /\ z.wire = x.wire /\ z.crossed = x.crossed
    BY ONLY <2>2, <2>3 DEF Papers
  <2>6. Fitting(z, d)
    BY <1>4, <2>5 DEF Fitting
  <2>7. y = Ide!RestoreAnswer(x, d)
    BY <1>3, <1>5, <1>7 DEF Ide!Answer
  <2>8. Ide!RestoreAnswer(x, d) = Ide!Replaced(z, d)
    BY ONLY <2>2, <2>3 DEF Ide!RestoreAnswer, Ide!Replaced, Papers
  <2> QED BY <1>5, <2>4, <2>5, <2>6, <2>7, <2>8, ReplacedIsGood DEF DocInv, GoodDoc
<1>8. CASE ide.wire[i].here /\ Ide!IsStore(ide.wire[i].kind)
  <2>1. ide.open = "ready"
    BY <1>1, <1>8 DEF Restoring, Ide!IsStore
  <2>2. y = Ide!Replaced(Ide!PersistDocument(x, d), d) \/ y = Ide!SaveAnswer(x, d)
    BY <1>3, <1>5, <1>8 DEF Ide!Answer, Ide!IsStore, Ide!RunAnswer
  <2> QED BY <1>4, <1>5, <2>1, <2>2, PersistedIsGood DEF DocInv
<1>9. CASE ide.wire[i].here /\ ide.wire[i].kind = "template"
  <2>1. ide.open = "ready"
    BY <1>1, <1>9 DEF Restoring
  <2>2. PICK a : a = [do |-> "replace", doc |-> d]
    OBVIOUS
  <2>3. a \in Actions /\ a.do = "replace" /\ a.doc = d
    BY <1>4, <2>2 DEF Actions, Fitting
  <2>4. d.id = Ide!None
    BY <1>1, <1>4, <1>9 DEF Named
  <2>5. y = Ide!Request(x, ide.wire[i].dirty, a)
    BY <1>3, <1>5, <1>9, <2>2 DEF Ide!Answer
  <2>6. GoodDoc(x)
    BY <1>4, <1>9 DEF Ide!IsStore
  <2>7. ide.wire[i].dirty \in BOOLEAN
    BY <1>2 DEF Asks
  <2> QED BY <1>4, <1>5, <2>1, <2>3, <2>4, <2>5, <2>6, <2>7, RequestIsGood DEF DocInv
<1>10. CASE ide.wire[i].here /\ ide.wire[i].kind = "open"
  <2>1. ide.open = "ready"
    BY <1>1, <1>10 DEF Restoring
  <2>2. y = Ide!OpenDocument(x, d)
    BY <1>3, <1>5, <1>10 DEF Ide!Answer
  <2>3. GoodDoc(x)
    BY <1>4, <1>10 DEF Ide!IsStore
  <2> QED BY <1>4, <1>5, <2>1, <2>2, <2>3, OpenedDocument DEF DocInv
<1> QED BY <1>2, <1>6, <1>7, <1>8, <1>9, <1>10 DEF Asks, Kinds, Ide!IsStore

\* Failed saves and runs are told, unless nobody listens.
LEMMA FailsStep ==
  ASSUME DocInv, NEW i \in DOMAIN ide.wire, Ide!Fails(i)
  PROVE  DocInv'
<1>1. GoodDoc(ide) /\ Sound(ide) /\ ide.wire \in Seq(Asks) /\ (~ide.crossed => Listened(ide))
  BY DEF DocInv, GoodDoc, Sound, Papers
<1>2. ide.wire[i].here \in BOOLEAN
  <2>1. ide.wire[i] \in Asks BY <1>1
  <2> QED BY <2>1 DEF Asks
<1>3. PICK x : x = Ide!Took(ide, i)
  OBVIOUS
<1>4. PICK y : y = ide'
  OBVIOUS
<1>5. CASE ide.wire[i].kind = "restore" /\ ide.wire[i].here
  <2>1. GoodDoc(x) /\ x.open # "ready" /\ \A k \in DOMAIN x.wire : ~x.wire[k].here
    BY <1>3, <1>5, NoneListened
  <2>2. x \in Papers /\ x.fresh \in BOOLEAN
    BY <2>1 DEF GoodDoc, Sound, Papers
  <2>3. y = [x EXCEPT !.last = Ide!None, !.open = "ready"]
    BY <1>3, <1>4, <1>5 DEF Ide!Fails
  <2>4. y = [x EXCEPT !.open = "ready", !.fresh = x.fresh, !.last = Ide!None]
    BY ONLY <2>2, <2>3 DEF Papers
  <2>5. Ide!None \in Ids /\ Known(x.stored, Ide!None)
    BY DEF Ids, Known
  <2> QED BY <1>4, <2>1, <2>2, <2>4, <2>5, ReadyIsGood DEF DocInv
<1>6. CASE ~(ide.wire[i].kind = "restore" /\ ide.wire[i].here)
  <2>1. /\ Sound(x) /\ SameBuffer(ide, x) /\ x.crossed = ide.crossed
        /\ ~ide.crossed => \/ Ide!IsStore(ide.wire[i].kind) /\ NoStore(x)
                           \/ ~Ide!IsStore(ide.wire[i].kind) /\ InStep(x)
    <3>1. GoodDoc(ide) BY <1>1
    <3> QED BY ONLY <3>1, <1>3, TookIsSound, i \in DOMAIN ide.wire
  <2>2. x \in Papers
    BY <2>1 DEF Sound
  <2>3. PICK b \in BOOLEAN : b = (x.error \/ ide.wire[i].here)
    BY <1>2, <2>2 DEF Papers
  <2>4. y = [x EXCEPT !.error = b]
    <3>1. y = [x EXCEPT !.error = @ \/ ide.wire[i].here]
      BY <1>3, <1>4, <1>6 DEF Ide!Fails
    <3> QED BY ONLY <2>2, <2>3, <3>1 DEF Papers
  <2>5. /\ y \in Papers /\ SameWire(x, y) /\ y.open = x.open /\ y.id = x.id /\ y.base = x.base /\ y.text = x.text
        /\ y.pending = x.pending /\ y.last = x.last /\ y.dialog = x.dialog /\ y.error = b
    <3>1. b \in BOOLEAN BY <2>3
    <3> QED BY ONLY <2>2, <2>4, <3>1 DEF Papers, SameWire
  <2>6. Named(y) /\ Restoring(y)
    BY <2>1, <2>5 DEF Sound, Named, Restoring, SameWire
  <2>7. ASSUME ~x.crossed PROVE Lonely(y) /\ Read(y) /\ Listened(y) /\ Waiting(y) /\ InStep(y)
    <3>1. Lonely(y) /\ Read(y) /\ Listened(y) /\ Waiting(y)
      BY <2>1, <2>5, <2>7 DEF Sound, Lonely, Read, Listened, Waiting, SameWire
    <3>2. CASE Ide!IsStore(ide.wire[i].kind)
      <4>1. ide.wire[i].here \/ x.id = Ide!None
        BY <1>1, <2>1, <2>7, <3>2 DEF Listened, SameBuffer
      <4>2. ide.wire[i].here => b
        BY <2>3
      <4>3. InStep(y)
        BY <2>5, <4>1, <4>2 DEF InStep, Fits
      <4> QED BY <3>1, <4>3
    <3>3. CASE ~Ide!IsStore(ide.wire[i].kind)
      <4>1. InStep(x) BY <2>1, <2>7, <3>3
      <4>2. x.error => b BY <2>3
      <4>3. NoStore(y) => NoStore(x) BY <2>5 DEF NoStore, SameWire
      <4>4. InStep(y) BY <2>5, <4>1, <4>2, <4>3 DEF InStep, SameWire
      <4> QED BY <3>1, <4>4
    <3> QED BY <3>2, <3>3
  <2>8. y.crossed = x.crossed
    BY <2>5 DEF SameWire
  <2> QED BY <1>4, <2>5, <2>6, <2>7, <2>8 DEF DocInv, GoodDoc, Sound
<1> QED BY <1>5, <1>6

-----------------------------------------------------------------------------
(* What the operator does.                                                 *)

\* Typing, the dialog and the operator's refusal leave the rest alone.
LEMMA TypeStep ==
  ASSUME DocInv, Ide!Type
  PROVE  DocInv'
<1>1. GoodDoc(ide) /\ ide \in Papers /\ ide.open = "ready" /\ ide.pending = Ide!Nothing
  BY DEF DocInv, GoodDoc, Sound, Ide!Type, Ide!Editing
<1>2. PICK t \in AllTexts : ide' = [ide EXCEPT !.text = t]
  BY DEF Ide!Type, AllTexts
<1>3. PICK y : y = ide'
  OBVIOUS
<1>4. /\ y \in Papers /\ SameWire(ide, y) /\ SameBuffer(ide, y) /\ y.pending = ide.pending /\ y.last = ide.last
      /\ y.dialog = ide.dialog
  <2>1. t \in AllTexts OBVIOUS
  <2> QED BY ONLY <1>1, <1>2, <1>3, <2>1 DEF Papers, SameWire, SameBuffer
<1>5. Named(y) /\ Restoring(y)
  BY <1>1, <1>4 DEF GoodDoc, Sound, Named, Restoring, SameWire, SameBuffer
<1>6. ASSUME ~ide.crossed PROVE Lonely(y) /\ Read(y) /\ Listened(y) /\ Waiting(y) /\ InStep(y)
  <2>1. Lonely(y) /\ Read(y) /\ Listened(y) /\ InStep(y)
    BY <1>1, <1>4, <1>6 DEF GoodDoc, Sound, Lonely, Read, Listened, InStep, NoStore, SameWire, SameBuffer
  <2>2. y.pending.doc.id = Ide!None
    BY <1>1, <1>4, Nothings
  <2> QED BY <2>1, <2>2 DEF Waiting
<1>7. y.crossed = ide.crossed
  BY <1>4 DEF SameWire
<1> QED BY <1>3, <1>4, <1>5, <1>6, <1>7 DEF DocInv, GoodDoc, Sound

LEMMA DialogStep ==
  ASSUME DocInv, NEW b \in BOOLEAN, b => ide.open = "ready", ide' = [ide EXCEPT !.dialog = b]
  PROVE  DocInv'
<1>1. GoodDoc(ide) /\ ide \in Papers /\ Known(ide.stored, ide.last)
  BY DEF DocInv, GoodDoc, Sound, Named
<1>2. PICK y : y = ide'
  OBVIOUS
<1>3. y \in Papers /\ Idle(ide, y) /\ y.last = ide.last /\ y.dialog = b /\ y.stored = ide.stored /\ y.open = ide.open
  BY ONLY <1>1, <1>2, b \in BOOLEAN, ide' = [ide EXCEPT !.dialog = b] DEF Papers, Idle, SameWire, SameBuffer
<1> QED BY <1>1, <1>2, <1>3, IdleStep DEF DocInv

LEMMA ContinueStep ==
  ASSUME DocInv, ide' = [ide EXCEPT !.pending = Ide!Nothing]
  PROVE  DocInv'
BY Nothings, PendingIsGood DEF DocInv

\* The requests.
LEMMA RequestStep ==
  ASSUME Ide!Distinct, DocInv, ide.open = "ready",
         \/ ide' = Ide!Ask(ide, "save", ide.id, ide.text)
         \/ ide' = Ide!Ask(ide, "save", Ide!None, ide.text)
         \/ ide' = Ide!Ask(ide, "run", ide.id, ide.text)
         \/ ide' = Ide!Ask(ide, "template", Ide!None, Ide!Blank)
         \/ \E s \in Scripts : Ide!Exists(s) /\ ide' = Ide!Ask(ide, "open", s, Ide!Blank)
  PROVE  DocInv'
<1>1. GoodDoc(ide) /\ ide \in Papers /\ Known(ide.stored, ide.id) /\ Known(ide.stored, Ide!None)
  BY DEF DocInv, GoodDoc, Sound, Named, Known
<1>2. ide.id \in Ids /\ ide.text \in AllTexts /\ Ide!None \in Ids /\ Ide!Blank \in AllTexts
  BY <1>1 DEF Papers, Ids, AllTexts
<1>3. PICK y : y = ide'
  OBVIOUS
<1>4. /\ {"save", "run", "template", "open", "restore"} = Kinds
      /\ Ide!IsStore("save") /\ Ide!IsStore("run") /\ ~Ide!IsStore("template") /\ ~Ide!IsStore("open")
  BY DEF Kinds, Ide!IsStore
<1>5. CASE \E kind \in {"save", "run"} : ide' = Ide!Ask(ide, kind, ide.id, ide.text)
  <2>1. PICK kind \in {"save", "run"} : y = Ide!Ask(ide, kind, ide.id, ide.text)
    BY <1>3, <1>5
  <2>2. kind \in Kinds /\ kind # "template" /\ kind # "restore" /\ kind \notin {"open", "restore"}
    BY <1>4
  <2> QED BY <1>1, <1>2, <1>3, <2>1, <2>2, AskIsGood DEF DocInv
<1>6. CASE ide' = Ide!Ask(ide, "save", Ide!None, ide.text)
  <2>1. "save" \in Kinds
    BY <1>4
  <2> QED BY <1>1, <1>2, <1>3, <1>6, <2>1, AskIsGood DEF DocInv
<1>7. CASE ide' = Ide!Ask(ide, "template", Ide!None, Ide!Blank)
  <2>1. "template" \in Kinds
    BY <1>4
  <2> QED BY <1>1, <1>2, <1>3, <1>4, <1>7, <2>1, AskIsGood DEF DocInv
<1>8. CASE \E s \in Scripts : Ide!Exists(s) /\ ide' = Ide!Ask(ide, "open", s, Ide!Blank)
  <2>1. PICK s \in Scripts : Ide!Exists(s) /\ y = Ide!Ask(ide, "open", s, Ide!Blank)
    BY <1>3, <1>8
  <2>2. "open" \in Kinds /\ s \in Ids /\ s # Ide!None /\ Known(ide.stored, s)
    <3>1. s # Ide!None
      BY Ide!Distinct DEF Ide!Distinct
    <3> QED BY <1>4, <2>1, <3>1 DEF Ids, Known, Ide!Exists
  <2> QED BY <1>1, <1>2, <1>3, <1>4, <2>1, <2>2, AskIsGood DEF DocInv
<1> QED BY <1>5, <1>6, <1>7, <1>8

\* The other documents the operator asks for.
LEMMA NewStep ==
  ASSUME DocInv, ide.open = "ready", ide.pending = Ide!Nothing,
         NEW do \in {"new", "leave"}, ide' = Ide!Request(ide, Ide!Dirty(ide), [do |-> do, doc |-> Ide!Document])
  PROVE  DocInv'
<1>1. PICK a, b : a = [do |-> do, doc |-> Ide!Document] /\ b = Ide!Dirty(ide)
  OBVIOUS
<1>2. a \in Actions /\ a.doc = Ide!Document /\ a.do = do
  BY <1>1, Nothings DEF Actions
<1>3. b \in BOOLEAN
  BY <1>1 DEF Ide!Dirty
<1>4. PICK y : y = ide'
  OBVIOUS
<1>5. y = Ide!Request(ide, b, a)
  BY <1>1, <1>4
<1> HIDE <1>1
<1> QED BY <1>2, <1>3, <1>4, <1>5, Nothings, RequestIsGood DEF DocInv

LEMMA DiscardStep ==
  ASSUME DocInv, Ide!Discard
  PROVE  DocInv'
<1>1. GoodDoc(ide) /\ ide \in Papers /\ ide.pending \in Actions /\ ide.open = "ready" /\ Named(ide)
  BY DEF DocInv, GoodDoc, Sound, Papers, Ide!Discard
<1>2. PICK x, a : x = [ide EXCEPT !.pending = Ide!Nothing] /\ a = ide.pending
  OBVIOUS
<1>3. GoodDoc(x)
  BY <1>1, <1>2, Nothings, PendingIsGood
<1>4. x.pending = Ide!Nothing /\ x.open = ide.open /\ x.stored = ide.stored /\ x.wire = ide.wire /\ x.crossed = ide.crossed
  BY ONLY <1>1, <1>2, Nothings DEF Papers
<1>5. a \in Actions /\ a # Ide!Nothing
  BY <1>1, <1>2 DEF Ide!Discard
<1>6. a.do # "nothing" /\ a.doc \in Docs
  BY <1>5 DEF Actions, Ide!Nothing
<1>7. Fitting(x, a.doc)
  <2>1. Known(x.stored, a.doc.id)
    BY <1>1, <1>2, <1>4 DEF Named
  <2>2. ASSUME ~x.crossed
        PROVE  /\ Fits(x.stored, a.doc.id, a.doc.text)
               /\ a.doc.id # Ide!None => \A i \in DOMAIN x.wire : Ide!IsStore(x.wire[i].kind) => x.wire[i].here
    <3>1. Waiting(ide) /\ Listened(ide)
      BY <1>1, <1>4, <2>2 DEF GoodDoc, Sound
    <3> QED BY <1>2, <1>4, <3>1 DEF Waiting, Listened, Fits
  <2> QED BY <1>6, <2>1, <2>2 DEF Fitting
<1>8. PICK y : y = ide'
  OBVIOUS
<1>9. y = Ide!Do(x, a)
  BY <1>2, <1>8 DEF Ide!Discard
<1> HIDE <1>2, <1>8
<1>10. GoodDoc(y)
  BY <1>1, <1>3, <1>4, <1>5, <1>6, <1>7, <1>9, Nothings, DoIsGood
<1> QED BY <1>8, <1>10 DEF DocInv

\* New documents of the workspace, and the document restored.
LEMMA OpenedStep ==
  ASSUME DocInv, ide.open = "ready", ide' = Ide!Opened(ide, Ide!Document) \/ ide' = Ide!OpenDocument(ide, Ide!Document)
  PROVE  DocInv'
<1>1. PICK y, d : y = ide' /\ d = Ide!Document
  OBVIOUS
<1>2. d.id = Ide!None /\ Fitting(ide, d)
  BY <1>1, Nothings
<1> QED BY <1>1, <1>2, OpenedIsGood, OpenedDocument DEF DocInv

LEMMA RestoreStep ==
  ASSUME DocInv, Ide!Restore
  PROVE  DocInv'
<1>1. GoodDoc(ide) /\ ide \in Papers /\ ide.open = "left" /\ Named(ide) /\ Restoring(ide)
  BY DEF DocInv, GoodDoc, Sound, Ide!Restore
<1>2. \A i \in DOMAIN ide.wire : ~ide.wire[i].here
  BY <1>1 DEF Restoring
<1>3. ide.last \in Ids /\ Known(ide.stored, ide.last) /\ ide.fresh \in BOOLEAN
  BY <1>1 DEF Papers, Named
<1>4. PICK y : y = ide'
  OBVIOUS
<1>5. CASE ide.last = Ide!None
  <2>1. y = [ide EXCEPT !.open = "ready"]
    BY <1>4, <1>5 DEF Ide!Restore
  <2>2. y = [ide EXCEPT !.open = "ready", !.fresh = ide.fresh, !.last = ide.last]
    BY ONLY <1>1, <2>1 DEF Papers
  <2> QED BY <1>1, <1>2, <1>3, <1>4, <2>2, ReadyIsGood DEF DocInv
<1>6. CASE ide.last # Ide!None
  <2>1. PICK x : x = [ide EXCEPT !.open = "loading"]
    OBVIOUS
  <2>2. /\ x \in Papers /\ SameWire(ide, x) /\ x.open = "loading" /\ x.id = ide.id /\ x.base = ide.base /\ x.text = ide.text
        /\ x.error = ide.error /\ x.pending = ide.pending /\ x.last = ide.last /\ x.dialog = ide.dialog
    BY ONLY <1>1, <2>1 DEF Papers, SameWire
  <2>3. Named(x) /\ Restoring(x)
    BY <1>1, <1>2, <2>2 DEF Named, Restoring, SameWire
  <2>4. ~ide.crossed => Lonely(x) /\ Read(x) /\ Listened(x) /\ Waiting(x) /\ InStep(x)
    BY <1>1, <2>2 DEF GoodDoc, Sound, Lonely, Read, Listened, Waiting, InStep, NoStore, SameWire
  <2>5. GoodDoc(x)
    BY <2>2, <2>3, <2>4 DEF GoodDoc, Sound, SameWire
  <2>6. y = Ide!Ask(x, "restore", x.last, Ide!Blank)
    BY <1>4, <1>6, <2>1, <2>2 DEF Ide!Restore
  <2>7. "restore" \in Kinds /\ ~Ide!IsStore("restore") /\ Ide!Blank \in AllTexts /\ x.last \in Ids /\ Known(x.stored, x.last)
    BY <1>3, <2>2 DEF Kinds, Ide!IsStore, AllTexts, SameWire
  <2>8. \A i \in DOMAIN x.wire : ~x.wire[i].here
    BY <1>2, <2>2 DEF SameWire
  <2> HIDE <2>1
  <2>9. GoodDoc(y)
    BY <1>6, <2>2, <2>5, <2>6, <2>7, <2>8, AskIsGood
  <2> QED BY <1>4, <2>9 DEF DocInv
<1> QED BY <1>5, <1>6

-----------------------------------------------------------------------------
\* Every step keeps the invariant.
LEMMA DocStep == ASSUME Ide!Distinct, DocInv, Ide!Next PROVE DocInv'
<1>1. ide.dialog => ide.open = "ready"
  BY DEF DocInv, GoodDoc, Sound, Restoring
<1>2. CASE Ide!Type
  BY <1>2, TypeStep
<1>3. CASE Ide!RequestSave
  <2>1. CASE ide.id = Ide!None
    <3>1. TRUE \in BOOLEAN /\ ide' = [ide EXCEPT !.dialog = TRUE] BY <1>3, <2>1 DEF Ide!RequestSave
    <3> QED BY <1>3, <3>1, DialogStep DEF Ide!RequestSave
  <2>2. CASE ide.id # Ide!None
    BY <1>3, <2>2, RequestStep DEF Ide!RequestSave
  <2> QED BY <2>1, <2>2
<1>4. CASE Ide!RequestSaveAs
  <2>1. TRUE \in BOOLEAN /\ ide' = [ide EXCEPT !.dialog = TRUE] BY <1>4 DEF Ide!RequestSaveAs
  <2> QED BY <1>4, <2>1, DialogStep DEF Ide!RequestSaveAs, Ide!Editing
<1>5. CASE Ide!CloseSaveDialog
  <2>1. FALSE \in BOOLEAN /\ ide' = [ide EXCEPT !.dialog = FALSE] BY <1>5 DEF Ide!CloseSaveDialog
  <2> QED BY <2>1, DialogStep
<1>6. CASE Ide!SaveAs \/ Ide!Run \/ Ide!LoadTemplate \/ Ide!ImportFile \/ Ide!OpenScript
  BY <1>1, <1>6, RequestStep DEF Ide!SaveAs, Ide!Run, Ide!LoadTemplate, Ide!ImportFile, Ide!OpenScript, Ide!Editing
<1>7. CASE Ide!NewFile \/ Ide!Close
  <2>1. ide.open = "ready" /\ ide.pending = Ide!Nothing /\ "new" \in {"new", "leave"} /\ "leave" \in {"new", "leave"}
    BY <1>7 DEF Ide!NewFile, Ide!Close, Ide!Editing
  <2> QED BY <1>7, <2>1, NewStep DEF Ide!NewFile, Ide!Close
<1>8. CASE Ide!WorkspaceRenders \/ Ide!NewScript
  BY <1>8, OpenedStep DEF Ide!WorkspaceRenders, Ide!NewScript, Ide!Editing
<1>9. CASE Ide!Discard
  BY <1>9, DiscardStep
<1>10. CASE Ide!ContinueEditing
  BY <1>10, ContinueStep DEF Ide!ContinueEditing
<1>11. CASE Ide!Restore
  BY <1>11, RestoreStep
<1>12. CASE Ide!DeletedElsewhere
  BY <1>12, DeletedStep
<1>13. CASE \E i \in DOMAIN ide.wire : Ide!Stores(i) \/ Ide!Reads(i) \/ Ide!Answer(i) \/ Ide!Fails(i)
  BY <1>13, StoresStep, ReadsStep, DocAnswerStep, FailsStep
<1> QED BY <1>2, <1>3, <1>4, <1>5, <1>6, <1>7, <1>8, <1>9, <1>10, <1>11, <1>12, <1>13 DEF Ide!Next

\* At rest a clean buffer is what it was last in step with.
LEMMA DocClean == ASSUME DocInv PROVE Ide!CleanIsStored
<1>1. Sound(ide) /\ (~ide.crossed => InStep(ide))
  BY DEF DocInv, GoodDoc
<1>2. ide.wire = <<>> => NoStore(ide)
  BY DEF NoStore
<1> QED BY <1>1, <1>2 DEF Ide!CleanIsStored, InStep, Fits, Ide!Dirty

\* The invariant of the document, of the requests it asks and of the scripts the
\* runner stores: whoever saves, opens, leaves, restores or deletes meanwhile.
THEOREM DocSound == ASSUME Ide!Distinct PROVE Ide!Spec => []DocInv
<1>1. Ide!Init => DocInv
  BY DocStarts
<1>2. DocInv /\ [Ide!Next]_ide => DocInv'
  <2>1. ASSUME DocInv, UNCHANGED ide PROVE DocInv'
    BY <2>1 DEF DocInv
  <2> QED BY <2>1, DocStep
<1> QED BY <1>1, <1>2, PTL DEF Ide!Spec

\* With no request in flight and no error told, a buffer without unsaved text shows
\* its script as it is stored, or a script that was deleted by another client;
\* unless a save or a run was on its way together with another request for a
\* stored script.
THEOREM CleanBufferIsStored == ASSUME Ide!Distinct PROVE Ide!Spec => []Ide!CleanIsStored
<1>1. DocInv => Ide!CleanIsStored
  BY DocClean
<1> QED BY <1>1, DocSound, PTL

-----------------------------------------------------------------------------
(* What was typed is replaced with the operator's consent.                 *)

\* A document that comes while there is unsaved text waits, or stays away.
LEMMA DirtyKept ==
  ASSUME NEW x \in Papers, Ide!Dirty(x), NEW d, NEW y, y = Ide!Opened(x, d) \/ y = Ide!OpenDocument(x, d)
  PROVE  y.text = x.text
<1>1. PICK z : z = [x EXCEPT !.last = d.id, !.fresh = FALSE]
  OBVIOUS
<1>2. z.text = x.text /\ z.base = x.base
  BY ONLY <1>1, x \in Papers DEF Papers
<1>3. Ide!Dirty(z)
  BY <1>2 DEF Ide!Dirty
<1>4. y = Ide!Opened(x, d) \/ y = Ide!Opened(z, d)
  BY <1>1 DEF Ide!OpenDocument
<1>5. ASSUME NEW v, Ide!Dirty(v), DOMAIN v = DOMAIN x PROVE Ide!Opened(v, d).text = v.text
  BY <1>5 DEF Ide!Opened
<1>6. DOMAIN z = DOMAIN x
  BY <1>1
<1> QED BY <1>2, <1>3, <1>4, <1>5, <1>6

LEMMA TextKept ==
  ASSUME DocInv, Ide!Next, Ide!DirtyText
  PROVE  Ide!Type \/ Ide!Written \/ (ide.pending # Ide!Nothing /\ ide'.pending = Ide!Nothing)
<1>1. ide \in Papers /\ ide.open = "ready" /\ Ide!Dirty(ide) /\ ide'.text # ide.text /\ Restoring(ide)
  BY DEF DocInv, GoodDoc, Sound, Ide!DirtyText
<1>2. ASSUME NEW kind, NEW id, NEW text PROVE Ide!Ask(ide, kind, id, text).text = ide.text
  BY <1>1 DEF Ide!Ask, Papers
<1>3. ~(\/ Ide!RequestSave \/ Ide!RequestSaveAs \/ Ide!CloseSaveDialog \/ Ide!SaveAs
        \/ Ide!Run \/ Ide!LoadTemplate \/ Ide!ImportFile \/ Ide!OpenScript)
  <2>1. ASSUME NEW b, ide' = [ide EXCEPT !.dialog = b] PROVE FALSE
    BY ONLY <1>1, <2>1 DEF Papers
  <2> QED BY <1>1, <1>2, <2>1 DEF Ide!RequestSave, Ide!RequestSaveAs, Ide!CloseSaveDialog, Ide!SaveAs,
        Ide!Run, Ide!LoadTemplate, Ide!ImportFile, Ide!OpenScript
<1>4. ASSUME NEW a, ide' = [ide EXCEPT !.pending = a] PROVE FALSE
  BY ONLY <1>1, <1>4 DEF Papers
<1>5. ~(Ide!NewFile \/ Ide!Close)
  BY <1>1, <1>4 DEF Ide!NewFile, Ide!Close, Ide!Request
<1>6. ~(Ide!WorkspaceRenders \/ Ide!NewScript)
  BY <1>1, DirtyKept DEF Ide!WorkspaceRenders, Ide!NewScript
<1>7. ~(Ide!ContinueEditing \/ Ide!Restore \/ Ide!DeletedElsewhere)
  <2>1. ~Ide!ContinueEditing BY <1>4 DEF Ide!ContinueEditing
  <2>2. ~Ide!Restore BY <1>1 DEF Ide!Restore
  <2>3. ASSUME NEW f, ide' = [ide EXCEPT !.stored = f] PROVE FALSE
    BY ONLY <1>1, <2>3 DEF Papers
  <2>4. ~Ide!DeletedElsewhere
    BY <1>1, <2>3 DEF Ide!DeletedElsewhere
  <2> QED BY <2>1, <2>2, <2>4
<1>8. ASSUME Ide!Discard PROVE ide.pending # Ide!Nothing /\ ide'.pending = Ide!Nothing
  <2>1. PICK x, a : x = [ide EXCEPT !.pending = Ide!Nothing] /\ a = ide.pending
    OBVIOUS
  <2>2. a \in Actions /\ a # Ide!Nothing /\ ide' = Ide!Do(x, a)
    BY <1>1, <1>8, <2>1 DEF Ide!Discard, Papers
  <2>3. a.do \in {"replace", "new", "leave"}
    BY <2>2 DEF Actions
  <2>4. x.pending = Ide!Nothing /\ "pending" \in DOMAIN x
    BY ONLY <1>1, <2>1 DEF Papers
  <2>5. Ide!Do(x, a).pending = Ide!Nothing
    BY <2>3, <2>4 DEF Ide!Do, Ide!Replaced
  <2> QED BY <1>8, <2>2, <2>5 DEF Ide!Discard
<1>9. ASSUME NEW i \in DOMAIN ide.wire PROVE ~(Ide!Stores(i) \/ Ide!Reads(i) \/ Ide!Fails(i))
  <2>1. ASSUME Ide!Stores(i) PROVE FALSE
    <3>1. PICK s : ide' = [ide EXCEPT !.stored[s] = ide.wire[i].text, !.wire[i].step = "done", !.wire[i].id = s]
      BY <2>1 DEF Ide!Stores
    <3> QED BY ONLY <1>1, <3>1 DEF Papers
  <2>2. ASSUME Ide!Reads(i) PROVE FALSE
    <3>1. PICK t : ide' = [ide EXCEPT !.wire[i].step = "done", !.wire[i].text = t]
      BY <2>2 DEF Ide!Reads
    <3> QED BY ONLY <1>1, <3>1 DEF Papers
  <2>3. ASSUME Ide!Fails(i) PROVE FALSE
    <3>1. Ide!Took(ide, i).text = ide.text /\ DOMAIN Ide!Took(ide, i) = DOMAIN ide
      BY <1>1 DEF Ide!Took, Papers
    <3>2. ide'.text = Ide!Took(ide, i).text
      BY <2>3, <3>1 DEF Ide!Fails
    <3> QED BY <1>1, <3>1, <3>2
  <2> QED BY <2>1, <2>2, <2>3
<1>10. ASSUME NEW i \in DOMAIN ide.wire, Ide!Answer(i) PROVE Ide!Written
  <2>1. PICK x, d : x = Ide!Took(ide, i) /\ d = [id |-> ide.wire[i].id, text |-> ide.wire[i].text]
    OBVIOUS
  <2>2. x.text = ide.text /\ x.base = ide.base /\ DOMAIN x = DOMAIN ide
    BY <1>1, <2>1 DEF Ide!Took, Papers
  <2>3. x \in Papers
    BY <2>1, TookIsSound DEF DocInv, Sound
  <2>4. ide.wire[i] \in Asks
    BY <1>1 DEF Papers
  <2>5. CASE ~ide.wire[i].here
    <3>1. PICK l : ide' = [x EXCEPT !.last = l]
      BY <1>10, <2>1, <2>5 DEF Ide!Answer
    <3>2. ide'.text = x.text
      BY ONLY <2>3, <3>1 DEF Papers
    <3> QED BY <1>1, <2>2, <3>2
  <2>6. CASE ide.wire[i].here /\ (Ide!IsStore(ide.wire[i].kind) \/ ~ide.wire[i].dirty)
    BY <1>10, <2>6 DEF Ide!Written
  <2>7. CASE ide.wire[i].here /\ ide.wire[i].kind = "template" /\ ide.wire[i].dirty
    <3>1. PICK a : ide' = [x EXCEPT !.pending = a]
      BY <1>10, <2>1, <2>7 DEF Ide!Answer, Ide!Request
    <3>2. ide'.text = x.text
      BY ONLY <2>3, <3>1 DEF Papers
    <3> QED BY <1>1, <2>2, <3>2
  <2>8. CASE ide.wire[i].here /\ ide.wire[i].kind = "open"
    <3>1. ide' = Ide!OpenDocument(x, d)
      BY <1>10, <2>1, <2>8 DEF Ide!Answer
    <3>2. Ide!Dirty(x)
      BY <1>1, <2>2 DEF Ide!Dirty
    <3>3. ide'.text = x.text
      BY <2>3, <3>1, <3>2, DirtyKept
    <3> QED BY <1>1, <2>2, <3>3
  <2>9. CASE ide.wire[i].here /\ ide.wire[i].kind = "restore"
    BY <1>1, <2>9 DEF Restoring
  <2> QED BY <2>4, <2>5, <2>6, <2>7, <2>8, <2>9 DEF Asks, Kinds, Ide!IsStore
<1> QED BY <1>3, <1>5, <1>6, <1>7, <1>8, <1>9, <1>10 DEF Ide!Next

\* A step changes unsaved text only when the operator types or gives up what was
\* pending, or when a save or a run asked for is answered, or a request that was
\* asked for while nothing was unsaved: whatever answer comes late.
THEOREM UnsavedTextIsKept == ASSUME Ide!Distinct PROVE Ide!Spec => [][Ide!GuardedStep]_ide
<1>1. DocInv /\ [Ide!Next]_ide => [Ide!GuardedStep]_ide
  BY TextKept DEF Ide!GuardedStep
<1> QED BY <1>1, DocSound, PTL DEF Ide!Spec

-----------------------------------------------------------------------------
(* The x/y chart.                                                          *)

CONSTANTS Sources, Caps, MaxTime   \* of the chart
VARIABLE chart

Xy == INSTANCE XyChart WITH w <- chart

Samples == [t : Nat, of : Sources \union {""}]
PairsOf == [x : Samples, y : Samples]
Configs == [x : Sources, y : Sources, cap : Caps]
Records ==
  {r \in [x : Sources \union {""}, y : Sources \union {""}, points : Seq(PairsOf)] :
     r.points # <<>> => r.x \in Sources /\ r.y \in Sources}
Pairings == [latest : [Xy!Axes -> Samples], fresh : SUBSET Xy!Axes, timer : BOOLEAN]
Readings == [t : Nat, error : BOOLEAN, disconnected : BOOLEAN]
Charts ==
  [open : BOOLEAN, config : Configs, points : Seq(PairsOf), record : Records, pairing : Pairings,
   last : [Xy!Axes -> Nat], clock : Nat, mixed : BOOLEAN, snap : [Sources -> Readings]]

(* Pairs in order, of the sources of c, and none younger than the newest   *)
(* sample of its source that is still held.                                *)
Ordered(points) ==
  \A i \in 2..Len(points) :
    LET p == points[i - 1] q == points[i] IN p.x.t <= q.x.t /\ p.y.t <= q.y.t /\ p # q
From(points, c) == \A i \in DOMAIN points : points[i].x.of = c.x /\ points[i].y.of = c.y
Held(t, reading) == reading.t = 0 \/ t <= reading.t
NotAhead(points, x, c) ==
  \A i \in DOMAIN points :
    /\ points[i].x.t <= x.clock /\ Held(points[i].x.t, x.snap[c.x])
    /\ points[i].y.t <= x.clock /\ Held(points[i].y.t, x.snap[c.y])
Recorded(points, x, c) == Ordered(points) /\ From(points, c) /\ NotAhead(points, x, c)

(* What an axis has is of its source, and not younger than what was last   *)
(* looked at; a fresh sample is there, and so is one that is waited for.   *)
AxisSound(x, a) ==
  LET latest == x.pairing.latest[a] reading == x.snap[Xy!SourceOf(x.config, a)] IN
    /\ x.last[a] <= x.clock /\ latest.t <= x.last[a] /\ Held(latest.t, reading)
    /\ latest.t # 0 => latest.of = Xy!SourceOf(x.config, a)
    /\ a \in x.pairing.fresh => latest.t # 0
(* No pair has a younger sample than the one the next pair will have; a    *)
(* fresh one is younger than all; and one that is not yet looked at will   *)
(* be, on the axes in looked.                                              *)
AxisAdvances(x, a) ==
  LET latest == x.pairing.latest[a] IN
    \A i \in DOMAIN x.points :
      /\ latest.t # 0 => x.points[i][a].t <= latest.t
      /\ a \in x.pairing.fresh => x.points[i][a].t < latest.t
AxisLooked(x, a) ==
  LET reading == x.snap[Xy!SourceOf(x.config, a)] IN
    \A i \in DOMAIN x.points :
      x.points[i][a].t <= x.last[a] \/ reading.t = 0 \/ x.points[i][a].t < reading.t

Clean(x) ==
  /\ x.points = <<>> /\ x.pairing = Xy!NoPairing /\ x.last = [a \in Xy!Axes |-> 0]
ChartSound(x, looked) ==
  /\ x \in Charts
  /\ \A s \in Sources : x.snap[s].t <= x.clock /\ (x.snap[s].disconnected => x.snap[s].t = 0)
  /\ \A a \in Xy!Axes : AxisSound(x, a)
  /\ x.pairing.timer => x.pairing.fresh # {}
  /\ ~x.open => Clean(x)
  /\ ~x.mixed =>
       /\ Recorded(x.points, x, x.config) /\ Recorded(x.record.points, x, x.record)
       /\ \A a \in Xy!Axes : AxisAdvances(x, a)
       /\ \A a \in looked : AxisLooked(x, a)
Shown(x) == ~x.mixed => Xy!Load(x.record, x.config) = x.points
ChartInv == ChartSound(chart, Xy!Axes) /\ (chart.open => Shown(chart))


-----------------------------------------------------------------------------
(* What is kept of a history: its end.                                     *)

EndOf(kept, points) ==
  \E d \in Nat : Len(kept) + d = Len(points) /\ \A i \in 1..Len(kept) : kept[i] = points[i + d]

LEMMA KeptIsEnd ==
  ASSUME NEW points \in Seq(PairsOf), NEW cap \in Nat
  PROVE  /\ Xy!PruneXyChartHistory(points, cap) \in Seq(PairsOf)
         /\ EndOf(Xy!PruneXyChartHistory(points, cap), points)
<1>1. Len(points) \in Nat /\ \A i \in 1..Len(points) : points[i] \in PairsOf
  OBVIOUS
<1>2. CASE Len(points) <= cap
  BY <1>1, <1>2 DEF Xy!PruneXyChartHistory, EndOf
<1>3. CASE Len(points) > cap
  <2>1. PICK d \in Nat : d = Len(points) - cap
    BY <1>1, <1>3
  <2>2. PICK k : k = SubSeq(points, d + 1, Len(points))
    OBVIOUS
  <2>3. \A i \in (d + 1)..Len(points) : points[i] \in PairsOf
    BY <1>1, <2>1
  <2>4. /\ k \in Seq(PairsOf)
        /\ Len(k) = IF d + 1 <= Len(points) THEN Len(points) - (d + 1) + 1 ELSE 0
        /\ \A i \in 1..(Len(points) - (d + 1) + 1) : k[i] = points[d + 1 + i - 1]
    <3>1. d + 1 \in Int /\ Len(points) \in Int
      BY <1>1, <2>1
    <3> QED BY ONLY <2>2, <2>3, <3>1, SubSeqProperties
  <2>5. Len(k) = cap
    BY <1>1, <1>3, <2>1, <2>4
  <2>6. \A i \in 1..Len(k) : k[i] = points[i + d]
    BY <1>1, <1>3, <2>1, <2>4, <2>5
  <2>7. Xy!PruneXyChartHistory(points, cap) = k
    <3>1. Len(points) - cap + 1 = d + 1
      BY <1>1, <2>1
    <3> QED BY <1>1, <1>3, <2>2, <3>1 DEF Xy!PruneXyChartHistory
  <2>8. EndOf(k, points)
    <3>1. Len(k) + d = Len(points)
      BY <1>1, <2>1, <2>5
    <3> QED BY ONLY <2>1, <2>6, <3>1 DEF EndOf
  <2> QED BY ONLY <2>4, <2>7, <2>8
<1> QED BY <1>1, <1>2, <1>3

LEMMA EndIsRecorded ==
  ASSUME NEW points \in Seq(PairsOf), NEW kept \in Seq(PairsOf), EndOf(kept, points), NEW x, NEW c, Recorded(points, x, c)
  PROVE  Recorded(kept, x, c)
<1>1. PICK d \in Nat : Len(kept) + d = Len(points) /\ \A i \in 1..Len(kept) : kept[i] = points[i + d]
  BY DEF EndOf
<1>2. Len(kept) \in Nat /\ DOMAIN kept = 1..Len(kept) /\ DOMAIN points = 1..Len(points)
  OBVIOUS
<1>3. \A i \in DOMAIN kept : i + d \in DOMAIN points /\ kept[i] = points[i + d]
  BY <1>1, <1>2
<1>4. Ordered(kept)
  <2> SUFFICES ASSUME NEW i \in 2..Len(kept)
               PROVE  kept[i - 1].x.t <= kept[i].x.t /\ kept[i - 1].y.t <= kept[i].y.t /\ kept[i - 1] # kept[i]
    BY DEF Ordered
  <2>1. i - 1 \in DOMAIN kept /\ i \in DOMAIN kept
    BY <1>2
  <2>2. PICK j : j = i + d
    OBVIOUS
  <2>3. i - 1 + d = j - 1 /\ j \in 2..Len(points)
    BY <1>1, <1>2, <2>2
  <2>4. kept[i - 1] = points[j - 1] /\ kept[i] = points[j]
    BY <1>3, <2>1, <2>2, <2>3
  <2> QED BY <2>3, <2>4 DEF Recorded, Ordered
<1>5. From(kept, c)
  BY <1>3 DEF Recorded, From
<1>6. NotAhead(kept, x, c)
  BY <1>3 DEF Recorded, NotAhead
<1> QED BY <1>4, <1>5, <1>6 DEF Recorded

(* Saving writes what it keeps under the configuration, or removes the     *)
(* record.                                                                 *)
LEMMA SaveKeeps ==
  ASSUME Xy!LimitsAreSizes, NEW x \in Charts, NEW points \in Seq(PairsOf)
  PROVE  \E kept \in Seq(PairsOf), record \in Records :
           /\ EndOf(kept, points)
           /\ Xy!Save(x, points) = [x EXCEPT !.points = kept, !.record = record]
           /\ Xy!Save(x, points) \in Charts
           /\ record.points = kept /\ Xy!Load(record, x.config) = kept
           /\ kept # <<>> => record.x = x.config.x /\ record.y = x.config.y
<1>1. x.config \in Configs /\ x.config.cap \in Nat
  BY DEF Charts, Configs, Xy!LimitsAreSizes
<1>2. PICK kept : kept = Xy!PruneXyChartHistory(points, x.config.cap)
  OBVIOUS
<1>3. kept \in Seq(PairsOf) /\ EndOf(kept, points)
  BY <1>1, <1>2, KeptIsEnd
<1>4. PICK record : record = Xy!Record(kept, x.config)
  OBVIOUS
<1>5. /\ record \in Records /\ record.points = kept /\ Xy!Load(record, x.config) = kept
      /\ kept # <<>> => record.x = x.config.x /\ record.y = x.config.y
  <2>1. CASE kept = <<>>
    BY <1>3, <1>4, <2>1 DEF Xy!Record, Xy!NoRecord, Records, Xy!Load
  <2>2. CASE kept # <<>>
    BY <1>1, <1>3, <1>4, <2>2 DEF Xy!Record, Records, Configs, Xy!Load
  <2> QED BY <2>1, <2>2
<1>6. Xy!Save(x, points) = [x EXCEPT !.points = kept, !.record = record]
  BY <1>2, <1>4 DEF Xy!Save
<1>7. Xy!Save(x, points) \in Charts
  BY <1>3, <1>5, <1>6 DEF Charts
<1> QED BY <1>3, <1>5, <1>6, <1>7

(* What a step leaves to others.                                           *)
SameChart(x, y) == y.open = x.open /\ y.config = x.config /\ y.snap = x.snap /\ y.clock = x.clock

LEMMA RecordedAs ==
  ASSUME NEW points, NEW x, NEW y, NEW c, NEW d, Recorded(points, x, c), y.snap = x.snap, y.clock = x.clock,
         points # <<>> => d.x = c.x /\ d.y = c.y, points \in Seq(PairsOf)
  PROVE  Recorded(points, y, d)
<1>1. CASE points = <<>>
  BY <1>1 DEF Recorded, Ordered, From, NotAhead
<1>2. CASE points # <<>>
  BY <1>2 DEF Recorded, From, NotAhead
<1> QED BY <1>1, <1>2

LEMMA SaveSound ==
  ASSUME Xy!LimitsAreSizes, NEW x \in Charts, NEW points \in Seq(PairsOf), NEW A,
         A \subseteq Xy!Axes, ChartSound([x EXCEPT !.points = points], A), x.open
  PROVE  /\ ChartSound(Xy!Save(x, points), A) /\ Shown(Xy!Save(x, points)) /\ SameChart(x, Xy!Save(x, points))
         /\ Xy!Save(x, points).pairing = x.pairing /\ Xy!Save(x, points).last = x.last
         /\ Xy!Save(x, points).mixed = x.mixed
<1>1. PICK kept \in Seq(PairsOf), record \in Records :
         /\ EndOf(kept, points)
         /\ Xy!Save(x, points) = [x EXCEPT !.points = kept, !.record = record]
         /\ Xy!Save(x, points) \in Charts
         /\ record.points = kept /\ Xy!Load(record, x.config) = kept
         /\ kept # <<>> => record.x = x.config.x /\ record.y = x.config.y
  BY SaveKeeps
<1>2. PICK y : y = Xy!Save(x, points)
  OBVIOUS
<1>3. y \in Charts
  BY <1>1, <1>2
<1>4. /\ y.points = kept /\ y.record = record /\ y.open = x.open /\ y.config = x.config /\ y.pairing = x.pairing
      /\ y.last = x.last /\ y.clock = x.clock /\ y.mixed = x.mixed /\ y.snap = x.snap
  BY <1>1, <1>2 DEF Charts
<1>5. PICK z : z = [x EXCEPT !.points = points]
  OBVIOUS
<1>6. /\ z.points = points /\ z.record = x.record /\ z.open = x.open /\ z.config = x.config /\ z.pairing = x.pairing
      /\ z.last = x.last /\ z.clock = x.clock /\ z.mixed = x.mixed /\ z.snap = x.snap
  BY <1>5 DEF Charts
<1>7. ChartSound(z, A)
  BY <1>5
<1>8. \A a \in Xy!Axes : AxisSound(y, a)
  BY <1>4, <1>6, <1>7 DEF ChartSound, AxisSound
<1>9. \A i \in DOMAIN kept : \E j \in DOMAIN points : kept[i] = points[j]
  <2>1. PICK d \in Nat : Len(kept) + d = Len(points) /\ \A i \in 1..Len(kept) : kept[i] = points[i + d]
    BY <1>1 DEF EndOf
  <2> SUFFICES ASSUME NEW i \in DOMAIN kept PROVE \E j \in DOMAIN points : kept[i] = points[j]
    OBVIOUS
  <2>2. i + d \in DOMAIN points
    BY <2>1
  <2> QED BY <2>1, <2>2
<1>10. ASSUME ~y.mixed
       PROVE  /\ Recorded(y.points, y, y.config) /\ Recorded(y.record.points, y, y.record)
              /\ \A a \in Xy!Axes : AxisAdvances(y, a)
              /\ \A a \in A : AxisLooked(y, a)
  <2>1. /\ Recorded(z.points, z, z.config) /\ \A a \in Xy!Axes : AxisAdvances(z, a)
        /\ \A a \in A : AxisLooked(z, a)
    BY <1>4, <1>6, <1>7, <1>10 DEF ChartSound
  <2>2. Recorded(kept, z, x.config)
    BY <1>1, <1>6, <2>1, EndIsRecorded
  <2>3. Recorded(kept, y, x.config)
    BY <1>4, <1>6, <2>2, RecordedAs
  <2>4. Recorded(kept, y, record)
    BY <1>1, <1>4, <1>6, <2>2, RecordedAs
  <2>5. ASSUME NEW a \in Xy!Axes PROVE AxisAdvances(y, a)
    <3>1. AxisAdvances(z, a)
      BY <2>1
    <3> QED BY <1>4, <1>6, <1>9, <3>1 DEF AxisAdvances
  <2>6. ASSUME NEW a \in A PROVE AxisLooked(y, a)
    <3>1. AxisLooked(z, a)
      BY <2>1
    <3>2. PICK r : r = x.snap[Xy!SourceOf(x.config, a)]
      OBVIOUS
    <3>3. \A j \in DOMAIN points : points[j][a].t <= x.last[a] \/ r.t = 0 \/ points[j][a].t < r.t
      BY ONLY <1>6, <3>1, <3>2 DEF AxisLooked
    <3>4. \A i \in DOMAIN kept : kept[i][a].t <= x.last[a] \/ r.t = 0 \/ kept[i][a].t < r.t
      BY ONLY <1>9, <3>3
    <3> QED BY ONLY <1>4, <3>2, <3>4 DEF AxisLooked
  <2> QED BY <1>1, <1>4, <2>3, <2>4, <2>5, <2>6
<1>11. ChartSound(y, A)
  BY <1>3, <1>4, <1>6, <1>7, <1>8, <1>10 DEF ChartSound
<1> QED BY <1>1, <1>2, <1>4, <1>11 DEF Shown, SameChart

(* A pair of a fresh sample comes after all there are.                     *)
LEMMA EmitSound ==
  ASSUME Xy!LimitsAreSizes, NEW x, NEW A, A \subseteq Xy!Axes, ChartSound(x, A), x.open,
         \A a \in Xy!Axes : x.pairing.latest[a].t # 0, x.pairing.fresh # {}
  PROVE  ChartSound(Xy!Emit(x), A) /\ Shown(Xy!Emit(x)) /\ SameChart(x, Xy!Emit(x))
<1>1. PICK l, n : l = x.pairing.latest["x"] /\ n = x.pairing.latest["y"]
  OBVIOUS
<1>2. x \in Charts /\ x.pairing \in Pairings /\ l \in Samples /\ n \in Samples
  BY <1>1 DEF ChartSound, Charts, Pairings, Xy!Axes
<1>3. PICK p : p = [x |-> l, y |-> n]
  OBVIOUS
<1>4. p \in PairsOf /\ p.x = l /\ p.y = n
  BY <1>2, <1>3 DEF PairsOf
<1>5. PICK points : points = Append(x.points, p)
  OBVIOUS
<1>6. /\ points \in Seq(PairsOf) /\ x.points \in Seq(PairsOf) /\ Len(points) = Len(x.points) + 1
      /\ \A i \in 1..Len(x.points) : points[i] = x.points[i]
      /\ points[Len(points)] = p
  BY <1>2, <1>4, <1>5 DEF Charts
<1>7. PICK z : z = [x EXCEPT !.pairing.fresh = {}, !.pairing.timer = FALSE]
  OBVIOUS
<1>8. /\ z \in Charts /\ z.points = x.points /\ z.record = x.record /\ z.open = x.open /\ z.config = x.config
      /\ z.last = x.last /\ z.clock = x.clock /\ z.mixed = x.mixed /\ z.snap = x.snap
      /\ z.pairing.latest = x.pairing.latest /\ z.pairing.fresh = {} /\ ~z.pairing.timer
  <2>1. z = [x EXCEPT !.pairing = [x.pairing EXCEPT !.fresh = {}, !.timer = FALSE]]
    BY <1>2, <1>7 DEF Charts, Pairings
  <2>2. [x.pairing EXCEPT !.fresh = {}, !.timer = FALSE] \in Pairings
    BY <1>2 DEF Pairings
  <2>3. z \in Charts
    BY <1>2, <2>1, <2>2 DEF Charts
  <2> QED BY <1>2, <2>1, <2>3 DEF Charts, Pairings
<1>9. PICK y : y = [z EXCEPT !.points = points]
  OBVIOUS
<1>10. /\ y \in Charts /\ y.points = points /\ y.record = x.record /\ y.open = x.open /\ y.config = x.config
       /\ y.last = x.last /\ y.clock = x.clock /\ y.mixed = x.mixed /\ y.snap = x.snap
       /\ y.pairing.latest = x.pairing.latest /\ y.pairing.fresh = {} /\ ~y.pairing.timer
  BY <1>6, <1>8, <1>9 DEF Charts
<1>11. \A a \in Xy!Axes : AxisSound(x, a) /\ AxisSound(y, a)
  BY <1>10 DEF ChartSound, AxisSound
<1>12. ASSUME ~y.mixed
       PROVE  /\ Recorded(y.points, y, y.config) /\ Recorded(y.record.points, y, y.record)
              /\ \A a \in Xy!Axes : AxisAdvances(y, a)
              /\ \A a \in A : AxisLooked(y, a)
  <2>1. /\ Recorded(x.points, x, x.config) /\ Recorded(x.record.points, x, x.record)
        /\ \A a \in Xy!Axes : AxisAdvances(x, a)
        /\ \A a \in A : AxisLooked(x, a)
    BY <1>10, <1>12 DEF ChartSound
  <2>2. Recorded(x.record.points, y, x.record)
    <3>1. x.record.points \in Seq(PairsOf)
      BY <1>2 DEF Charts, Records
    <3> QED BY <1>10, <2>1, <3>1, RecordedAs
  <2>3. /\ l.t # 0 /\ n.t # 0 /\ l.of = x.config.x /\ n.of = x.config.y
        /\ l.t <= x.clock /\ n.t <= x.clock /\ l.t <= x.last["x"] /\ n.t <= x.last["y"]
        /\ Held(l.t, x.snap[x.config.x]) /\ Held(n.t, x.snap[x.config.y])
    <3>1. AxisSound(x, "x") /\ AxisSound(x, "y") /\ l.t # 0 /\ n.t # 0
      BY <1>1, <1>11 DEF Xy!Axes
    <3>2. x.last["x"] \in Nat /\ x.last["y"] \in Nat /\ x.clock \in Nat /\ l.t \in Nat /\ n.t \in Nat
      BY <1>2 DEF Charts, Xy!Axes, Samples
    <3> QED BY <1>1, <3>1, <3>2 DEF AxisSound, Xy!SourceOf
  <2>4. \A i \in DOMAIN x.points : x.points[i].x.t <= l.t /\ x.points[i].y.t <= n.t /\ x.points[i] # p
    <3>1. \A i \in DOMAIN x.points : x.points[i].x.t <= l.t /\ x.points[i].y.t <= n.t
      BY <1>1, <2>1, <2>3 DEF AxisAdvances, Xy!Axes
    <3>2. PICK a \in Xy!Axes : a \in x.pairing.fresh
      BY <1>2 DEF Pairings
    <3>3. \A i \in DOMAIN x.points : x.points[i][a].t < x.pairing.latest[a].t
      BY <2>1, <3>2 DEF AxisAdvances
    <3>4. p[a] = x.pairing.latest[a] /\ p[a].t \in Nat
      BY <1>1, <1>2, <1>4 DEF Xy!Axes, Samples
    <3> QED BY <3>1, <3>3, <3>4
  <2>5. DOMAIN points = 1..(Len(x.points) + 1) /\ Len(x.points) \in Nat /\ DOMAIN x.points = 1..Len(x.points)
    BY <1>6
  <2>6. Ordered(points)
    <3> SUFFICES ASSUME NEW i \in 2..Len(points)
                 PROVE  /\ points[i - 1].x.t <= points[i].x.t /\ points[i - 1].y.t <= points[i].y.t
                        /\ points[i - 1] # points[i]
      BY DEF Ordered
    <3>1. CASE i <= Len(x.points)
      <4>1. i \in 2..Len(x.points) /\ i - 1 \in 1..Len(x.points) /\ i \in 1..Len(x.points)
        BY <2>5, <3>1
      <4> QED BY <1>6, <2>1, <4>1 DEF Recorded, Ordered
    <3>2. CASE ~(i <= Len(x.points))
      <4>1. i = Len(points) /\ i - 1 \in DOMAIN x.points
        BY <1>6, <2>5, <3>2
      <4> QED BY <1>4, <1>6, <2>4, <2>5, <4>1
    <3> QED BY <3>1, <3>2
  <2>7. \A i \in DOMAIN points : (i \in DOMAIN x.points /\ points[i] = x.points[i]) \/ points[i] = p
    BY <1>6, <2>5
  <2>8. From(points, x.config)
    BY <1>4, <2>1, <2>3, <2>7 DEF Recorded, From
  <2>9. NotAhead(points, y, x.config)
    BY <1>4, <1>10, <2>1, <2>3, <2>7 DEF Recorded, NotAhead
  <2>10. ASSUME NEW a \in Xy!Axes PROVE AxisAdvances(y, a)
    <3>1. p[a] = x.pairing.latest[a] /\ p[a].t \in Nat /\ AxisAdvances(x, a)
      BY <1>1, <1>2, <1>4, <2>1 DEF Xy!Axes, Samples
    <3> QED BY <1>10, <2>7, <3>1 DEF AxisAdvances
  <2>11. ASSUME NEW a \in A PROVE AxisLooked(y, a)
    <3>1. p[a] = x.pairing.latest[a] /\ AxisLooked(x, a) /\ p[a].t <= x.last[a]
      BY <1>1, <1>4, <2>1, <2>3 DEF Xy!Axes
    <3> QED BY <1>10, <2>7, <3>1 DEF AxisLooked
  <2> QED BY <1>10, <2>2, <2>6, <2>8, <2>9, <2>10, <2>11 DEF Recorded
<1>13. ChartSound(y, A)
  BY <1>10, <1>11, <1>12 DEF ChartSound
<1>14. Xy!Emit(x) = Xy!Save(z, points)
  BY <1>1, <1>3, <1>5, <1>7 DEF Xy!Emit
<1>15. z.open /\ ChartSound([z EXCEPT !.points = points], A)
  BY <1>8, <1>9, <1>13
<1>16. /\ ChartSound(Xy!Save(z, points), A) /\ Shown(Xy!Save(z, points)) /\ SameChart(z, Xy!Save(z, points))
  BY <1>6, <1>8, <1>15, SaveSound
<1> QED BY <1>8, <1>14, <1>16 DEF SameChart

-----------------------------------------------------------------------------
(* The listener of an axis.                                                *)

LEMMA ClearedSound ==
  ASSUME Xy!LimitsAreSizes, NEW x \in Charts, NEW A, A \subseteq Xy!Axes,
         \A s \in Sources : x.snap[s].t <= x.clock /\ (x.snap[s].disconnected => x.snap[s].t = 0)
  PROVE  /\ ChartSound(Xy!Cleared(x), A) /\ Shown(Xy!Cleared(x)) /\ SameChart(x, Xy!Cleared(x))
         /\ Xy!Cleared(x).pairing.fresh = {}
<1>1. PICK z : z = [x EXCEPT !.mixed = FALSE, !.pairing = Xy!NoPairing, !.last = [a \in Xy!Axes |-> 0]]
  OBVIOUS
<1>2. Xy!NoPairing \in Pairings
  BY DEF Xy!NoPairing, Xy!NoSample, Pairings, Samples
<1>3. [a \in Xy!Axes |-> 0] \in [Xy!Axes -> Nat]
  OBVIOUS
<1>4. /\ z \in Charts /\ z.open = x.open /\ z.config = x.config /\ z.clock = x.clock /\ z.snap = x.snap
      /\ ~z.mixed /\ z.pairing = Xy!NoPairing /\ z.last = [a \in Xy!Axes |-> 0]
  BY <1>1, <1>2, <1>3 DEF Charts
<1>5. <<>> \in Seq(PairsOf)
  OBVIOUS
<1>6. PICK kept \in Seq(PairsOf), record \in Records :
         /\ EndOf(kept, <<>>)
         /\ Xy!Save(z, <<>>) = [z EXCEPT !.points = kept, !.record = record]
         /\ Xy!Save(z, <<>>) \in Charts
         /\ record.points = kept /\ Xy!Load(record, z.config) = kept
  <2>1. PICK none \in Seq(PairsOf) : none = <<>>
    BY <1>5
  <2>2. z \in Charts
    BY <1>4
  <2>3. \E kept \in Seq(PairsOf), record \in Records :
          /\ EndOf(kept, none)
          /\ Xy!Save(z, none) = [z EXCEPT !.points = kept, !.record = record]
          /\ Xy!Save(z, none) \in Charts
          /\ record.points = kept /\ Xy!Load(record, z.config) = kept
          /\ kept # <<>> => record.x = z.config.x /\ record.y = z.config.y
    BY <2>2, SaveKeeps
  <2> QED BY <2>1, <2>3
<1>7. kept = <<>>
  BY <1>6 DEF EndOf
<1>8. PICK y : y = Xy!Save(z, <<>>)
  OBVIOUS
<1>9. /\ y \in Charts /\ y.open = x.open /\ y.config = x.config /\ y.clock = x.clock /\ y.snap = x.snap
      /\ ~y.mixed /\ y.pairing = Xy!NoPairing /\ y.last = [a \in Xy!Axes |-> 0]
      /\ y.points = <<>> /\ y.record = record /\ record.points = <<>>
  BY <1>4, <1>6, <1>7, <1>8 DEF Charts
<1>10. y.pairing.fresh = {} /\ ~y.pairing.timer /\ \A a \in Xy!Axes : y.pairing.latest[a].t = 0 /\ y.last[a] = 0
  <2>1. PICK none : none = [a \in Xy!Axes |-> Xy!NoSample]
    OBVIOUS
  <2>2. y.pairing = [latest |-> none, fresh |-> {}, timer |-> FALSE]
    BY <1>9, <2>1 DEF Xy!NoPairing
  <2>3. y.pairing.latest = none /\ y.pairing.fresh = {} /\ ~y.pairing.timer
    BY ONLY <2>2
  <2>4. \A a \in Xy!Axes : none[a].t = 0
    BY ONLY <2>1 DEF Xy!NoSample
  <2> QED BY <1>9, <2>3, <2>4
<1>11. \A a \in Xy!Axes : AxisSound(y, a)
  <2>1. x.clock \in Nat
    BY DEF Charts
  <2> SUFFICES ASSUME NEW a \in Xy!Axes PROVE AxisSound(y, a)
    OBVIOUS
  <2>2. y.last[a] <= y.clock
    BY <1>9, <1>10, <2>1
  <2>3. y.pairing.latest[a].t = 0 /\ y.last[a] = 0 /\ a \notin y.pairing.fresh
    BY <1>10
  <2>4. PICK l, r : l = y.pairing.latest[a] /\ r = y.snap[Xy!SourceOf(y.config, a)]
    OBVIOUS
  <2>5. Held(0, r)
    <3>1. Xy!SourceOf(x.config, a) \in Sources
      BY DEF Charts, Configs, Xy!SourceOf
    <3>2. r \in Readings
      BY <1>9, <2>4, <3>1 DEF Charts
    <3> QED BY <3>2 DEF Held, Readings
  <2>6. l.t = 0
    BY ONLY <2>3, <2>4
  <2> QED BY ONLY <2>2, <2>3, <2>4, <2>5, <2>6 DEF AxisSound
<1>12. /\ Recorded(y.points, y, y.config) /\ Recorded(y.record.points, y, y.record)
       /\ \A a \in Xy!Axes : AxisAdvances(y, a) /\ AxisLooked(y, a)
  BY <1>9 DEF Recorded, Ordered, From, NotAhead, AxisAdvances, AxisLooked
<1>13. ChartSound(y, A) /\ Shown(y)
  BY <1>6, <1>7, <1>9, <1>10, <1>11, <1>12, <1>4 DEF ChartSound, Clean, Shown
<1>14. Xy!Cleared(x) = y
  BY <1>1, <1>8 DEF Xy!Cleared
<1> QED BY <1>9, <1>10, <1>13, <1>14 DEF SameChart

(* A snapshot is looked at: from then on no pair is younger than it.       *)
Looked(x, a) ==
  LET t == x.snap[Xy!SourceOf(x.config, a)].t IN [x EXCEPT !.last[a] = IF t > @ THEN t ELSE @]

LEMMA LookedSound ==
  ASSUME NEW x, NEW A, A \subseteq Xy!Axes, NEW a \in Xy!Axes, ChartSound(x, A), x.open
  PROVE  LET y == Looked(x, a) t == x.snap[Xy!SourceOf(x.config, a)].t IN
           /\ ChartSound(y, A \union {a}) /\ SameChart(x, y)
           /\ y.points = x.points /\ y.record = x.record /\ y.pairing = x.pairing /\ y.mixed = x.mixed
           /\ y.last[a] = (IF t > x.last[a] THEN t ELSE x.last[a])
<1> PICK t, y : t = x.snap[Xy!SourceOf(x.config, a)].t /\ y = Looked(x, a)
  OBVIOUS
<1>0. t = x.snap[Xy!SourceOf(x.config, a)].t /\ y = [x EXCEPT !.last[a] = IF t > @ THEN t ELSE @]
  BY DEF Looked
<1>1. x \in Charts /\ x.last \in [Xy!Axes -> Nat]
  BY DEF ChartSound, Charts
<1>2. Xy!SourceOf(x.config, a) \in Sources /\ t \in Nat /\ t <= x.clock /\ x.clock \in Nat
  <2>1. Xy!SourceOf(x.config, a) \in Sources
    BY <1>1 DEF Charts, Configs, Xy!SourceOf
  <2> QED BY <1>0, <1>1, <2>1 DEF Charts, Readings, ChartSound
<1>3. PICK last : last = [x.last EXCEPT ![a] = IF t > @ THEN t ELSE @]
  OBVIOUS
<1>4. /\ last \in [Xy!Axes -> Nat] /\ \A b \in Xy!Axes : x.last[b] <= last[b] /\ last[b] \in Nat
      /\ t <= last[a] /\ \A b \in Xy!Axes \ {a} : last[b] = x.last[b]
      /\ last[a] = (IF t > x.last[a] THEN t ELSE x.last[a])
  BY <1>1, <1>2, <1>3
<1>5. y = [x EXCEPT !.last = last]
  BY <1>0, <1>1, <1>3 DEF Charts
<1>6. /\ y \in Charts /\ y.points = x.points /\ y.record = x.record /\ y.pairing = x.pairing /\ y.mixed = x.mixed
      /\ y.open = x.open /\ y.config = x.config /\ y.clock = x.clock /\ y.snap = x.snap /\ y.last = last
  BY <1>1, <1>4, <1>5 DEF Charts
<1>7. ASSUME NEW b \in Xy!Axes PROVE AxisSound(y, b)
  <2>1. AxisSound(x, b) /\ last[b] <= x.clock /\ x.last[b] <= last[b]
    BY <1>2, <1>4 DEF ChartSound, AxisSound
  <2>2. x.pairing.latest[b].t \in Nat /\ x.last[b] \in Nat /\ last[b] \in Nat
    BY <1>1, <1>4 DEF Charts, Pairings, Samples
  <2>3. x.pairing.latest[b].t <= last[b]
    BY <2>1, <2>2 DEF AxisSound
  <2> QED BY <1>6, <2>1, <2>3 DEF AxisSound
<1>8. ASSUME ~y.mixed
      PROVE  /\ Recorded(y.points, y, y.config) /\ Recorded(y.record.points, y, y.record)
             /\ \A b \in Xy!Axes : AxisAdvances(y, b)
             /\ \A b \in A \union {a} : AxisLooked(y, b)
  <2>1. /\ Recorded(x.points, x, x.config) /\ Recorded(x.record.points, x, x.record)
        /\ \A b \in Xy!Axes : AxisAdvances(x, b)
        /\ \A b \in A : AxisLooked(x, b)
    BY <1>6, <1>8 DEF ChartSound
  <2>2. x.points \in Seq(PairsOf) /\ x.record.points \in Seq(PairsOf)
    BY <1>1 DEF Charts, Records
  <2>3. Recorded(y.points, y, y.config) /\ Recorded(y.record.points, y, y.record)
    <3>1. Recorded(x.points, y, x.config)
      BY ONLY <1>6, <2>1, <2>2, RecordedAs
    <3>2. Recorded(x.record.points, y, x.record)
      BY ONLY <1>6, <2>1, <2>2, RecordedAs
    <3> QED BY ONLY <1>6, <3>1, <3>2
  <2>4. \A b \in Xy!Axes : AxisAdvances(y, b)
    BY <1>6, <2>1 DEF AxisAdvances
  <2>5. \A i \in DOMAIN x.points : x.points[i][a].t \in Nat /\ (t = 0 \/ x.points[i][a].t <= t)
    <3>1. \A i \in DOMAIN x.points : x.points[i] \in PairsOf
      BY <2>2
    <3>2. \A i \in DOMAIN x.points : Held(x.points[i][a].t, x.snap[Xy!SourceOf(x.config, a)])
      BY <2>1 DEF Recorded, NotAhead, Xy!SourceOf, Xy!Axes
    <3> QED BY <1>0, <3>1, <3>2 DEF Held, PairsOf, Samples, Xy!Axes
  <2>6. AxisLooked(y, a)
    <3>1. \A i \in DOMAIN x.points : t = 0 \/ x.points[i][a].t <= last[a]
      BY <1>2, <1>4, <2>5
    <3> QED BY <1>0, <1>6, <3>1 DEF AxisLooked
  <2>7. ASSUME NEW b \in A, b # a PROVE AxisLooked(y, b)
    <3>1. AxisLooked(x, b) /\ last[b] = x.last[b]
      BY <1>4, <2>1, <2>7
    <3> QED BY ONLY <1>6, <3>1 DEF AxisLooked
  <2> QED BY <2>3, <2>4, <2>6, <2>7
<1>9. ChartSound(y, A \union {a})
  BY <1>6, <1>7, <1>8 DEF ChartSound
<1> QED BY <1>0, <1>4, <1>6, <1>9 DEF SameChart

LEMMA SampleIs ==
  ASSUME NEW x, NEW A, NEW a \in Xy!Axes, ChartSound(x, A)
  PROVE  /\ Xy!SourceOf(x.config, a) \in Sources
         /\ x.snap[Xy!SourceOf(x.config, a)] \in Readings
         /\ x.snap[Xy!SourceOf(x.config, a)].t \in Nat /\ x.snap[Xy!SourceOf(x.config, a)].t <= x.clock
         /\ [t |-> x.snap[Xy!SourceOf(x.config, a)].t, of |-> Xy!SourceOf(x.config, a)] \in Samples
<1>1. x \in Charts
  BY DEF ChartSound
<1>2. Xy!SourceOf(x.config, a) \in Sources
  BY <1>1 DEF Charts, Configs, Xy!SourceOf
<1>3. x.snap[Xy!SourceOf(x.config, a)] \in Readings
  BY <1>1, <1>2 DEF Charts
<1> QED BY <1>2, <1>3 DEF ChartSound, Samples, Readings

(* The sample of an axis is put where the next pair is made of: as a seed, *)
(* when no pair is made of it yet, or as a fresh one, younger than all.    *)
Placed(x, y, a, sample, fresh, timer) ==
  /\ y \in Charts /\ y.open = x.open /\ y.config = x.config /\ y.snap = x.snap /\ y.clock = x.clock
  /\ y.points = x.points /\ y.record = x.record /\ y.mixed = x.mixed /\ y.last = x.last
  /\ y.pairing.latest = [x.pairing.latest EXCEPT ![a] = sample]
  /\ y.pairing.fresh = fresh /\ y.pairing.timer = timer

MayPlace(x, a, sample, fresh, timer) ==
  /\ sample \in Samples /\ sample.t # 0 /\ sample.t <= x.last[a]
  /\ sample.of = Xy!SourceOf(x.config, a) /\ sample.t = x.snap[Xy!SourceOf(x.config, a)].t
  /\ fresh \in {x.pairing.fresh, x.pairing.fresh \union {a}} /\ timer \in BOOLEAN /\ (timer => fresh # {})
  /\ ~x.mixed => \A i \in DOMAIN x.points : IF a \in fresh THEN x.points[i][a].t < sample.t
                                             ELSE x.points[i][a].t <= sample.t

LEMMA LatestSound ==
  ASSUME NEW x, NEW A, A \subseteq Xy!Axes, NEW a \in A, ChartSound(x, A), x.open,
         NEW sample, NEW fresh, NEW timer, MayPlace(x, a, sample, fresh, timer),
         NEW y, Placed(x, y, a, sample, fresh, timer)
  PROVE  /\ ChartSound(y, A) /\ SameChart(x, y) /\ y.points = x.points /\ y.record = x.record /\ y.mixed = x.mixed
         /\ y.pairing.fresh = fresh
<1>1. x \in Charts /\ x.pairing \in Pairings
  BY DEF ChartSound, Charts
<1> /\ sample \in Samples /\ sample.t # 0 /\ sample.t <= x.last[a]
    /\ sample.of = Xy!SourceOf(x.config, a) /\ sample.t = x.snap[Xy!SourceOf(x.config, a)].t
    /\ fresh \in {x.pairing.fresh, x.pairing.fresh \union {a}} /\ timer \in BOOLEAN /\ (timer => fresh # {})
    /\ ~x.mixed => \A i \in DOMAIN x.points : IF a \in fresh THEN x.points[i][a].t < sample.t
                                               ELSE x.points[i][a].t <= sample.t
  BY DEF MayPlace
<1>2. PICK latest : latest = [x.pairing.latest EXCEPT ![a] = sample]
  OBVIOUS
<1>3. latest \in [Xy!Axes -> Samples] /\ latest[a] = sample /\ \A b \in Xy!Axes \ {a} : latest[b] = x.pairing.latest[b]
  BY <1>1, <1>2 DEF Pairings
<1>4. /\ y \in Charts /\ y.points = x.points /\ y.record = x.record /\ y.mixed = x.mixed
      /\ y.open = x.open /\ y.config = x.config /\ y.clock = x.clock /\ y.snap = x.snap /\ y.last = x.last
      /\ y.pairing.latest = latest /\ y.pairing.fresh = fresh /\ y.pairing.timer = timer
  BY <1>2 DEF Placed
<1>5. ASSUME NEW b \in Xy!Axes PROVE AxisSound(y, b)
  <2>1. AxisSound(x, b)
    BY DEF ChartSound
  <2>2. CASE b = a
    <3>1. PICK r : r = x.snap[Xy!SourceOf(x.config, a)]
      OBVIOUS
    <3>2. Held(sample.t, r) /\ x.last[a] <= x.clock
      <4>1. sample.t \in Nat
        BY DEF Samples
      <4> QED BY <2>1, <2>2, <3>1, <4>1 DEF Held, AxisSound
    <3>3. y.pairing.latest[a] = sample /\ y.last = x.last
      BY <1>3, <1>4
    <3> QED BY <1>4, <2>2, <3>1, <3>2, <3>3 DEF AxisSound
  <2>3. CASE b # a
    <3>1. y.pairing.latest[b] = x.pairing.latest[b] /\ (b \in fresh => b \in x.pairing.fresh)
      BY <1>3, <1>4, <2>3
    <3>2. y.pairing.fresh = fresh
      BY <1>4
    <3> QED BY ONLY <1>4, <2>1, <3>1, <3>2 DEF AxisSound
  <2> QED BY <2>2, <2>3
<1>6. ASSUME ~y.mixed
      PROVE  /\ Recorded(y.points, y, y.config) /\ Recorded(y.record.points, y, y.record)
             /\ \A b \in Xy!Axes : AxisAdvances(y, b)
             /\ \A b \in A : AxisLooked(y, b)
  <2>1. /\ Recorded(x.points, x, x.config) /\ Recorded(x.record.points, x, x.record)
        /\ \A b \in Xy!Axes : AxisAdvances(x, b)
        /\ \A b \in A : AxisLooked(x, b)
    BY <1>4, <1>6 DEF ChartSound
  <2>2. x.points \in Seq(PairsOf) /\ x.record.points \in Seq(PairsOf)
    BY <1>1 DEF Charts, Records
  <2>3. Recorded(y.points, y, y.config) /\ Recorded(y.record.points, y, y.record)
    <3>1. Recorded(x.points, y, x.config)
      BY ONLY <1>4, <2>1, <2>2, RecordedAs
    <3>2. Recorded(x.record.points, y, x.record)
      BY ONLY <1>4, <2>1, <2>2, RecordedAs
    <3> QED BY ONLY <1>4, <3>1, <3>2
  <2>4. ASSUME NEW b \in Xy!Axes PROVE AxisAdvances(y, b)
    <3>1. AxisAdvances(x, b) /\ y.pairing.fresh = fresh /\ y.pairing.latest = latest
      BY <1>4, <2>1
    <3>2. CASE b = a
      <4>1. \A i \in DOMAIN x.points : x.points[i] \in PairsOf
        BY <2>2
      <4>2. \A i \in DOMAIN x.points : x.points[i][a].t \in Nat
        BY <4>1 DEF PairsOf, Samples, Xy!Axes
      <4>3. sample.t \in Nat
        BY DEF Samples
      <4>4. \A i \in DOMAIN x.points : x.points[i][a].t <= sample.t /\ (a \in fresh => x.points[i][a].t < sample.t)
        BY <1>4, <1>6, <4>2, <4>3
      <4> QED BY ONLY <1>3, <1>4, <3>1, <3>2, <4>4 DEF AxisAdvances
    <3>3. CASE b # a
      <4>1. latest[b] = x.pairing.latest[b] /\ (b \in fresh => b \in x.pairing.fresh)
        BY <1>3, <3>3
      <4> QED BY ONLY <1>4, <3>1, <4>1 DEF AxisAdvances
    <3> QED BY <3>2, <3>3
  <2>5. \A b \in A : AxisLooked(y, b)
    BY <1>4, <2>1 DEF AxisLooked
  <2> QED BY <2>3, <2>4, <2>5
<1>7. ChartSound(y, A)
  BY <1>4, <1>5, <1>6 DEF ChartSound
<1> QED BY <1>4, <1>7 DEF SameChart

LEMMA ReadSound ==
  ASSUME Xy!LimitsAreSizes, NEW x, NEW A, A \subseteq Xy!Axes, NEW a \in Xy!Axes, NEW seed \in BOOLEAN,
         ChartSound(x, A), x.open, seed => x.pairing.fresh = {}, ~seed => a \in A
  PROVE  /\ ChartSound(Xy!Read(x, a, seed), A \union {a}) /\ SameChart(x, Xy!Read(x, a, seed))
         /\ (Shown(x) \/ x.snap[Xy!SourceOf(x.config, a)].disconnected) => Shown(Xy!Read(x, a, seed))
         /\ seed => Xy!Read(x, a, seed).pairing.fresh = {}
<1>1. PICK source, snapshot, sample, y :
        /\ source = Xy!SourceOf(x.config, a) /\ snapshot = x.snap[source] /\ sample = [t |-> snapshot.t, of |-> source]
        /\ y = [x EXCEPT !.last[a] = IF snapshot.t > @ THEN snapshot.t ELSE @]
  OBVIOUS
<1>2. /\ source \in Sources /\ snapshot \in Readings /\ sample \in Samples /\ snapshot.t \in Nat /\ snapshot.t <= x.clock
      /\ sample.t = snapshot.t /\ sample.of = source
  BY <1>1, SampleIs
<1>3. x \in Charts /\ x.pairing \in Pairings /\ x.last \in [Xy!Axes -> Nat] /\ x.points \in Seq(PairsOf)
  BY DEF ChartSound, Charts
<1>4. /\ ChartSound(y, A \union {a}) /\ SameChart(x, y)
      /\ y.points = x.points /\ y.record = x.record /\ y.pairing = x.pairing /\ y.mixed = x.mixed
      /\ y.last[a] = (IF snapshot.t > x.last[a] THEN snapshot.t ELSE x.last[a])
  <2>1. y = Looked(x, a) /\ snapshot.t = x.snap[Xy!SourceOf(x.config, a)].t
    BY <1>1 DEF Looked
  <2> QED BY <2>1, LookedSound
<1>5. Shown(x) => Shown(y)
  BY <1>4 DEF Shown, SameChart
<1>6. snapshot.t <= y.last[a] /\ y.open /\ y.config = x.config /\ y.snap = x.snap
  <2>1. x.last[a] \in Nat
    BY <1>3
  <2> QED BY <1>2, <1>4, <2>1 DEF SameChart
<1>7. CASE snapshot.disconnected
  <2>1. Xy!Read(x, a, seed) = Xy!Cleared(x)
    BY <1>1, <1>7 DEF Xy!Read
  <2>2. /\ ChartSound(Xy!Cleared(x), A \union {a}) /\ Shown(Xy!Cleared(x)) /\ SameChart(x, Xy!Cleared(x))
        /\ Xy!Cleared(x).pairing.fresh = {}
    <3>1. \A s \in Sources : x.snap[s].t <= x.clock /\ (x.snap[s].disconnected => x.snap[s].t = 0)
      BY DEF ChartSound
    <3>2. A \union {a} \subseteq Xy!Axes
      OBVIOUS
    <3> QED BY <1>3, <3>1, <3>2, ClearedSound
  <2> QED BY <2>1, <2>2
<1>8. CASE ~snapshot.disconnected /\ (snapshot.t = 0 \/ snapshot.error)
  <2>1. Xy!Read(x, a, seed) = y
    BY <1>1, <1>8 DEF Xy!Read
  <2> QED BY <1>1, <1>4, <1>5, <1>8, <2>1
<1>9. CASE ~snapshot.disconnected /\ snapshot.t # 0 /\ ~snapshot.error /\ seed
  <2>1. Xy!Read(x, a, seed) = Xy!Seed(y, a, sample)
    BY <1>1, <1>9 DEF Xy!Read
  <2>2. PICK z : z = Xy!Seed(y, a, sample)
    OBVIOUS
  <2>3. Placed(y, z, a, sample, y.pairing.fresh, y.pairing.timer)
    <3>1. y \in Charts /\ y.pairing \in Pairings
      BY <1>4 DEF ChartSound, Charts
    <3>2. PICK p : p = [y.pairing EXCEPT !.latest[a] = sample]
      OBVIOUS
    <3>3. p \in Pairings
      BY <1>2, <3>1, <3>2 DEF Pairings
    <3>4. /\ p.latest = [y.pairing.latest EXCEPT ![a] = sample]
          /\ p.fresh = y.pairing.fresh /\ p.timer = y.pairing.timer
      BY <3>1, <3>2 DEF Pairings
    <3>5. z = [y EXCEPT !.pairing = p]
      BY <2>2, <3>1, <3>2 DEF Xy!Seed, Charts
    <3> QED BY <3>1, <3>3, <3>4, <3>5 DEF Placed, Charts
  <2>4. y.pairing.fresh = {} /\ y.pairing.timer \in BOOLEAN /\ (y.pairing.timer => y.pairing.fresh # {})
    BY <1>3, <1>4, <1>9 DEF ChartSound, Pairings
  <2>5. ~y.mixed => \A i \in DOMAIN y.points : y.points[i][a].t <= sample.t
    <3>1. ASSUME ~y.mixed PROVE \A i \in DOMAIN y.points : Held(y.points[i][a].t, y.snap[Xy!SourceOf(y.config, a)])
      <4>1. NotAhead(y.points, y, y.config)
        BY <1>4, <3>1 DEF ChartSound, Recorded
      <4> QED BY <4>1 DEF NotAhead, Xy!SourceOf, Xy!Axes
    <3> QED BY <1>1, <1>2, <1>6, <1>9, <3>1 DEF Held
  <2>6. /\ ChartSound(z, A \union {a}) /\ SameChart(y, z) /\ z.points = y.points /\ z.record = y.record /\ z.mixed = y.mixed
        /\ z.pairing.fresh = y.pairing.fresh
    <3>1. A \union {a} \subseteq Xy!Axes /\ a \in A \union {a} /\ sample.t # 0 /\ sample.t <= y.last[a]
      BY <1>2, <1>6, <1>9
    <3>2. sample.of = Xy!SourceOf(y.config, a) /\ sample.t = y.snap[Xy!SourceOf(y.config, a)].t
      BY <1>1, <1>2, <1>6
    <3>3. ~y.mixed => \A i \in DOMAIN y.points : IF a \in y.pairing.fresh THEN y.points[i][a].t < sample.t
                                                 ELSE y.points[i][a].t <= sample.t
      BY <2>4, <2>5
    <3>4. PICK B, fresh, timer : B = A \union {a} /\ fresh = y.pairing.fresh /\ timer = y.pairing.timer
      OBVIOUS
    <3>5. /\ B \subseteq Xy!Axes /\ a \in B /\ sample \in Samples /\ ChartSound(y, B) /\ y.open
          /\ fresh \in {y.pairing.fresh, y.pairing.fresh \union {a}} /\ timer \in BOOLEAN /\ (timer => fresh # {})
      BY <1>2, <1>4, <1>6, <2>4, <3>1, <3>4
    <3>6. ~y.mixed => \A i \in DOMAIN y.points : IF a \in fresh THEN y.points[i][a].t < sample.t
                                                 ELSE y.points[i][a].t <= sample.t
      BY ONLY <3>3, <3>4
    <3>7. Placed(y, z, a, sample, fresh, timer)
      BY ONLY <2>3, <3>4
    <3>8. /\ ChartSound(z, B) /\ SameChart(y, z) /\ z.points = y.points /\ z.record = y.record /\ z.mixed = y.mixed
          /\ z.pairing.fresh = fresh
      <4>1. MayPlace(y, a, sample, fresh, timer)
        BY ONLY <3>1, <3>2, <3>5, <3>6 DEF MayPlace
      <4> QED BY ONLY <3>5, <3>7, <4>1, LatestSound
    <3> QED BY ONLY <3>4, <3>8
  <2>7. SameChart(x, z) /\ (Shown(y) => Shown(z)) /\ z.pairing.fresh = {}
    BY ONLY <1>4, <2>4, <2>6 DEF Shown, SameChart
  <2> QED BY <1>1, <1>5, <1>9, <2>1, <2>2, <2>6, <2>7
<1>10. CASE ~snapshot.disconnected /\ snapshot.t # 0 /\ ~snapshot.error /\ ~seed /\ ~(snapshot.t > x.last[a])
  <2>1. Xy!Read(x, a, seed) = y
    BY <1>1, <1>10 DEF Xy!Read
  <2> QED BY <1>1, <1>4, <1>5, <1>10, <2>1
<1>11. CASE ~snapshot.disconnected /\ snapshot.t # 0 /\ ~snapshot.error /\ ~seed /\ snapshot.t > x.last[a]
  <2>1. Xy!Read(x, a, seed) = Xy!Update(y, a, sample)
    BY <1>1, <1>11 DEF Xy!Read
  <2>2. PICK fresh : fresh = y.pairing.fresh \union {a}
    OBVIOUS
  <2>3. y \in Charts /\ y.pairing \in Pairings /\ A \union {a} = A /\ a \in A
    BY <1>4, <1>11 DEF ChartSound, Charts
  <2>4. ~y.mixed => \A i \in DOMAIN y.points : y.points[i][a].t < sample.t
    <3> SUFFICES ASSUME ~y.mixed, NEW i \in DOMAIN x.points PROVE x.points[i][a].t < sample.t
      BY <1>4
    <3>1. AxisLooked(x, a)
      BY <1>4, <2>3 DEF ChartSound
    <3>2. x.points[i][a].t <= x.last[a] \/ x.points[i][a].t < snapshot.t
      BY <1>1, <1>11, <3>1 DEF AxisLooked
    <3>3. x.points[i][a].t \in Nat
      <4>1. x.points[i] \in PairsOf
        BY <1>3
      <4> QED BY <4>1 DEF PairsOf, Samples, Xy!Axes
    <3>4. x.last[a] \in Nat
      BY <1>3
    <3> QED BY <1>2, <1>11, <3>2, <3>3, <3>4
  <2>5. ASSUME NEW timer \in BOOLEAN, NEW z, Placed(y, z, a, sample, fresh, timer)
        PROVE  /\ ChartSound(z, A) /\ SameChart(y, z) /\ z.points = y.points /\ z.record = y.record
               /\ z.mixed = y.mixed /\ z.pairing.fresh = fresh
    <3>1. sample.t # 0 /\ sample.t <= y.last[a] /\ ChartSound(y, A)
      BY <1>2, <1>4, <1>6, <1>11, <2>3
    <3>2. sample.of = Xy!SourceOf(y.config, a) /\ sample.t = y.snap[Xy!SourceOf(y.config, a)].t
      BY <1>1, <1>2, <1>6
    <3>3. ~y.mixed => \A i \in DOMAIN y.points : IF a \in fresh THEN y.points[i][a].t < sample.t
                                                 ELSE y.points[i][a].t <= sample.t
      BY <2>2, <2>4
    <3>4. fresh # {} /\ fresh \in {y.pairing.fresh, y.pairing.fresh \union {a}}
      BY <2>2
    <3>5. A \subseteq Xy!Axes
      OBVIOUS
    <3>6. MayPlace(y, a, sample, fresh, timer)
      BY ONLY <1>2, <2>5, <3>1, <3>2, <3>3, <3>4 DEF MayPlace
    <3> QED BY ONLY <1>6, <2>3, <2>5, <3>1, <3>5, <3>6, LatestSound
  <2>6. PICK q : q = [y EXCEPT !.pairing.latest[a] = sample, !.pairing.fresh = @ \union {a}]
    OBVIOUS
  <2>7. Placed(y, q, a, sample, fresh, y.pairing.timer)
    <3>1. PICK p : p = [y.pairing EXCEPT !.latest[a] = sample, !.fresh = @ \union {a}]
      OBVIOUS
    <3>2. p \in Pairings
      BY <1>2, <2>3, <3>1 DEF Pairings
    <3>3. p.latest = [y.pairing.latest EXCEPT ![a] = sample] /\ p.fresh = fresh /\ p.timer = y.pairing.timer
      BY <2>2, <2>3, <3>1 DEF Pairings
    <3>4. q = [y EXCEPT !.pairing = p]
      BY <2>3, <2>6, <3>1 DEF Charts, Pairings
    <3> QED BY <2>3, <3>2, <3>3, <3>4 DEF Placed, Charts
  <2>8. y.pairing.timer \in BOOLEAN
    BY <2>3 DEF Pairings
  <2>9. /\ ChartSound(q, A) /\ SameChart(y, q) /\ q.points = y.points /\ q.record = y.record
        /\ q.mixed = y.mixed /\ q.pairing.fresh = fresh
    BY <2>5, <2>7, <2>8
  <2>10. Xy!Update(y, a, sample) = IF q.pairing.fresh = Xy!Axes THEN Xy!Emit(q) ELSE [q EXCEPT !.pairing.timer = TRUE]
    BY <2>6 DEF Xy!Update
  <2>11. CASE fresh = Xy!Axes
    <3>1. \A b \in Xy!Axes : q.pairing.latest[b].t # 0
      BY <2>9, <2>11 DEF ChartSound, AxisSound
    <3>2. q.open /\ q.pairing.fresh # {}
      BY <1>6, <2>9, <2>11 DEF SameChart
    <3>3. ChartSound(Xy!Emit(q), A) /\ Shown(Xy!Emit(q)) /\ SameChart(q, Xy!Emit(q))
      BY <2>9, <3>1, <3>2, EmitSound
    <3> QED BY <1>4, <1>11, <2>1, <2>3, <2>9, <2>10, <2>11, <3>3 DEF SameChart
  <2>12. CASE fresh # Xy!Axes
    <3>1. PICK z : z = [q EXCEPT !.pairing.timer = TRUE]
      OBVIOUS
    <3>2. Placed(y, z, a, sample, fresh, TRUE)
      <4>1. q \in Charts /\ q.pairing \in Pairings
        BY <2>7 DEF Placed, Charts
      <4>2. PICK p : p = [q.pairing EXCEPT !.timer = TRUE]
        OBVIOUS
      <4>3. p \in Pairings /\ p.latest = q.pairing.latest /\ p.fresh = q.pairing.fresh /\ p.timer = TRUE
        BY <4>1, <4>2 DEF Pairings
      <4>4. z = [q EXCEPT !.pairing = p]
        BY <3>1, <4>1, <4>2 DEF Charts
      <4> QED BY <2>7, <4>1, <4>3, <4>4 DEF Placed, Charts
    <3>3. /\ ChartSound(z, A) /\ SameChart(y, z) /\ z.points = y.points /\ z.record = y.record
          /\ z.mixed = y.mixed /\ z.pairing.fresh = fresh
      BY <2>5, <3>2
    <3>4. SameChart(x, z) /\ (Shown(y) => Shown(z))
      BY ONLY <1>4, <3>3 DEF Shown, SameChart
    <3> QED BY <1>1, <1>5, <1>11, <2>1, <2>3, <2>9, <2>10, <2>12, <3>1, <3>3, <3>4
  <2> QED BY <2>11, <2>12
<1> QED BY <1>7, <1>8, <1>9, <1>10, <1>11

-----------------------------------------------------------------------------
(* Collecting, and telling a chart of a snapshot.                          *)

LEMMA NoPairingIs ==
  /\ Xy!NoPairing \in Pairings /\ Xy!NoPairing.fresh = {} /\ ~Xy!NoPairing.timer
  /\ \A a \in Xy!Axes : Xy!NoPairing.latest[a].t = 0
<1>1. PICK none : none = [a \in Xy!Axes |-> Xy!NoSample]
  OBVIOUS
<1>2. Xy!NoPairing = [latest |-> none, fresh |-> {}, timer |-> FALSE]
  BY <1>1 DEF Xy!NoPairing
<1>3. none \in [Xy!Axes -> Samples] /\ \A a \in Xy!Axes : none[a].t = 0
  BY <1>1 DEF Xy!NoSample, Samples
<1>4. Xy!NoPairing \in Pairings
  BY <1>2, <1>3 DEF Pairings
<1> QED BY ONLY <1>2, <1>3, <1>4

(* A chart that starts with what is stored, its pairing empty.             *)
MayStart(x, points) ==
  /\ x \in Charts /\ points \in Seq(PairsOf)
  /\ \A s \in Sources : x.snap[s].t <= x.clock /\ (x.snap[s].disconnected => x.snap[s].t = 0)
  /\ ~x.mixed => Recorded(points, x, x.config) /\ Recorded(x.record.points, x, x.record)
Started(x, points) == [x EXCEPT !.points = points, !.pairing = Xy!NoPairing, !.last = [a \in Xy!Axes |-> 0]]

LEMMA StartSound ==
  ASSUME NEW x, NEW points, MayStart(x, points), x.open \/ points = <<>>
  PROVE  LET y == Started(x, points) IN
           /\ ChartSound(y, {}) /\ SameChart(x, y) /\ y.pairing.fresh = {} /\ y.record = x.record
           /\ (x.mixed \/ Xy!Load(x.record, x.config) = points) => Shown(y)
           /\ points = <<>> => ChartSound(y, Xy!Axes)
<1>1. PICK y, zero : zero = [a \in Xy!Axes |-> 0] /\ y = Started(x, points)
  OBVIOUS
<1>2. zero \in [Xy!Axes -> Nat] /\ \A a \in Xy!Axes : zero[a] = 0
  BY <1>1
<1>3. y = [x EXCEPT !.points = points, !.pairing = Xy!NoPairing, !.last = zero]
  BY <1>1 DEF Started
<1>4. x \in Charts /\ points \in Seq(PairsOf)
  BY DEF MayStart
<1>5. /\ y \in Charts /\ y.points = points /\ y.record = x.record /\ y.pairing = Xy!NoPairing /\ y.mixed = x.mixed
      /\ y.open = x.open /\ y.config = x.config /\ y.clock = x.clock /\ y.snap = x.snap /\ y.last = zero
  BY <1>2, <1>3, <1>4, NoPairingIs DEF Charts
<1>6. /\ y.pairing.fresh = {} /\ ~y.pairing.timer
      /\ \A a \in Xy!Axes : y.pairing.latest[a].t = 0 /\ y.last[a] = 0
  BY <1>2, <1>5, NoPairingIs
<1>7. ASSUME NEW a \in Xy!Axes PROVE AxisSound(y, a)
  <2>1. PICK r : r = y.snap[Xy!SourceOf(y.config, a)]
    OBVIOUS
  <2>2. y.clock \in Nat /\ r \in Readings
    <3>1. Xy!SourceOf(y.config, a) \in Sources
      BY <1>5 DEF Charts, Configs, Xy!SourceOf
    <3> QED BY <1>5, <2>1, <3>1 DEF Charts
  <2>3. Held(0, r)
    BY <2>2 DEF Held, Readings
  <2>4. y.last[a] = 0 /\ y.pairing.latest[a].t = 0 /\ y.pairing.fresh = {}
    BY <1>6
  <2> QED BY <2>1, <2>2, <2>3, <2>4 DEF AxisSound
<1>8. ASSUME ~y.mixed
      PROVE  /\ Recorded(y.points, y, y.config) /\ Recorded(y.record.points, y, y.record)
             /\ \A a \in Xy!Axes : AxisAdvances(y, a)
  <2>1. Recorded(points, x, x.config) /\ Recorded(x.record.points, x, x.record) /\ x.record.points \in Seq(PairsOf)
    BY <1>4, <1>5, <1>8 DEF MayStart, Charts, Records
  <2>2. Recorded(points, y, x.config)
    BY ONLY <1>4, <1>5, <2>1, RecordedAs
  <2>3. Recorded(x.record.points, y, x.record)
    BY ONLY <1>5, <2>1, RecordedAs
  <2>4. \A a \in Xy!Axes : AxisAdvances(y, a)
    BY <1>6 DEF AxisAdvances
  <2> QED BY ONLY <1>5, <2>2, <2>3, <2>4
<1>9. points = <<>> => \A a \in Xy!Axes : AxisLooked(y, a)
  BY <1>5 DEF AxisLooked
<1>10. ~y.open => Clean(y)
  BY <1>1, <1>5 DEF Clean
<1>11. \A s \in Sources : y.snap[s].t <= y.clock /\ (y.snap[s].disconnected => y.snap[s].t = 0)
  BY <1>5 DEF MayStart
<1>12. ChartSound(y, {}) /\ (points = <<>> => ChartSound(y, Xy!Axes))
  BY <1>5, <1>6, <1>7, <1>8, <1>9, <1>10, <1>11 DEF ChartSound
<1>13. (x.mixed \/ Xy!Load(x.record, x.config) = points) => Shown(y)
  BY <1>5 DEF Shown
<1> QED BY <1>1, <1>5, <1>6, <1>12, <1>13 DEF SameChart

LEMMA CollectSound ==
  ASSUME Xy!LimitsAreSizes, NEW x, NEW points, MayStart(x, points), x.open,
         x.mixed \/ Xy!Load(x.record, x.config) = points
  PROVE  /\ ChartSound(Xy!Collect(x, points), Xy!Axes) /\ Shown(Xy!Collect(x, points))
         /\ SameChart(x, Xy!Collect(x, points))
<1>1. PICK y : y = Started(x, points)
  OBVIOUS
<1>2. ChartSound(y, {}) /\ Shown(y) /\ SameChart(x, y) /\ y.pairing.fresh = {} /\ y.open
  BY <1>1, StartSound DEF SameChart
<1>3. PICK z : z = Xy!Read(y, "x", TRUE)
  OBVIOUS
<1>4. "x" \in Xy!Axes /\ "y" \in Xy!Axes /\ TRUE \in BOOLEAN /\ {} \subseteq Xy!Axes /\ {"x"} \subseteq Xy!Axes
  BY DEF Xy!Axes
<1>5. ChartSound(z, {} \union {"x"}) /\ SameChart(y, z) /\ Shown(z) /\ z.pairing.fresh = {}
  BY <1>2, <1>3, <1>4, ReadSound
<1>6. ChartSound(z, {"x"}) /\ z.open
  <2>1. {} \union {"x"} = {"x"}
    OBVIOUS
  <2> QED BY <1>2, <1>5, <2>1 DEF SameChart
<1>7. PICK q : q = Xy!Read(z, "y", TRUE)
  OBVIOUS
<1>8. ChartSound(q, {"x"} \union {"y"}) /\ SameChart(z, q) /\ Shown(q)
  BY <1>4, <1>5, <1>6, <1>7, ReadSound
<1>9. {"x"} \union {"y"} = Xy!Axes
  BY DEF Xy!Axes
<1>10. Xy!Collect(x, points) = q
  BY <1>1, <1>3, <1>7 DEF Xy!Collect, Started
<1> QED BY <1>2, <1>5, <1>8, <1>9, <1>10 DEF SameChart

LEMMA ToldSound ==
  ASSUME Xy!LimitsAreSizes, NEW x, NEW s \in Sources, ChartSound(x, Xy!Axes)
  PROVE  /\ ChartSound(Xy!Told(x, s), Xy!Axes) /\ SameChart(x, Xy!Told(x, s))
         /\ x.open /\ (Shown(x) \/ (x.snap[s].disconnected /\ s \in {x.config.x, x.config.y})) => Shown(Xy!Told(x, s))
<1>1. PICK y : y = IF x.open /\ x.config.x = s THEN Xy!Read(x, "x", FALSE) ELSE x
  OBVIOUS
<1>2. PICK z : z = IF y.open /\ y.config.y = s THEN Xy!Read(y, "y", FALSE) ELSE y
  OBVIOUS
<1>3. Xy!Told(x, s) = z
  BY <1>1, <1>2 DEF Xy!Told
<1>4. "x" \in Xy!Axes /\ "y" \in Xy!Axes /\ FALSE \in BOOLEAN /\ Xy!Axes \subseteq Xy!Axes
  BY DEF Xy!Axes
<1>5. Xy!SourceOf(x.config, "x") = x.config.x /\ Xy!SourceOf(y.config, "y") = y.config.y
  BY DEF Xy!SourceOf
<1>6. /\ ChartSound(y, Xy!Axes) /\ SameChart(x, y) /\ (Shown(x) => Shown(y))
      /\ x.open /\ x.config.x = s /\ x.snap[s].disconnected => Shown(y)
  <2>1. CASE x.open /\ x.config.x = s
    <3>1. /\ ChartSound(y, Xy!Axes \union {"x"}) /\ SameChart(x, y)
          /\ (Shown(x) \/ x.snap[Xy!SourceOf(x.config, "x")].disconnected) => Shown(y)
      BY <1>1, <1>4, <2>1, ReadSound
    <3>2. Xy!Axes \union {"x"} = Xy!Axes
      BY <1>4
    <3> QED BY <1>5, <2>1, <3>1, <3>2
  <2>2. CASE ~(x.open /\ x.config.x = s)
    BY <1>1, <2>2 DEF SameChart
  <2> QED BY <2>1, <2>2
<1>7. /\ ChartSound(z, Xy!Axes) /\ SameChart(y, z) /\ (Shown(y) => Shown(z))
      /\ y.open /\ y.config.y = s /\ y.snap[s].disconnected => Shown(z)
  <2>1. CASE y.open /\ y.config.y = s
    <3>1. /\ ChartSound(z, Xy!Axes \union {"y"}) /\ SameChart(y, z)
          /\ (Shown(y) \/ y.snap[Xy!SourceOf(y.config, "y")].disconnected) => Shown(z)
      BY <1>2, <1>4, <1>6, <2>1, ReadSound
    <3>2. Xy!Axes \union {"y"} = Xy!Axes
      BY <1>4
    <3> QED BY <1>5, <2>1, <3>1, <3>2
  <2>2. CASE ~(y.open /\ y.config.y = s)
    BY <1>2, <1>6, <2>2 DEF SameChart
  <2> QED BY <2>1, <2>2
<1> QED BY <1>3, <1>6, <1>7 DEF SameChart

-----------------------------------------------------------------------------
(* The steps.                                                              *)

LEMMA LoadIs ==
  ASSUME NEW x, NEW record \in Records, NEW c \in Configs
  PROVE  /\ Xy!Load(record, c) \in Seq(PairsOf)
         /\ Recorded(record.points, x, record) => Recorded(Xy!Load(record, c), x, c)
<1>1. record.points \in Seq(PairsOf) /\ <<>> \in Seq(PairsOf)
  <2>1. <<>> \in Seq(PairsOf)
    OBVIOUS
  <2>2. record.points \in Seq(PairsOf)
    BY DEF Records
  <2> QED BY <2>1, <2>2
<1>2. CASE record.x = c.x /\ record.y = c.y
  <2>1. Xy!Load(record, c) = record.points
    BY <1>2 DEF Xy!Load
  <2> QED BY <1>1, <1>2, <2>1, RecordedAs
<1>3. CASE ~(record.x = c.x /\ record.y = c.y)
  <2>1. Xy!Load(record, c) = <<>>
    BY <1>3 DEF Xy!Load
  <2> QED BY <1>1, <2>1 DEF Recorded, Ordered, From, NotAhead
<1> QED BY <1>2, <1>3

LEMMA NoRecordIs ==
  /\ Xy!NoRecord \in Records /\ Xy!NoRecord.points = <<>>
  /\ \A x : Recorded(Xy!NoRecord.points, x, Xy!NoRecord)
  /\ \A c : Xy!Load(Xy!NoRecord, c) = <<>>
<1>1. Xy!NoRecord \in Records /\ Xy!NoRecord.points = <<>>
  <2>1. PICK none \in Seq(PairsOf) : none = <<>>
    <3>1. <<>> \in Seq(PairsOf)
      OBVIOUS
    <3> QED BY <3>1
  <2>2. Xy!NoRecord = [x |-> "", y |-> "", points |-> none]
    BY <2>1 DEF Xy!NoRecord
  <2>3. [x |-> "", y |-> "", points |-> none] \in Records
    BY <2>1 DEF Records
  <2> QED BY ONLY <2>1, <2>2, <2>3
<1> QED BY <1>1 DEF Recorded, Ordered, From, NotAhead, Xy!Load

(* Time goes on: every snapshot stays, is lost, or is younger than all.    *)
Later(x, y) ==
  /\ y.clock \in Nat /\ x.clock <= y.clock
  /\ \A s \in Sources :
       /\ y.snap[s].t <= y.clock /\ (y.snap[s].disconnected => y.snap[s].t = 0)
       /\ y.snap[s].t = x.snap[s].t \/ y.snap[s].t = 0 \/ y.snap[s].t > x.clock

LEMMA LaterHeld ==
  ASSUME NEW x \in Charts, NEW y \in Charts, Later(x, y), NEW s \in Sources, NEW t \in Nat, t <= x.clock, Held(t, x.snap[s])
  PROVE  Held(t, y.snap[s]) /\ t <= y.clock
<1>1. x.snap[s] \in Readings /\ y.snap[s] \in Readings /\ x.clock \in Nat /\ y.clock \in Nat
  BY DEF Charts
<1> QED BY <1>1 DEF Later, Held, Readings

LEMMA LaterRecorded ==
  ASSUME NEW x \in Charts, NEW y \in Charts, Later(x, y), NEW points \in Seq(PairsOf), NEW c,
         points # <<>> => c.x \in Sources /\ c.y \in Sources, Recorded(points, x, c)
  PROVE  Recorded(points, y, c)
<1>1. \A i \in DOMAIN points : points[i].x.t \in Nat /\ points[i].y.t \in Nat
  <2>1. \A i \in DOMAIN points : points[i] \in PairsOf
    OBVIOUS
  <2> QED BY <2>1 DEF PairsOf, Samples
<1>2. NotAhead(points, y, c)
  <2> SUFFICES ASSUME NEW i \in DOMAIN points
               PROVE  /\ points[i].x.t <= y.clock /\ Held(points[i].x.t, y.snap[c.x])
                      /\ points[i].y.t <= y.clock /\ Held(points[i].y.t, y.snap[c.y])
    BY DEF NotAhead
  <2>1. c.x \in Sources /\ c.y \in Sources
    OBVIOUS
  <2>2. /\ points[i].x.t <= x.clock /\ Held(points[i].x.t, x.snap[c.x])
        /\ points[i].y.t <= x.clock /\ Held(points[i].y.t, x.snap[c.y])
    BY DEF Recorded, NotAhead
  <2> QED BY <1>1, <2>1, <2>2, LaterHeld
<1> QED BY <1>2 DEF Recorded

LEMMA LaterSound ==
  ASSUME NEW x, ChartSound(x, Xy!Axes), NEW y \in Charts, Later(x, y),
         y.open = x.open /\ y.config = x.config /\ y.points = x.points /\ y.pairing = x.pairing,
         y.last = x.last /\ y.mixed = x.mixed /\ y.record \in {x.record, Xy!NoRecord}
  PROVE  ChartSound(y, Xy!Axes)
<1>1. x \in Charts /\ x.config \in Configs /\ x.record \in Records /\ x.points \in Seq(PairsOf) /\ x.clock \in Nat
  BY DEF ChartSound, Charts
<1>2. y.clock \in Nat /\ x.clock <= y.clock
  BY DEF Later
<1>3. ASSUME NEW a \in Xy!Axes PROVE AxisSound(y, a)
  <2>1. AxisSound(x, a) /\ Xy!SourceOf(x.config, a) \in Sources /\ x.last[a] \in Nat /\ x.pairing.latest[a].t \in Nat
    <3>1. x.pairing \in Pairings /\ x.last \in [Xy!Axes -> Nat]
      BY <1>1 DEF Charts
    <3> QED BY <1>1, <3>1 DEF ChartSound, Configs, Xy!SourceOf, Pairings, Samples
  <2>2. x.pairing.latest[a].t <= x.clock /\ Held(x.pairing.latest[a].t, x.snap[Xy!SourceOf(x.config, a)])
    BY <1>1, <2>1 DEF AxisSound
  <2>3. Held(x.pairing.latest[a].t, y.snap[Xy!SourceOf(x.config, a)])
    BY <1>1, <2>1, <2>2, LaterHeld
  <2>4. x.last[a] <= y.clock
    BY <1>1, <1>2, <2>1 DEF AxisSound
  <2> QED BY <2>1, <2>3, <2>4 DEF AxisSound
<1>4. ASSUME ~y.mixed
      PROVE  /\ Recorded(y.points, y, y.config) /\ Recorded(y.record.points, y, y.record)
             /\ \A a \in Xy!Axes : AxisAdvances(y, a) /\ AxisLooked(y, a)
  <2>1. /\ Recorded(x.points, x, x.config) /\ Recorded(x.record.points, x, x.record)
        /\ \A a \in Xy!Axes : AxisAdvances(x, a) /\ AxisLooked(x, a)
    BY <1>4 DEF ChartSound
  <2>2. Recorded(y.points, y, y.config)
    <3>1. x.config.x \in Sources /\ x.config.y \in Sources
      BY <1>1 DEF Configs
    <3> QED BY <1>1, <2>1, <3>1, LaterRecorded
  <2>3. Recorded(y.record.points, y, y.record)
    <3>1. CASE y.record = Xy!NoRecord
      BY <3>1, NoRecordIs
    <3>2. CASE y.record = x.record
      <4>1. x.record.points \in Seq(PairsOf) /\ (x.record.points # <<>> => x.record.x \in Sources /\ x.record.y \in Sources)
        BY <1>1 DEF Records
      <4> QED BY <1>1, <2>1, <3>2, <4>1, LaterRecorded
    <3> QED BY <3>1, <3>2
  <2>4. ASSUME NEW a \in Xy!Axes PROVE AxisAdvances(y, a) /\ AxisLooked(y, a)
    <3>1. AxisAdvances(y, a)
      BY <2>1 DEF AxisAdvances
    <3>2. PICK s \in Sources : s = Xy!SourceOf(x.config, a)
      BY <1>1 DEF Configs, Xy!SourceOf
    <3>3. \A i \in DOMAIN x.points : x.points[i][a].t \in Nat /\ x.points[i][a].t <= x.clock
      <4>1. \A i \in DOMAIN x.points : x.points[i] \in PairsOf
        BY <1>1
      <4> QED BY <2>1, <4>1 DEF PairsOf, Samples, Xy!Axes, Recorded, NotAhead
    <3>4. \A i \in DOMAIN x.points : x.points[i][a].t <= x.last[a] \/ x.snap[s].t = 0 \/ x.points[i][a].t < x.snap[s].t
      BY <2>1, <3>2 DEF AxisLooked
    <3>5. y.snap[s].t = x.snap[s].t \/ y.snap[s].t = 0 \/ y.snap[s].t > x.clock
      BY DEF Later
    <3>6. y.snap[s].t \in Nat
      BY DEF Charts, Readings
    <3>7. \A i \in DOMAIN x.points : x.points[i][a].t <= x.last[a] \/ y.snap[s].t = 0 \/ x.points[i][a].t < y.snap[s].t
      BY <1>1, <3>3, <3>4, <3>5, <3>6
    <3>8. AxisLooked(y, a)
      BY <3>2, <3>7 DEF AxisLooked
    <3> QED BY <3>1, <3>8
  <2> QED BY <2>2, <2>3, <2>4
<1>5. \A s \in Sources : y.snap[s].t <= y.clock /\ (y.snap[s].disconnected => y.snap[s].t = 0)
  BY DEF Later
<1>6. (y.pairing.timer => y.pairing.fresh # {}) /\ (~y.open => Clean(y))
  BY DEF ChartSound, Clean
<1> QED BY <1>3, <1>4, <1>5, <1>6 DEF ChartSound

(* The wait for a second sample is over.                                   *)
FewerFresh(x, y) ==
  /\ y \in Charts /\ y.open = x.open /\ y.config = x.config /\ y.snap = x.snap /\ y.clock = x.clock
  /\ y.points = x.points /\ y.record = x.record /\ y.mixed = x.mixed /\ y.last = x.last
  /\ y.pairing.latest = x.pairing.latest /\ y.pairing.fresh \subseteq x.pairing.fresh /\ ~y.pairing.timer

LEMMA FewerFreshSound ==
  ASSUME NEW x, ChartSound(x, Xy!Axes), x.open, NEW y, FewerFresh(x, y)
  PROVE  ChartSound(y, Xy!Axes) /\ (Shown(x) => Shown(y))
<1>1. \A a \in Xy!Axes : AxisSound(y, a)
  BY DEF ChartSound, AxisSound, FewerFresh
<1>2. ASSUME ~y.mixed
      PROVE  /\ Recorded(y.points, y, y.config) /\ Recorded(y.record.points, y, y.record)
             /\ \A a \in Xy!Axes : AxisAdvances(y, a) /\ AxisLooked(y, a)
  <2>1. /\ Recorded(x.points, x, x.config) /\ Recorded(x.record.points, x, x.record)
        /\ \A a \in Xy!Axes : AxisAdvances(x, a) /\ AxisLooked(x, a)
    BY <1>2 DEF ChartSound, FewerFresh
  <2>2. x.points \in Seq(PairsOf) /\ x.record.points \in Seq(PairsOf)
    BY DEF ChartSound, Charts, Records
  <2>3. y.snap = x.snap /\ y.clock = x.clock /\ y.points = x.points /\ y.record = x.record /\ y.config = x.config
    BY DEF FewerFresh
  <2>4. Recorded(x.points, y, x.config)
    BY ONLY <2>1, <2>2, <2>3, RecordedAs
  <2>5. Recorded(x.record.points, y, x.record)
    BY ONLY <2>1, <2>2, <2>3, RecordedAs
  <2>6. \A a \in Xy!Axes : AxisAdvances(y, a) /\ AxisLooked(y, a)
    BY <2>1 DEF AxisAdvances, AxisLooked, FewerFresh
  <2> QED BY ONLY <2>3, <2>4, <2>5, <2>6
<1>3. ChartSound(y, Xy!Axes)
  BY <1>1, <1>2 DEF ChartSound, FewerFresh
<1> QED BY <1>3 DEF Shown, FewerFresh

LEMMA ChartStarts == ASSUME Xy!Init PROVE ChartInv
<1>1. PICK x \in Sources, y \in Sources, cap \in Caps :
        chart = [open |-> FALSE, config |-> [x |-> x, y |-> y, cap |-> cap], points |-> <<>>, record |-> Xy!NoRecord,
                 pairing |-> Xy!NoPairing, last |-> [a \in Xy!Axes |-> 0], clock |-> 0, mixed |-> FALSE,
                 snap |-> [s \in Sources |-> [t |-> 0, error |-> FALSE, disconnected |-> FALSE]]]
  BY DEF Xy!Init
<1>2. PICK config : config = [x |-> x, y |-> y, cap |-> cap]
  OBVIOUS
<1>3. PICK zero : zero = [a \in Xy!Axes |-> 0]
  OBVIOUS
<1>4. PICK snap : snap = [s \in Sources |-> [t |-> 0, error |-> FALSE, disconnected |-> FALSE]]
  OBVIOUS
<1>5. config \in Configs /\ zero \in [Xy!Axes -> Nat] /\ snap \in [Sources -> Readings]
  BY <1>2, <1>3, <1>4 DEF Configs, Readings
<1>6. PICK none \in Seq(PairsOf) : none = <<>>
  <2>1. <<>> \in Seq(PairsOf)
    OBVIOUS
  <2> QED BY <2>1
<1>7. chart = [open |-> FALSE, config |-> config, points |-> none, record |-> Xy!NoRecord, pairing |-> Xy!NoPairing,
               last |-> zero, clock |-> 0, mixed |-> FALSE, snap |-> snap]
  BY ONLY <1>1, <1>2, <1>3, <1>4, <1>6
<1>8. chart \in Charts
  BY <1>5, <1>6, <1>7, NoRecordIs, NoPairingIs DEF Charts
<1>9. /\ ~chart.open /\ chart.points = none /\ chart.record = Xy!NoRecord /\ chart.pairing = Xy!NoPairing
      /\ chart.last = zero /\ chart.clock = 0 /\ chart.snap = snap /\ chart.config = config
  BY ONLY <1>7
<1>10. \A s \in Sources : snap[s].t = 0 /\ ~snap[s].disconnected
  BY ONLY <1>4
<1>11. MayStart(chart, <<>>)
  <2>1. Recorded(<<>>, chart, chart.config)
    BY DEF Recorded, Ordered, From, NotAhead
  <2>2. \A s \in Sources : chart.snap[s].t <= chart.clock
    BY <1>9, <1>10
  <2> QED BY <1>6, <1>8, <1>9, <1>10, <2>1, <2>2, NoRecordIs DEF MayStart
<1>12. chart = Started(chart, <<>>)
  BY <1>3, <1>6, <1>8, <1>9 DEF Started, Charts
<1>13. ChartSound(chart, Xy!Axes)
  BY <1>11, <1>12, StartSound
<1> QED BY <1>9, <1>13 DEF ChartInv

LEMMA TimeoutStep == ASSUME Xy!LimitsAreSizes, ChartInv, Xy!HandleTimeout PROVE ChartInv'
<1>1. /\ ChartSound(chart, Xy!Axes) /\ chart.pairing.timer /\ chart.open /\ Shown(chart)
  <2>1. ChartSound(chart, Xy!Axes) /\ chart.pairing.timer
    BY DEF ChartInv, Xy!HandleTimeout
  <2>2. chart.open
    BY <2>1, NoPairingIs DEF ChartSound, Clean
  <2> QED BY <2>1, <2>2 DEF ChartInv
<1>2. chart \in Charts /\ chart.pairing \in Pairings
  BY <1>1 DEF ChartSound, Charts
<1>3. CASE \E a \in Xy!Axes : chart.pairing.latest[a].t = 0
  <2>1. chart' = [chart EXCEPT !.pairing.timer = FALSE, !.pairing.fresh = {}]
    BY <1>3 DEF Xy!HandleTimeout
  <2>2. PICK p : p = [chart.pairing EXCEPT !.timer = FALSE, !.fresh = {}]
    OBVIOUS
  <2>3. p \in Pairings /\ p.latest = chart.pairing.latest /\ p.fresh = {} /\ ~p.timer
    BY <1>2, <2>2 DEF Pairings
  <2>4. chart' = [chart EXCEPT !.pairing = p]
    BY <1>2, <2>1, <2>2 DEF Charts, Pairings
  <2>5. PICK y : y = chart'
    OBVIOUS
  <2>6. FewerFresh(chart, y)
    BY <1>2, <2>3, <2>4, <2>5 DEF FewerFresh, Charts
  <2> QED BY <1>1, <2>5, <2>6, FewerFreshSound DEF ChartInv
<1>4. CASE ~(\E a \in Xy!Axes : chart.pairing.latest[a].t = 0)
  <2>1. PICK y : y = [chart EXCEPT !.pairing.timer = FALSE]
    OBVIOUS
  <2>2. chart' = Xy!Emit(y)
    BY <1>4, <2>1 DEF Xy!HandleTimeout
  <2>3. PICK p : p = [chart.pairing EXCEPT !.timer = FALSE]
    OBVIOUS
  <2>4. p \in Pairings /\ p.latest = chart.pairing.latest /\ p.fresh = chart.pairing.fresh /\ ~p.timer
    BY <1>2, <2>3 DEF Pairings
  <2>5. y = [chart EXCEPT !.pairing = p]
    BY <1>2, <2>1, <2>3 DEF Charts, Pairings
  <2>6. FewerFresh(chart, y) /\ y.pairing = p
    BY <1>2, <2>4, <2>5 DEF FewerFresh, Charts
  <2>7. ChartSound(y, Xy!Axes) /\ y.open
    BY <1>1, <2>6, FewerFreshSound DEF FewerFresh
  <2>8. (\A a \in Xy!Axes : y.pairing.latest[a].t # 0) /\ y.pairing.fresh # {}
    BY <1>1, <1>4, <2>4, <2>6 DEF ChartSound
  <2>9. ChartSound(Xy!Emit(y), Xy!Axes) /\ Shown(Xy!Emit(y))
    BY <2>7, <2>8, EmitSound
  <2> QED BY <2>2, <2>9 DEF ChartInv
<1> QED BY <1>3, <1>4

(* What a chart that is open shows may be started with again, and so may   *)
(* what is stored of another configuration.                                *)
LEMMA StoredMayStart ==
  ASSUME NEW x, ChartSound(x, Xy!Axes), NEW y \in Charts, y.record = x.record, y.clock = x.clock, y.snap = x.snap,
         y.mixed = x.mixed
  PROVE  MayStart(y, Xy!Load(y.record, y.config))
<1>1. x \in Charts /\ x.record \in Records /\ y.config \in Configs /\ x.record.points \in Seq(PairsOf)
  BY DEF ChartSound, Charts, Records
<1>2. Xy!Load(y.record, y.config) \in Seq(PairsOf)
  BY <1>1, LoadIs
<1>3. ASSUME ~y.mixed
      PROVE  Recorded(Xy!Load(y.record, y.config), y, y.config) /\ Recorded(y.record.points, y, y.record)
  <2>1. Recorded(x.record.points, x, x.record)
    BY <1>3 DEF ChartSound
  <2>2. Recorded(x.record.points, y, x.record)
    BY ONLY <1>1, <2>1, RecordedAs, y.snap = x.snap, y.clock = x.clock
  <2> QED BY <1>1, <2>2, LoadIs
<1>4. \A s \in Sources : y.snap[s].t <= y.clock /\ (y.snap[s].disconnected => y.snap[s].t = 0)
  BY DEF ChartSound
<1> QED BY <1>2, <1>3, <1>4 DEF MayStart

LEMMA ShowStep == ASSUME Xy!LimitsAreSizes, ChartInv, Xy!ShowChart PROVE ChartInv'
<1>1. ChartSound(chart, Xy!Axes) /\ ~chart.open /\ Clean(chart) /\ chart \in Charts
  BY DEF ChartInv, ChartSound, Xy!ShowChart
<1>2. PICK x : x = [chart EXCEPT !.open = TRUE]
  OBVIOUS
<1>3. /\ x \in Charts /\ x.open /\ x.record = chart.record /\ x.clock = chart.clock /\ x.snap = chart.snap
      /\ x.mixed = chart.mixed /\ x.config = chart.config /\ x.points = <<>>
      /\ x.pairing = Xy!NoPairing /\ x.last = [a \in Xy!Axes |-> 0]
  BY <1>1, <1>2 DEF Charts, Clean
<1>4. PICK stored : stored = Xy!Load(x.record, x.config)
  OBVIOUS
<1>5. MayStart(x, stored)
  BY <1>1, <1>3, <1>4, StoredMayStart
<1>6. PICK y : y = IF stored = <<>> THEN x ELSE Xy!Save(x, stored)
  OBVIOUS
<1>7. chart' = Xy!Collect(y, y.points)
  BY <1>2, <1>3, <1>4, <1>6 DEF Xy!ShowChart
<1>8. MayStart(y, y.points) /\ y.open /\ Shown(y)
  <2>1. CASE stored = <<>>
    BY <1>3, <1>4, <1>5, <1>6, <2>1 DEF Shown
  <2>2. CASE stored # <<>>
    <3>1. stored \in Seq(PairsOf)
      BY <1>5 DEF MayStart
    <3>2. PICK z : z = Started(x, stored)
      OBVIOUS
    <3>3. ChartSound(z, {})
      BY <1>3, <1>5, <3>2, StartSound
    <3>4. z = [x EXCEPT !.points = stored]
      <4>1. [x EXCEPT !.points = stored, !.pairing = x.pairing, !.last = x.last] = [x EXCEPT !.points = stored]
        BY <1>3 DEF Charts
      <4> QED BY <1>3, <3>2, <4>1 DEF Started
    <3>5. {} \subseteq Xy!Axes
      OBVIOUS
    <3>6. ChartSound(y, {}) /\ Shown(y) /\ SameChart(x, y)
      BY <1>3, <1>6, <2>2, <3>1, <3>3, <3>4, <3>5, SaveSound
    <3> QED BY <1>3, <3>6 DEF MayStart, ChartSound, Shown, SameChart, Charts
  <2> QED BY <2>1, <2>2
<1>9. ChartSound(chart', Xy!Axes) /\ Shown(chart')
  BY <1>7, <1>8, CollectSound DEF Shown
<1> QED BY <1>9 DEF ChartInv

(* A chart that is left, or whose page is reloaded.                        *)
LEMMA ClosedSound ==
  ASSUME NEW x, ChartSound(x, Xy!Axes), NEW y \in Charts, ~y.open, y.record = x.record, y.clock = x.clock,
         y.snap = x.snap, y.mixed = x.mixed
  PROVE  ChartSound(Started(y, <<>>), Xy!Axes) /\ ~Started(y, <<>>).open
<1>1. x.record.points \in Seq(PairsOf)
  BY DEF ChartSound, Charts, Records
<1>2. PICK none \in Seq(PairsOf) : none = <<>>
  <2>1. <<>> \in Seq(PairsOf)
    OBVIOUS
  <2> QED BY <2>1
<1>3. Recorded(none, y, y.config)
  BY <1>2 DEF Recorded, Ordered, From, NotAhead
<1>4. \A s \in Sources : y.snap[s].t <= y.clock /\ (y.snap[s].disconnected => y.snap[s].t = 0)
  BY DEF ChartSound
<1>5. ASSUME ~y.mixed PROVE Recorded(y.record.points, y, y.record)
  <2>1. Recorded(x.record.points, x, x.record)
    BY <1>5 DEF ChartSound
  <2> QED BY ONLY <1>1, <2>1, RecordedAs, y.record = x.record, y.snap = x.snap, y.clock = x.clock
<1>6. MayStart(y, none)
  BY <1>3, <1>4, <1>5 DEF MayStart
<1> QED BY <1>2, <1>6, StartSound DEF SameChart

LEMMA LeaveStep == ASSUME ChartInv, Xy!LeaveChart PROVE ChartInv'
<1>1. ChartSound(chart, Xy!Axes) /\ chart \in Charts
  BY DEF ChartInv, ChartSound
<1>2. PICK y : y = [chart EXCEPT !.open = FALSE]
  OBVIOUS
<1>3. /\ y \in Charts /\ ~y.open /\ y.record = chart.record /\ y.clock = chart.clock /\ y.snap = chart.snap
      /\ y.mixed = chart.mixed /\ y.config = chart.config
  BY <1>1, <1>2 DEF Charts
<1>4. chart' = Started(y, <<>>)
  BY <1>2 DEF Xy!LeaveChart, Started
<1>5. ChartSound(chart', Xy!Axes) /\ ~chart'.open
  BY <1>1, <1>3, <1>4, ClosedSound
<1> QED BY <1>5 DEF ChartInv

LEMMA ReloadStep == ASSUME ChartInv, Xy!ReloadPage PROVE ChartInv'
<1>1. ChartSound(chart, Xy!Axes) /\ chart \in Charts
  BY DEF ChartInv, ChartSound
<1>2. PICK snap : snap = [s \in Sources |-> [t |-> 0, error |-> FALSE, disconnected |-> FALSE]]
  OBVIOUS
<1>3. snap \in [Sources -> Readings] /\ \A s \in Sources : snap[s].t = 0 /\ ~snap[s].disconnected
  BY <1>2 DEF Readings
<1>4. PICK x : x = [chart EXCEPT !.snap = snap]
  OBVIOUS
<1>5. /\ x \in Charts /\ x.open = chart.open /\ x.config = chart.config /\ x.points = chart.points
      /\ x.pairing = chart.pairing /\ x.last = chart.last /\ x.mixed = chart.mixed /\ x.record = chart.record
      /\ x.snap = snap /\ x.clock = chart.clock /\ x.clock \in Nat
  BY <1>1, <1>3, <1>4 DEF Charts
<1>6. Later(chart, x)
  BY <1>3, <1>5 DEF Later
<1>7. ChartSound(x, Xy!Axes)
  BY <1>1, <1>5, <1>6, LaterSound
<1>8. PICK y : y = [x EXCEPT !.open = FALSE]
  OBVIOUS
<1>9. /\ y \in Charts /\ ~y.open /\ y.record = x.record /\ y.clock = x.clock /\ y.snap = x.snap
      /\ y.mixed = x.mixed /\ y.config = x.config
  BY <1>5, <1>8 DEF Charts
<1>10. chart' = Started(y, <<>>)
  <2>1. chart' = [chart EXCEPT !.open = FALSE, !.points = <<>>, !.pairing = Xy!NoPairing,
                               !.last = [a \in Xy!Axes |-> 0], !.snap = snap]
    BY <1>2 DEF Xy!ReloadPage
  <2>2. PICK zero : zero = [a \in Xy!Axes |-> 0]
    OBVIOUS
  <2>3. chart' = [chart EXCEPT !.open = FALSE, !.points = <<>>, !.pairing = Xy!NoPairing, !.last = zero, !.snap = snap]
    BY ONLY <2>1, <2>2
  <2>4. Started(y, <<>>) = [y EXCEPT !.points = <<>>, !.pairing = Xy!NoPairing, !.last = zero]
    BY <2>2 DEF Started
  <2> QED BY ONLY <1>1, <1>4, <1>8, <2>3, <2>4 DEF Charts
<1>11. ChartSound(chart', Xy!Axes) /\ ~chart'.open
  BY <1>7, <1>9, <1>10, ClosedSound
<1> QED BY <1>11 DEF ChartInv

(* A new limit, with the same queries.                                     *)
LEMMA LimitSound ==
  ASSUME NEW x, ChartSound(x, Xy!Axes), NEW y \in Charts, y.open = x.open, y.points = x.points, y.record = x.record,
         y.pairing = x.pairing, y.last = x.last, y.clock = x.clock, y.snap = x.snap, y.mixed = x.mixed,
         y.config.x = x.config.x, y.config.y = x.config.y
  PROVE  ChartSound(y, Xy!Axes)
<1>1. \A a \in Xy!Axes : Xy!SourceOf(y.config, a) = Xy!SourceOf(x.config, a)
  BY DEF Xy!SourceOf
<1>2. \A a \in Xy!Axes : AxisSound(y, a)
  BY <1>1 DEF ChartSound, AxisSound
<1>3. ASSUME ~y.mixed
      PROVE  /\ Recorded(y.points, y, y.config) /\ Recorded(y.record.points, y, y.record)
             /\ \A a \in Xy!Axes : AxisAdvances(y, a) /\ AxisLooked(y, a)
  <2>1. /\ Recorded(x.points, x, x.config) /\ Recorded(x.record.points, x, x.record)
        /\ \A a \in Xy!Axes : AxisAdvances(x, a) /\ AxisLooked(x, a)
    BY <1>3 DEF ChartSound
  <2>2. x.points \in Seq(PairsOf) /\ x.record.points \in Seq(PairsOf)
    BY DEF ChartSound, Charts, Records
  <2>3. Recorded(x.points, y, y.config)
    BY ONLY <2>1, <2>2, RecordedAs, y.snap = x.snap, y.clock = x.clock, y.config.x = x.config.x, y.config.y = x.config.y
  <2>4. Recorded(x.record.points, y, x.record)
    BY ONLY <2>1, <2>2, RecordedAs, y.snap = x.snap, y.clock = x.clock
  <2>5. \A a \in Xy!Axes : AxisAdvances(y, a) /\ AxisLooked(y, a)
    BY <1>1, <2>1 DEF AxisAdvances, AxisLooked
  <2> QED BY <2>3, <2>4, <2>5
<1> QED BY <1>2, <1>3 DEF ChartSound, Clean

LEMMA MixedSound ==
  ASSUME NEW x, ChartSound(x, Xy!Axes), NEW y \in Charts, y.open = x.open, y.points = x.points, y.config = x.config,
         y.pairing = x.pairing, y.last = x.last, y.clock = x.clock, y.snap = x.snap, y.mixed
  PROVE  ChartSound(y, Xy!Axes) /\ Shown(y)
<1>1. \A a \in Xy!Axes : AxisSound(y, a)
  BY DEF ChartSound, AxisSound
<1> QED BY <1>1 DEF ChartSound, Clean, Shown

LEMMA ConfigureStep == ASSUME Xy!LimitsAreSizes, ChartInv, Xy!Configure PROVE ChartInv'
<1>1. ChartSound(chart, Xy!Axes) /\ chart.open /\ Shown(chart) /\ chart \in Charts
  BY DEF ChartInv, ChartSound, Xy!Configure
<1>2. PICK s \in Sources, t \in Sources, cap \in Caps, timeout \in BOOLEAN :
        LET config == [x |-> s, y |-> t, cap |-> cap]
            new == [chart EXCEPT !.config = config]
            saves == cap # chart.config.cap /\ chart.points # <<>>
            saved == IF saves THEN Xy!Save(new, chart.points) ELSE new
            same == ~timeout /\ <<s, t>> = <<chart.config.x, chart.config.y>>
            later == Xy!Collect(new, Xy!Load(chart.record, config))
        IN \/ same /\ chart' = saved
           \/ ~same /\ chart' = Xy!Collect([saved EXCEPT !.mixed = @ \/ saves], Xy!Load(saved.record, config))
           \/ ~same /\ chart' = IF saves THEN [later EXCEPT !.record = saved.record, !.mixed = TRUE] ELSE later
  BY DEF Xy!Configure
<1>3. PICK config : config = [x |-> s, y |-> t, cap |-> cap]
  OBVIOUS
<1>4. PICK new : new = [chart EXCEPT !.config = config]
  OBVIOUS
<1>5. PICK saves : saves = (cap # chart.config.cap /\ chart.points # <<>>)
  OBVIOUS
<1>6. PICK saved : saved = IF saves THEN Xy!Save(new, chart.points) ELSE new
  OBVIOUS
<1>7. PICK later : later = Xy!Collect(new, Xy!Load(chart.record, config))
  OBVIOUS
<1>8. \/ ~timeout /\ <<s, t>> = <<chart.config.x, chart.config.y>> /\ chart' = saved
      \/ chart' = Xy!Collect([saved EXCEPT !.mixed = @ \/ saves], Xy!Load(saved.record, config))
      \/ chart' = IF saves THEN [later EXCEPT !.record = saved.record, !.mixed = TRUE] ELSE later
  BY ONLY <1>2, <1>3, <1>4, <1>5, <1>6, <1>7
<1>9. config \in Configs /\ config.x = s /\ config.y = t
  BY <1>3 DEF Configs
<1>10. /\ new \in Charts /\ new.open /\ new.points = chart.points /\ new.record = chart.record /\ new.config = config
       /\ new.pairing = chart.pairing /\ new.last = chart.last /\ new.clock = chart.clock /\ new.snap = chart.snap
       /\ new.mixed = chart.mixed /\ new.open = chart.open
  BY <1>1, <1>4, <1>9 DEF Charts
<1>11. saves \in BOOLEAN /\ chart.points \in Seq(PairsOf)
  BY <1>1, <1>5 DEF Charts
<1>12. saved \in Charts /\ saved.config = config /\ saved.open /\ saved.clock = chart.clock /\ saved.snap = chart.snap
  <2>1. CASE saves
    <3>1. PICK kept \in Seq(PairsOf), record \in Records :
            /\ EndOf(kept, chart.points)
            /\ Xy!Save(new, chart.points) = [new EXCEPT !.points = kept, !.record = record]
            /\ Xy!Save(new, chart.points) \in Charts
            /\ record.points = kept /\ Xy!Load(record, new.config) = kept
            /\ kept # <<>> => record.x = new.config.x /\ record.y = new.config.y
      BY <1>10, <1>11, SaveKeeps
    <3> QED BY <1>6, <1>10, <2>1, <3>1 DEF Charts
  <2>2. CASE ~saves
    BY <1>6, <1>10, <2>2
  <2> QED BY <1>11, <2>1, <2>2
<1>13. ASSUME ~timeout, <<s, t>> = <<chart.config.x, chart.config.y>>, chart' = saved PROVE ChartInv'
  <2>1. config.x = chart.config.x /\ config.y = chart.config.y
    BY <1>9, <1>13
  <2>2. ChartSound(new, Xy!Axes)
    BY <1>1, <1>10, <2>1, LimitSound
  <2>3. CASE saves
    <3>1. [new EXCEPT !.points = chart.points] = new
      BY <1>10 DEF Charts
    <3>2. Xy!Axes \subseteq Xy!Axes
      OBVIOUS
    <3>3. ChartSound(saved, Xy!Axes) /\ Shown(saved)
      BY <1>6, <1>10, <1>11, <2>2, <2>3, <3>1, <3>2, SaveSound
    <3> QED BY <1>13, <3>3 DEF ChartInv
  <2>4. CASE ~saves
    <3>1. saved = new /\ Shown(new)
      BY <1>1, <1>6, <1>10, <2>1, <2>4 DEF Shown, Xy!Load
    <3> QED BY <1>13, <2>2, <3>1 DEF ChartInv
  <2> QED BY <1>11, <2>3, <2>4
<1>14. ASSUME chart' = Xy!Collect([saved EXCEPT !.mixed = @ \/ saves], Xy!Load(saved.record, config)) PROVE ChartInv'
  <2>1. PICK y : y = [saved EXCEPT !.mixed = @ \/ saves]
    OBVIOUS
  <2>2. /\ y \in Charts /\ y.open /\ y.config = config /\ y.clock = chart.clock /\ y.snap = chart.snap
        /\ y.record = saved.record /\ y.mixed = (saved.mixed \/ saves)
    BY <1>11, <1>12, <2>1 DEF Charts
  <2>3. MayStart(y, Xy!Load(y.record, y.config))
    <3>1. CASE saves
      <4>1. y.record \in Records /\ y.config \in Configs
        BY <1>9, <2>2 DEF Charts
      <4>2. Xy!Load(y.record, y.config) \in Seq(PairsOf)
        BY <4>1, LoadIs
      <4>3. \A r \in Sources : y.snap[r].t <= y.clock /\ (y.snap[r].disconnected => y.snap[r].t = 0)
        BY <1>1, <2>2 DEF ChartSound
      <4> QED BY <2>2, <3>1, <4>2, <4>3 DEF MayStart
    <3>2. CASE ~saves
      <4>1. y.record = chart.record /\ y.mixed = chart.mixed
        <5>1. saved = new
          BY <1>6, <3>2
        <5> QED BY <1>10, <2>2, <3>2, <5>1 DEF Charts
      <4> QED BY <1>1, <2>2, <4>1, StoredMayStart
    <3> QED BY <1>11, <3>1, <3>2
  <2>4. chart' = Xy!Collect(y, Xy!Load(y.record, y.config))
    BY <1>14, <2>1, <2>2
  <2>5. ChartSound(chart', Xy!Axes) /\ Shown(chart')
    BY <2>2, <2>3, <2>4, CollectSound
  <2> QED BY <2>5 DEF ChartInv
<1>15. ASSUME chart' = IF saves THEN [later EXCEPT !.record = saved.record, !.mixed = TRUE] ELSE later PROVE ChartInv'
  <2>1. MayStart(new, Xy!Load(new.record, new.config))
    BY <1>1, <1>10, StoredMayStart
  <2>2. ChartSound(later, Xy!Axes) /\ Shown(later)
    BY <1>7, <1>10, <2>1, CollectSound
  <2>3. CASE saves
    <3>1. later \in Charts /\ saved.record \in Records
      BY <1>12, <2>2 DEF ChartSound, Charts
    <3>2. PICK y : y = [later EXCEPT !.record = saved.record, !.mixed = TRUE]
      OBVIOUS
    <3>3. /\ y \in Charts /\ y.open = later.open /\ y.points = later.points /\ y.config = later.config
          /\ y.pairing = later.pairing /\ y.last = later.last /\ y.clock = later.clock /\ y.snap = later.snap /\ y.mixed
      BY <3>1, <3>2 DEF Charts
    <3>4. ChartSound(y, Xy!Axes) /\ Shown(y)
      BY <2>2, <3>3, MixedSound
    <3> QED BY <1>15, <2>3, <3>2, <3>4 DEF ChartInv
  <2>4. CASE ~saves
    BY <1>15, <2>2, <2>4 DEF ChartInv
  <2> QED BY <1>11, <2>3, <2>4
<1> QED BY <1>8, <1>13, <1>14, <1>15

LEMMA DeleteStep == ASSUME Xy!LimitsAreSizes, ChartInv, Xy!DeleteXyChartHistory PROVE ChartInv'
<1>1. ChartSound(chart, Xy!Axes) /\ chart \in Charts
  BY DEF ChartInv, ChartSound
<1>2. PICK x : x = [chart EXCEPT !.record = Xy!NoRecord, !.mixed = FALSE]
  OBVIOUS
<1>3. /\ x \in Charts /\ x.open = chart.open /\ x.config = chart.config /\ x.points = chart.points
      /\ x.pairing = chart.pairing /\ x.last = chart.last /\ ~x.mixed /\ x.record = Xy!NoRecord
      /\ x.snap = chart.snap /\ x.clock = chart.clock
  BY <1>1, <1>2, NoRecordIs DEF Charts
<1>4. PICK none \in Seq(PairsOf) : none = <<>>
  <2>1. <<>> \in Seq(PairsOf)
    OBVIOUS
  <2> QED BY <2>1
<1>5. MayStart(x, none)
  <2>1. Recorded(none, x, x.config)
    BY <1>4 DEF Recorded, Ordered, From, NotAhead
  <2> QED BY <1>1, <1>3, <2>1, NoRecordIs DEF MayStart, ChartSound
<1>6. Xy!Load(x.record, x.config) = none
  BY <1>3, <1>4, NoRecordIs
<1>7. CASE chart.open
  <2>1. chart' = Xy!Collect(x, none)
    BY <1>2, <1>3, <1>4, <1>7 DEF Xy!DeleteXyChartHistory
  <2>2. ChartSound(chart', Xy!Axes) /\ Shown(chart')
    BY <1>3, <1>5, <1>6, <1>7, <2>1, CollectSound
  <2> QED BY <2>2 DEF ChartInv
<1>8. CASE ~chart.open
  <2>1. chart' = x
    BY <1>2, <1>3, <1>8 DEF Xy!DeleteXyChartHistory
  <2>2. Clean(x)
    BY <1>1, <1>3, <1>8 DEF ChartSound, Clean
  <2>3. x = Started(x, none)
    BY <1>3, <1>4, <2>2 DEF Started, Clean, Charts
  <2>4. ChartSound(x, Xy!Axes)
    BY <1>4, <1>5, <2>3, StartSound
  <2> QED BY <1>3, <1>8, <2>1, <2>4 DEF ChartInv
<1> QED BY <1>7, <1>8

LEMMA SampleStep == ASSUME Xy!LimitsAreSizes, ChartInv, Xy!Sample PROVE ChartInv'
<1>1. ChartSound(chart, Xy!Axes) /\ chart \in Charts /\ chart.clock \in Nat /\ chart.snap \in [Sources -> Readings]
  BY DEF ChartInv, ChartSound, Charts
<1>2. PICK s \in Sources, error \in BOOLEAN :
        chart' = Xy!Told([chart EXCEPT !.clock = @ + 1,
                                       !.snap[s] = [t |-> chart.clock + 1, error |-> error, disconnected |-> FALSE]], s)
  BY DEF Xy!Sample
<1>3. PICK now : now = chart.clock + 1
  OBVIOUS
<1>4. PICK reading : reading = [t |-> now, error |-> error, disconnected |-> FALSE]
  OBVIOUS
<1>5. reading \in Readings /\ reading.t = now /\ ~reading.disconnected /\ now \in Nat /\ now > chart.clock
  BY <1>1, <1>3, <1>4 DEF Readings
<1>6. PICK snap : snap = [chart.snap EXCEPT ![s] = reading]
  OBVIOUS
<1>7. snap \in [Sources -> Readings] /\ snap[s] = reading /\ \A r \in Sources \ {s} : snap[r] = chart.snap[r]
  BY <1>1, <1>5, <1>6
<1>8. PICK x : x = [chart EXCEPT !.clock = now, !.snap = snap]
  OBVIOUS
<1>9. /\ x \in Charts /\ x.open = chart.open /\ x.config = chart.config /\ x.points = chart.points
      /\ x.pairing = chart.pairing /\ x.last = chart.last /\ x.mixed = chart.mixed /\ x.record = chart.record
      /\ x.snap = snap /\ x.clock = now
  BY <1>1, <1>5, <1>7, <1>8 DEF Charts
<1>10. Later(chart, x)
  <2>1. now \in Nat /\ chart.clock <= now
    BY <1>1, <1>5
  <2>2. ASSUME NEW r \in Sources
        PROVE  /\ snap[r].t <= now /\ (snap[r].disconnected => snap[r].t = 0)
               /\ snap[r].t = chart.snap[r].t \/ snap[r].t = 0 \/ snap[r].t > chart.clock
    <3>1. CASE r = s
      BY <1>5, <1>7, <3>1
    <3>2. CASE r # s
      <4>1. snap[r] = chart.snap[r] /\ snap[r].t \in Nat
        BY <1>7, <3>2 DEF Readings
      <4>2. chart.snap[r].t <= chart.clock /\ (chart.snap[r].disconnected => chart.snap[r].t = 0)
        BY <1>1 DEF ChartSound
      <4> QED BY <1>1, <1>5, <4>1, <4>2
    <3> QED BY <3>1, <3>2
  <2> QED BY <1>9, <2>1, <2>2 DEF Later
<1>11. ChartSound(x, Xy!Axes) /\ (Shown(chart) => Shown(x))
  BY <1>1, <1>9, <1>10, LaterSound DEF Shown
<1>12. chart' = Xy!Told(x, s)
  BY <1>1, <1>2, <1>3, <1>4, <1>6, <1>8 DEF Charts
<1>13. ChartSound(chart', Xy!Axes) /\ chart'.open = x.open /\ (x.open /\ Shown(x) => Shown(chart'))
  BY <1>11, <1>12, ToldSound DEF SameChart
<1> QED BY <1>9, <1>11, <1>13 DEF ChartInv

LEMMA LoadingStep == ASSUME Xy!LimitsAreSizes, ChartInv, Xy!Loading PROVE ChartInv'
<1>1. PICK s \in Sources : chart' = Xy!Told(chart, s)
  BY DEF Xy!Loading
<1>2. ChartSound(chart, Xy!Axes)
  BY DEF ChartInv
<1>3. /\ ChartSound(chart', Xy!Axes) /\ chart'.open = chart.open
      /\ chart.open /\ Shown(chart) => Shown(chart')
  BY <1>1, <1>2, ToldSound DEF SameChart
<1> QED BY <1>3 DEF ChartInv

LEMMA DisconnectStep == ASSUME Xy!LimitsAreSizes, ChartInv, Xy!Disconnect PROVE ChartInv'
<1>1. ChartSound(chart, Xy!Axes) /\ chart \in Charts /\ chart.clock \in Nat /\ chart.snap \in [Sources -> Readings]
  BY DEF ChartInv, ChartSound, Charts
<1>2. PICK s \in Sources :
        chart' = Xy!Told([chart EXCEPT !.snap[s] = [t |-> 0, error |-> FALSE, disconnected |-> TRUE],
                                       !.record = IF s \in {@.x, @.y} THEN Xy!NoRecord ELSE @], s)
  BY DEF Xy!Disconnect
<1>3. PICK reading : reading = [t |-> 0, error |-> FALSE, disconnected |-> TRUE]
  OBVIOUS
<1>4. reading \in Readings /\ reading.t = 0 /\ reading.disconnected
  BY <1>3 DEF Readings
<1>5. PICK snap : snap = [chart.snap EXCEPT ![s] = reading]
  OBVIOUS
<1>6. snap \in [Sources -> Readings] /\ snap[s] = reading /\ \A r \in Sources \ {s} : snap[r] = chart.snap[r]
  BY <1>1, <1>4, <1>5
<1>7. PICK record : record = IF s \in {chart.record.x, chart.record.y} THEN Xy!NoRecord ELSE chart.record
  OBVIOUS
<1>8. record \in Records /\ record \in {chart.record, Xy!NoRecord}
  BY <1>1, <1>7, NoRecordIs DEF Charts
<1>9. PICK x : x = [chart EXCEPT !.snap = snap, !.record = record]
  OBVIOUS
<1>10. /\ x \in Charts /\ x.open = chart.open /\ x.config = chart.config /\ x.points = chart.points
       /\ x.pairing = chart.pairing /\ x.last = chart.last /\ x.mixed = chart.mixed /\ x.record = record
       /\ x.snap = snap /\ x.clock = chart.clock
  BY <1>1, <1>6, <1>8, <1>9 DEF Charts
<1>11. Later(chart, x)
  <2>1. ASSUME NEW r \in Sources
        PROVE  /\ snap[r].t <= chart.clock /\ (snap[r].disconnected => snap[r].t = 0)
               /\ snap[r].t = chart.snap[r].t \/ snap[r].t = 0 \/ snap[r].t > chart.clock
    <3>1. CASE r = s
      BY <1>1, <1>4, <1>6, <3>1
    <3>2. CASE r # s
      <4>1. snap[r] = chart.snap[r]
        BY <1>6, <3>2
      <4> QED BY <1>1, <4>1 DEF ChartSound
    <3> QED BY <3>1, <3>2
  <2> QED BY <1>1, <1>10, <2>1 DEF Later
<1>12. ChartSound(x, Xy!Axes)
  BY <1>1, <1>8, <1>10, <1>11, LaterSound
<1>13. chart' = Xy!Told(x, s)
  <2>1. chart' = Xy!Told([chart EXCEPT !.snap[s] = reading, !.record = record], s)
    BY ONLY <1>2, <1>3, <1>7
  <2>2. [chart EXCEPT !.snap[s] = reading, !.record = record] = x
    BY <1>1, <1>5, <1>9 DEF Charts
  <2> QED BY ONLY <2>1, <2>2
<1>14. /\ ChartSound(chart', Xy!Axes) /\ chart'.open = x.open
       /\ x.open /\ (Shown(x) \/ (x.snap[s].disconnected /\ s \in {x.config.x, x.config.y})) => Shown(chart')
  BY <1>12, <1>13, ToldSound DEF SameChart
<1>15. ASSUME chart.open, s \notin {chart.config.x, chart.config.y} PROVE Shown(x)
  <2>1. Shown(chart)
    BY <1>15 DEF ChartInv
  <2>2. CASE record = chart.record
    BY <1>10, <2>1, <2>2 DEF Shown
  <2>3. CASE record = Xy!NoRecord /\ s \in {chart.record.x, chart.record.y}
    <3>1. ~(chart.record.x = chart.config.x /\ chart.record.y = chart.config.y)
      BY <1>15, <2>3
    <3>2. Xy!Load(chart.record, chart.config) = <<>>
      BY <3>1 DEF Xy!Load
    <3>3. Xy!Load(record, chart.config) = <<>>
      BY <2>3, NoRecordIs
    <3> QED BY <1>10, <2>1, <3>2, <3>3 DEF Shown
  <2> QED BY <1>7, <2>2, <2>3
<1> QED BY <1>4, <1>6, <1>10, <1>14, <1>15 DEF ChartInv

\* The inductive invariant of the x/y chart: what is recorded, what is shown,
\* what the next pair is made of, and what the listeners have looked at.
THEOREM PairingSound == ASSUME Xy!LimitsAreSizes PROVE Xy!Spec => []ChartInv
<1>1. Xy!Init => ChartInv
  BY ChartStarts
<1>2. ChartInv /\ [Xy!Next]_chart => ChartInv'
  <2> SUFFICES ASSUME ChartInv, [Xy!Next]_chart PROVE ChartInv'
    OBVIOUS
  <2>1. CASE UNCHANGED chart
    <3>1. chart' = chart
      BY <2>1
    <3> QED BY <3>1 DEF ChartInv, ChartSound, AxisSound, AxisAdvances, AxisLooked, Recorded, Ordered, From, NotAhead, Shown, Clean
  <2>2. CASE Xy!Next
    BY <2>2, TimeoutStep, ShowStep, LeaveStep, ReloadStep, ConfigureStep, DeleteStep, SampleStep, LoadingStep, DisconnectStep
       DEF Xy!Next
  <2> QED BY <2>1, <2>2
<1> QED BY <1>1, <1>2, PTL DEF Xy!Spec

\* For any queries, limits and number of samples: the pairs of an x/y chart go
\* forward in time and are recorded once, each is of the queries set up now, and
\* a reload shows the same, unless one save changed queries and limit.
THEOREM PairsAreFaithful == ASSUME Xy!LimitsAreSizes PROVE Xy!Spec => []Xy!XyIsFaithful
<1>1. ChartInv => Xy!XyIsFaithful
  <2> SUFFICES ASSUME ChartInv, ~chart.mixed PROVE Xy!PairsAdvance /\ Xy!OriginOfPoints /\ Xy!ReloadShows
    BY DEF Xy!XyIsFaithful
  <2>1. Recorded(chart.points, chart, chart.config)
    BY DEF ChartInv, ChartSound
  <2>2. Xy!PairsAdvance
    BY <2>1 DEF Recorded, Ordered, Xy!PairsAdvance
  <2>3. Xy!OriginOfPoints
    BY <2>1 DEF Recorded, From, Xy!OriginOfPoints
  <2>4. Xy!ReloadShows
    BY DEF ChartInv, Shown, Xy!ReloadShows
  <2> QED BY <2>2, <2>3, <2>4
<1> QED BY <1>1, PairingSound, PTL
=============================================================================
