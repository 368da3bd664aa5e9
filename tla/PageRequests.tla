---------------------------- MODULE PageRequests ----------------------------
(***************************************************************************)
(* The requests of one page over its WebSocket: the socket's life cycle,   *)
(* the polls of subscribed queries with the snapshots that widgets show,   *)
(* explicit refreshes, and commands whose answer is awaited.  The page is  *)
(* one record; a function of the code is an operator from pages to pages.  *)
(* An action is what the event loop runs: a click, a timer, a socket       *)
(* event, a message, or the effects of a render.  Replies come in the      *)
(* order of their requests, as the proxy serves them.  Left out: texts     *)
(* that a validation refuses (they reach none of this), and the recovery   *)
(* of devices, which BrowserDevices models: here a device is connected or  *)
(* not.                                                                    *)
(***************************************************************************)
EXTENDS Naturals, Sequences, FiniteSets, SequencesExt, FiniteSetsExt

CONSTANTS Widgets,      \* a sequence: the order in which they are subscribed
          Queries,      \* normalized identities
          Rates,        \* polling frequencies, positive
          Commands,     \* awaited commands
          MaxWire       \* bound on requests without an answer

VARIABLE page

NoSub == {}      \* a widget's saved subscription: none or one
Sub(w, q, hz) == [w |-> w, q |-> q, hz |-> hz]
Blank == [disc |-> FALSE, loading |-> FALSE, error |-> FALSE, stale |-> FALSE]
Disconnected == [Blank EXCEPT !.disc = TRUE]

Page0 ==
  [sock |-> "none", conn |-> FALSE, connecting |-> FALSE, dev |-> FALSE, due |-> FALSE,
   config |-> [i \in DOMAIN Widgets |-> NoSub],
   widgets |-> {}, groups |-> [q \in Queries |-> {}], timers |-> [q \in Queries |-> 0],
   pending |-> {}, busy |-> {}, snap |-> [q \in Queries |-> Blank],
   issued |-> {}, awaited |-> {}, wire |-> <<>>]

NewId(p) == LET used == {e.u : e \in p.pending} \union {p.wire[i].u : i \in DOMAIN p.wire}
                        \union {a.u : a \in p.awaited}
            IN CHOOSE n \in 1..(MaxWire + Cardinality(used) + 1) :
                 n \notin used /\ \A k \in 1..(n - 1) : k \in used

(* What is sent on the socket, and by whom; old marks a poll sent before   *)
(* a refresh of the same query, and ends up in the snapshot as stale.      *)
Sent(p, r) == [p EXCEPT !.wire = Append(@, r)]
Request(u, kind, of) == [u |-> u, kind |-> kind, of |-> of, old |-> FALSE]

-----------------------------------------------------------------------------
(* Subscriptions: who wants a query, and how often.                        *)

Fastest(group) == IF group = {} THEN 0 ELSE Max({s.hz : s \in group})

ForgetIdentity(p, q) ==
  [p EXCEPT !.pending = {e \in @ : e.q # q}, !.busy = @ \ {q}]

RemoveFromGroup(p, s) ==
  LET rest == {t \in p.groups[s.q] : t.w # s.w}
      left == [p EXCEPT !.groups[s.q] = rest]
  IN IF p.groups[s.q] # {} /\ rest = {}
     THEN ForgetIdentity([left EXCEPT !.snap[s.q] = Blank], s.q) ELSE left

AddSubscription(p, s) ==
  LET before == {t \in p.widgets : t.w = s.w}
      moved == FoldSet(LAMBDA t, x : IF t.q # s.q THEN RemoveFromGroup(x, t) ELSE x, p, before)
  IN [moved EXCEPT !.widgets = (@ \ before) \union {s},
                   !.groups[s.q] = {t \in @ : t.w # s.w} \union {s}]

CanPoll(p) == p.conn /\ p.dev
PollIdentity(p, q, refresh) ==
  IF p.groups[q] = {} THEN p
  ELSE IF ~CanPoll(p) THEN [ForgetIdentity(p, q) EXCEPT !.snap[q] = Disconnected]
  ELSE IF q \in p.busy THEN p
  ELSE IF p.sock # "open"
  THEN [p EXCEPT !.snap[q].loading = FALSE, !.snap[q].error = TRUE]
  ELSE [Sent(p, Request(NewId(p), "poll", q)) EXCEPT
          !.snap[q].disc = FALSE, !.snap[q].loading = TRUE, !.snap[q].error = FALSE,
          !.pending = @ \union {[u |-> NewId(p), q |-> q, timed |-> refresh]}, !.busy = @ \union {q}]

(* Every query whose interval changed is polled at once.                   *)
Reconcile(p) ==
  LET changed == {q \in Queries : p.groups[q] # {} /\ p.timers[q] # Fastest(p.groups[q])}
      polled == FoldSet(LAMBDA q, x : PollIdentity(x, q, FALSE), p, changed)
  IN [polled EXCEPT !.timers = [q \in Queries |-> Fastest(p.groups[q])]]
PollAll(p) == FoldSet(LAMBDA q, x : PollIdentity(x, q, FALSE), p, Queries)

Subscribe(p, s) == Reconcile(AddSubscription(p, s))
Unsubscribe(p, s) ==
  IF s \notin p.widgets THEN p
  ELSE Reconcile(RemoveFromGroup([p EXCEPT !.widgets = @ \ {s}], s))

(* All saved widgets leave and come back whenever one is saved.            *)
SyncWidgets(p, config) ==
  LET gone == FoldLeft(LAMBDA x, i : FoldSet(LAMBDA t, y : Unsubscribe(y, t), x, p.config[i]),
                       p, [i \in DOMAIN Widgets |-> i])
  IN FoldLeft(LAMBDA x, i : FoldSet(LAMBDA t, y : Subscribe(y, t), x, config[i]),
              [gone EXCEPT !.config = config], [i \in DOMAIN Widgets |-> i])

-----------------------------------------------------------------------------
(* Answers.                                                                *)

TakePending(p, u) ==
  LET mine == {e \in p.pending : e.u = u}
  IN [p EXCEPT !.pending = @ \ mine, !.busy = @ \ {e.q : e \in mine}]

InvalidateDevice(p) ==
  FoldSet(LAMBDA q, x : IF p.groups[q] = {} THEN x
                        ELSE [ForgetIdentity(x, q) EXCEPT !.snap[q] = Disconnected], p, Queries)

HandlePoll(p, r, answer) ==
  IF \A e \in p.pending : e.u # r.u THEN p
  ELSE IF answer = "lost" THEN InvalidateDevice(TakePending(p, r.u))
  ELSE [TakePending(p, r.u) EXCEPT !.snap[r.of].loading = FALSE,
          !.snap[r.of].error = (answer = "error"), !.snap[r.of].stale = r.old]

SettleCommand(p, u) == [p EXCEPT !.awaited = {a \in @ : a.u # u}]
RejectCommands(p) == [p EXCEPT !.awaited = {}]

Route(p, r, answer) ==
  IF \E a \in p.awaited : a.u = r.u THEN SettleCommand(p, r.u) ELSE HandlePoll(p, r, answer)

(* The effects that follow a render: commands are rejected when the page   *)
(* is not connected, and everything subscribed is polled.                  *)
Effects(p) == PollAll(IF p.conn THEN [p EXCEPT !.due = FALSE] ELSE RejectCommands([p EXCEPT !.due = FALSE]))

MarkUnavailable(p) == [p EXCEPT !.conn = FALSE, !.connecting = FALSE, !.dev = FALSE, !.due = TRUE]

Refresh(p, q) == PollIdentity(ForgetIdentity(p, q), q, TRUE)

-----------------------------------------------------------------------------
Connect ==
  /\ ~page.conn /\ ~page.connecting /\ page.sock \notin {"opening", "open"} /\ ~page.due
  /\ page' = [page EXCEPT !.sock = "opening", !.connecting = TRUE, !.wire = <<>>]
Opens ==
  /\ page.sock = "opening"
  /\ page' = [page EXCEPT !.sock = "open", !.conn = TRUE, !.connecting = FALSE, !.due = TRUE]
ConnectTimesOut ==
  page.sock = "opening" /\ page' = [MarkUnavailable(page) EXCEPT !.sock = "closing"]
Disconnect == page.conn /\ page.sock = "open" /\ page' = [page EXCEPT !.sock = "closing", !.wire = <<>>]
ClearConfig ==
  /\ page.sock \in {"opening", "open"}
  /\ page' = [MarkUnavailable(page) EXCEPT !.sock = "closing", !.wire = <<>>]
Closes ==
  /\ page.sock # "none"
  /\ page' = [MarkUnavailable(page) EXCEPT !.sock = "none", !.wire = <<>>]

DeviceChanges ==
  page.conn /\ \E b \in BOOLEAN : b # page.dev /\ page' = [page EXCEPT !.dev = b, !.due = TRUE]
RunEffects == page.due /\ page' = Effects(page)
SaveWidget(i) ==
  \E s \in {NoSub} \union {{Sub(Widgets[i], q, hz)} : q \in Queries, hz \in Rates} :
    s # page.config[i] /\ page' = SyncWidgets(page, [page.config EXCEPT ![i] = s])
Tick(q) == page.timers[q] # 0 /\ page' = PollIdentity(page, q, FALSE)

(* A widget that has written asks for the value again: an answer to a poll *)
(* from before is of no use any more.                                      *)
RefreshQuery(q) ==
  page' = Refresh([page EXCEPT
    !.wire = [i \in DOMAIN @ |-> IF @[i].kind = "poll" /\ @[i].of = q THEN [@[i] EXCEPT !.old = TRUE] ELSE @[i]],
    !.snap[q].stale = FALSE], q)
RefreshTimesOut(e) ==
  /\ e.timed
  /\ page' = [TakePending(page, e.u) EXCEPT !.snap[e.q].loading = FALSE, !.snap[e.q].error = TRUE]

SendCommand(c) ==
  /\ c \notin page.issued
  /\ LET p == [page EXCEPT !.issued = @ \union {c}]
     IN page' = IF ~p.conn \/ p.sock # "open" THEN p
                ELSE [Sent(p, Request(NewId(p), "command", c)) EXCEPT !.awaited = @ \union {[u |-> NewId(p), c |-> c]}]
CommandTimesOut(a) == page' = SettleCommand(page, a.u)

Reply ==
  /\ page.sock = "open" /\ page.wire # <<>>
  /\ \E answer \in {"value", "error", "lost"} :
       page' = Route([page EXCEPT !.wire = Tail(@)], Head(page.wire), answer)

Init == page = Page0
Next ==
  \/ Connect \/ Opens \/ ConnectTimesOut \/ Disconnect \/ ClearConfig \/ Closes
  \/ DeviceChanges \/ RunEffects \/ Reply
  \/ \E i \in DOMAIN Widgets : SaveWidget(i)
  \/ \E q \in Queries : Tick(q) \/ RefreshQuery(q)
  \/ \E e \in page.pending : RefreshTimesOut(e)
  \/ \E c \in Commands : SendCommand(c)
  \/ \E a \in page.awaited : CommandTimesOut(a)
Spec == Init /\ [][Next]_page

WireBound == Len(page.wire) <= MaxWire

-----------------------------------------------------------------------------
(* A query is polled once at a time, and a widget that shows "loading"     *)
(* waits for a request that is still owned: nothing loads for ever because *)
(* its request was forgotten.                                              *)
LoadingIsOwned ==
  /\ page.busy = {e.q : e \in page.pending}
  /\ \A e, f \in page.pending : e.q = f.q => e = f
  /\ \A q \in Queries : page.snap[q].loading => q \in page.busy

(* There is an interval exactly for the queries a saved widget wants, at   *)
(* the fastest rate any of them asked for last, and a query's group holds  *)
(* the mounted widgets that show it.                                       *)
IntervalsMatchWidgets ==
  \A q \in Queries :
    /\ page.timers[q] = Fastest({s \in UNION {page.config[i] : i \in DOMAIN Widgets} : s.q = q})
    /\ page.groups[q] = {s \in page.widgets : s.q = q}

(* A value asked for before a refresh is never shown after it.             *)
RefreshedValueIsNew == \A q \in Queries : ~page.snap[q].stale

(* While a socket is open and its effects have run, whatever waits for an  *)
(* answer waits for one this socket can still bring: no poll or command of *)
(* an earlier socket is left to block its query or its caller.             *)
WaitsForThisSocket ==
  (page.sock = "open" /\ page.conn /\ ~page.due) =>
    \A e \in page.pending \union page.awaited :
      \E i \in DOMAIN page.wire : page.wire[i].u = e.u
=============================================================================
