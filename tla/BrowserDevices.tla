--------------------------- MODULE BrowserDevices ---------------------------
(***************************************************************************)
(* The browser's view of one device, and what keeps it in step with the    *)
(* proxy: the connect and disconnect requests with their UUIDs and         *)
(* timeout (useDeviceCommands), automatic recovery (useDeviceRecovery),    *)
(* status checks after errors, the startup auto-connect, the identity      *)
(* query and the scheduler's poll, over one WebSocket whose frames the     *)
(* proxy serves in order (psu-fe/src/connection/ws-proxy).                 *)
(*                                                                         *)
(* React is part of the behaviour: handlers change refs at once, the page  *)
(* shows them at a later render, the effects of that render run later      *)
(* still, and the user clicks on what the page shows.                      *)
(***************************************************************************)
EXTENDS Naturals, Sequences, FiniteSets, SequencesExt

CONSTANTS
  MaxClicks,    \* bound: clicks on the device's Connect / Disconnect button
  MaxLosses,    \* bound: times the instrument drops its link to the backend
  MaxDrops,     \* bound: times the WebSocket breaks
  AutoConnect   \* TRUE: the device's row has auto-connect enabled

ASSUME BrowserAssumption ==
  /\ MaxClicks \in Nat /\ MaxLosses \in Nat /\ MaxDrops \in Nat
  /\ AutoConnect \in BOOLEAN

VARIABLES
  ui,         \* what the page's refs, timers and React state hold (a record)
  inn,        \* replies on their way to the page, in order
  connected,  \* the backend holds an open transport to the instrument
  clicks, losses, drops,
  revoked,    \* ghost: the user's last click was Disconnect or Cancel
  abandoned,  \* ghost: a connect request timed out that may yet succeed
  hasty       \* ghost: Connect was clicked before a disconnect was answered

vars == <<ui, inn, connected, clicks, losses, drops, revoked, abandoned, hasty>>

Retries == 3   \* Len(DEVICE_RECOVERY_DELAYS_MS)
Ids     == Nat \ {0}
None    == 0
States  == {"UNKNOWN", "DISCONNECTED", "CONNECTING", "CONNECTED", "DISCONNECTING"}

Shown == [state : States, reconnecting : BOOLEAN, connecting : BOOLEAN, ws : BOOLEAN]
Frame == [kind : {"list", "status", "connect", "disconnect", "idn", "poll"}, id : Ids]
Reply == [kind : {"list", "OK CONNECTED", "OK DISCONNECTED", "ERR", "UP", "DOWN",
                  "VALUE", "LOST", "TIMEOUT"}, id : Ids]

(* The page: its device's row, the requests and timers of each hook, its   *)
(* socket, what awaits rendering and its effects, and what is rendered.    *)
Page ==
  [state : States, reconnecting : BOOLEAN, listed : BOOLEAN,
   pending : BOOLEAN, timer : BOOLEAN, connectReq : SUBSET Ids, disconnectReq : SUBSET Ids,
   eligible : BOOLEAN, attempts : 0 .. Retries, manual : BOOLEAN, retryTimer : BOOLEAN,
   statusReq : Ids \cup {None}, autoTimer : BOOLEAN,
   asked : BOOLEAN, idnReq : Ids \cup {None}, identity : BOOLEAN, tries : Nat,
   socket : {"closed", "open", "closing"}, ws : BOOLEAN, out : Seq(Frame), poll : Ids \cup {None},
   stale : BOOLEAN, due : BOOLEAN, shown : Shown]

(* A page before its socket opens for the first time.                      *)
Fresh ==
  [state |-> "UNKNOWN", reconnecting |-> FALSE, listed |-> FALSE,
   pending |-> FALSE, timer |-> FALSE, connectReq |-> {}, disconnectReq |-> {},
   eligible |-> FALSE, attempts |-> 0, manual |-> FALSE, retryTimer |-> FALSE,
   statusReq |-> None, autoTimer |-> FALSE,
   asked |-> FALSE, idnReq |-> None, identity |-> FALSE, tries |-> 0,
   socket |-> "closed", ws |-> FALSE, out |-> <<>>, poll |-> None,
   stale |-> FALSE, due |-> FALSE,
   shown |-> [state |-> "UNKNOWN", reconnecting |-> FALSE, connecting |-> FALSE, ws |-> FALSE]]

(* resetDeviceState: the hooks forget the device; the scheduler keeps its  *)
(* request, React what it has rendered.                                    *)
Reset(u) == [Fresh EXCEPT !.poll = u.poll, !.due = u.due, !.shown = u.shown, !.stale = TRUE]

-----------------------------------------------------------------------------
(* sendWsMessage: nothing is sent, and no UUID returned, unless open.      *)

InUse(u) == {m.id : m \in Range(u.out) \cup Range(inn)} \cup u.connectReq
              \cup u.disconnectReq \cup {u.statusReq, u.idnReq, u.poll}
\* An identifier that nothing refers to stands for a new UUID.
NewId(u) == CHOOSE i \in 1 .. Cardinality(InUse(u)) + 1 : i \notin InUse(u)

Send(u, kind) == [u EXCEPT !.out = Append(@, [kind |-> kind, id |-> NewId(u)])]
CanSend(u) == u.socket = "open"

(* recordState: a connection the user did not revoke earns recovery and a  *)
(* new budget; a failure after the last attempt ends it.                   *)
RecordState(u, s) ==
  LET earned == s = "CONNECTED" /\ ~u.manual
      spent  == IF earned THEN 0 ELSE u.attempts
      ok     == (u.eligible \/ earned) /\ ~(s = "DISCONNECTED" /\ spent >= Retries)
  IN [u EXCEPT !.attempts = spent, !.eligible = ok,
               !.reconnecting = ok /\ s \in {"DISCONNECTED", "CONNECTING"}]

\* Mutant: leaving CONNECTED keeps the identity request.
PatchKeepsIdentity(u, s) ==
  LET r == [RecordState(u, s) EXCEPT !.state = s, !.stale = TRUE]
  IN IF s = "CONNECTED" THEN [r EXCEPT !.tries = 0] ELSE [r EXCEPT !.asked = FALSE]

(* patchStatus with a state; leaving CONNECTED forgets the identity.       *)
Patch(u, s) ==
  LET r == [RecordState(u, s) EXCEPT !.state = s, !.stale = TRUE]
  IN IF s = "CONNECTED" THEN [r EXCEPT !.tries = 0]
     ELSE [r EXCEPT !.asked = FALSE, !.idnReq = None, !.identity = FALSE]

(* finish: the connect attempt is over, whatever its result.               *)
Finish(u) == [u EXCEPT !.timer = FALSE, !.connectReq = {}, !.pending = FALSE, !.stale = TRUE]

Failed(u) == Patch(Finish(u), "DISCONNECTED")

Connect(u) ==
  IF ~u.listed \/ u.pending \/ u.state = "CONNECTED" THEN u
  ELSE LET v == [Patch(u, "CONNECTING")
                   EXCEPT !.pending = TRUE, !.timer = TRUE, !.manual = FALSE]
       IN IF CanSend(v) THEN [Send(v, "connect") EXCEPT !.connectReq = @ \cup {NewId(v)}]
          ELSE Failed(v)

\* Mutant: a manual disconnect only stops the timer.
SuppressTimerOnly(u) == [u EXCEPT !.manual = TRUE, !.retryTimer = FALSE]

Suppress(u) == [u EXCEPT !.eligible = FALSE, !.attempts = 0, !.manual = TRUE,
                         !.retryTimer = FALSE]

Disconnect(u) ==
  LET v == Patch(Finish(Suppress(u)), "DISCONNECTING")
  IN IF ~u.listed THEN u
     ELSE IF CanSend(v) THEN [Send(v, "disconnect") EXCEPT !.disconnectReq = @ \cup {NewId(v)}]
     ELSE Patch(v, IF u.state = "CONNECTED" THEN "CONNECTED" ELSE "DISCONNECTED")

(* identities.request: once per connection.                                *)
RequestIdentity(u) ==
  IF ~u.listed \/ u.state # "CONNECTED" \/ u.asked \/ ~CanSend(u) THEN u
  ELSE [Send(u, "idn") EXCEPT !.asked = TRUE, !.idnReq = NewId(u)]

(* pollIdentity: at most one request of the subscription is unanswered.    *)
PollIdentity(u) ==
  IF ~(u.ws /\ u.listed /\ u.state = "CONNECTED") THEN [u EXCEPT !.poll = None]
  ELSE IF u.poll # None \/ ~CanSend(u) THEN u
  ELSE [Send(u, "poll") EXCEPT !.poll = NewId(u)]

(* requestDevicesAndStatuses, on open.                                     *)
OnOpen(u) == Send(Send([u EXCEPT !.socket = "open", !.ws = TRUE, !.stale = TRUE], "list"), "status")

-----------------------------------------------------------------------------
(* Replies, by the handler that takes them.                                *)

HandleList(u, m) ==
  [u EXCEPT !.listed = TRUE, !.stale = TRUE, !.autoTimer = AutoConnect,
            !.state = IF @ = "UNKNOWN" THEN "DISCONNECTED" ELSE @]

\* Mutant: a stale disconnected status ends the attempt.
ApplyStaleStatus(u, up) ==
  IF up /\ u.manual THEN u
  ELSE Patch(Finish(u), IF up THEN "CONNECTED" ELSE "DISCONNECTED")

ApplyStatus(u, up) ==
  IF up /\ u.manual THEN u
  ELSE IF u.pending /\ ~up THEN Patch(u, "CONNECTING")
  ELSE Patch(Finish(u), IF up THEN "CONNECTED" ELSE "DISCONNECTED")

HandleStatus(u, m) ==
  LET v == ApplyStatus([u EXCEPT !.statusReq = IF @ = m.id THEN None ELSE @], m.kind = "UP")
  IN IF m.kind = "UP" THEN RequestIdentity(v) ELSE v

HandleConnected(u, m) ==
  IF m.id \notin u.connectReq THEN u
  ELSE RequestIdentity(Patch(Finish(u), "CONNECTED"))

HandleDisconnected(u, m) ==
  IF m.id \notin u.disconnectReq \cup u.connectReq THEN u
  ELSE Patch(Finish([u EXCEPT !.disconnectReq = @ \ {m.id}]), "DISCONNECTED")

HandleError(u, m) ==
  IF m.id \notin u.disconnectReq \cup u.connectReq THEN u
  ELSE Failed([u EXCEPT !.disconnectReq = IF m.id \in u.connectReq THEN @ ELSE @ \ {m.id}])

(* checkDeviceStatusAfterError: a confirmed loss is shown at once, another *)
(* error asks for /status unless a check is already unanswered.            *)
CheckAfterError(u, lost) ==
  IF lost THEN IF u.state = "CONNECTED" THEN Patch(u, "DISCONNECTED") ELSE u
  ELSE IF u.statusReq # None \/ ~CanSend(u) THEN u
  ELSE [Send(u, "status") EXCEPT !.statusReq = NewId(u)]

\* Mutant: an error keeps the poll's request.
HandleDataKeepsPoll(u, m) ==
  CASE m.id = u.poll ->
         IF m.kind = "VALUE" THEN [u EXCEPT !.poll = None]
         ELSE CheckAfterError(u, m.kind = "LOST")
    [] m.id = u.idnReq ->
         [u EXCEPT !.idnReq = None, !.identity = m.kind = "VALUE", !.stale = TRUE]
    [] OTHER -> u

(* A reply to CMD: the scheduler's poll first, then the identity request.  *)
HandleData(u, m) ==
  CASE m.id = u.poll ->
         IF m.kind = "VALUE" THEN [u EXCEPT !.poll = None]
         ELSE CheckAfterError([u EXCEPT !.poll = None], m.kind = "LOST")
    [] m.id = u.idnReq ->
         [u EXCEPT !.idnReq = None, !.identity = m.kind = "VALUE", !.stale = TRUE]
    [] OTHER -> u

Handle(u, m) ==
  CASE m.kind = "list"            -> HandleList(u, m)
    [] m.kind \in {"UP", "DOWN"}  -> HandleStatus(u, m)
    [] m.kind = "OK CONNECTED"    -> HandleConnected(u, m)
    [] m.kind = "OK DISCONNECTED" -> HandleDisconnected(u, m)
    [] m.kind = "ERR"             -> HandleError(u, m)
    [] OTHER                      -> HandleData(u, m)

-----------------------------------------------------------------------------
Init ==
  /\ ui = Fresh
  /\ inn = <<>> /\ connected \in BOOLEAN
  /\ clicks = 0 /\ losses = 0 /\ drops = 0
  /\ revoked = FALSE /\ abandoned = FALSE /\ hasty = FALSE

backend == <<inn, connected, losses>>
ghosts  == <<revoked, abandoned, hasty>>

(* The socket opens, at startup or by the page's Connect button, which is  *)
(* clicked on a page that has settled on showing the socket closed.        *)
OpenSocket ==
  /\ ui.socket = "closed" /\ ~ui.shown.ws /\ ~ui.stale /\ ~ui.due
  /\ ui' = OnOpen(ui)
  /\ UNCHANGED <<backend, clicks, drops, ghosts>>

Deliver ==
  /\ inn # <<>>
  /\ ui' = Handle(ui, Head(inn)) /\ inn' = Tail(inn)
  /\ abandoned' = (abandoned /\ ui'.state # "CONNECTED")
  /\ UNCHANGED <<connected, clicks, losses, drops, revoked, hasty>>

(* A commit of the latest refs, and later the effects that read it.        *)
Render ==
  /\ ui.stale /\ ~ui.due
  /\ ui' = [ui EXCEPT !.stale = FALSE, !.due = TRUE,
                      !.shown = [state |-> ui.state, reconnecting |-> ui.reconnecting,
                                 connecting |-> ui.pending, ws |-> ui.ws]]
  /\ UNCHANGED <<backend, clicks, drops, ghosts>>

\* Mutant: the last delay is never used.
ArmRetryTwice(u) ==
  [u EXCEPT !.retryTimer = /\ u.shown.ws /\ u.shown.reconnecting
                           /\ u.shown.state = "DISCONNECTED"
                           /\ (@ \/ u.attempts < Retries - 1)]

ArmRetry(u) ==
  [u EXCEPT !.retryTimer = /\ u.shown.ws /\ u.shown.reconnecting
                           /\ u.shown.state = "DISCONNECTED"
                           /\ (@ \/ u.attempts < Retries)]

RunEffects ==
  /\ ui.due
  /\ ui' = PollIdentity([ArmRetry(ui) EXCEPT !.due = FALSE])
  /\ UNCHANGED <<backend, clicks, drops, ghosts>>

PollInterval ==
  /\ ui' = PollIdentity(ui) /\ ui' # ui
  /\ UNCHANGED <<backend, clicks, drops, ghosts>>

\* Mutant: a retry is not counted.
RetryUncounted(u) ==
  LET v == [u EXCEPT !.retryTimer = FALSE]
  IN IF ~u.eligible \/ u.state # "DISCONNECTED" THEN v
     ELSE Connect([v EXCEPT !.tries = @ + 1])

RetryDevice(u) ==
  LET v == [u EXCEPT !.retryTimer = FALSE]
  IN IF ~u.eligible \/ u.state # "DISCONNECTED" THEN v
     ELSE Connect([v EXCEPT !.attempts = @ + 1, !.tries = @ + 1])

RetryFires ==
  /\ ui.retryTimer
  /\ ui' = RetryDevice(ui)
  /\ UNCHANGED <<backend, clicks, drops, ghosts>>

\* Mutant: the timeout ends the request and shows nothing.
TimesOutSilently ==
  /\ ui.timer
  /\ ui' = Finish(ui)
  /\ abandoned' = TRUE
  /\ UNCHANGED <<backend, clicks, drops, revoked, hasty>>

(* The ten-second timer of a connect request.                              *)
ConnectTimesOut ==
  /\ ui.timer
  /\ ui' = Failed(ui)
  /\ abandoned' = TRUE
  /\ UNCHANGED <<backend, clicks, drops, revoked, hasty>>

(* connectConfiguredDevices, from the zero-delay timer of the device list. *)
AutoStart ==
  /\ ui.autoTimer
  /\ ui' = Connect([ui EXCEPT !.autoTimer = FALSE])
  /\ UNCHANGED <<backend, clicks, drops, ghosts>>

(* The row's button, as last rendered: Cancel, Disconnect or Connect.      *)
Clickable == /\ clicks < MaxClicks /\ ui.listed /\ ~ui.due /\ ~ui.autoTimer
             /\ ui.shown.state # "UNKNOWN"
OffersDisconnect == ui.shown.reconnecting \/ ui.shown.state = "CONNECTED"

ClickDisconnect ==
  /\ Clickable /\ OffersDisconnect
  /\ ui' = Disconnect(ui)
  /\ clicks' = clicks + 1 /\ revoked' = TRUE
  /\ UNCHANGED <<backend, drops, abandoned, hasty>>

ClickConnect ==
  /\ Clickable /\ ~OffersDisconnect /\ ~ui.shown.connecting
  /\ ui' = [Connect(ui) EXCEPT !.tries = 0]
  /\ clicks' = clicks + 1 /\ revoked' = FALSE
  /\ hasty' = (hasty \/ ui.disconnectReq # {})
  /\ UNCHANGED <<backend, drops, abandoned>>

(* The socket breaks: the proxy has served some of what was sent, and the  *)
(* page learns of it when the close event comes.                           *)
Drop ==
  /\ ui.socket = "open" /\ drops < MaxDrops
  /\ drops' = drops + 1 /\ inn' = <<>>
  /\ \E n \in 0 .. Len(ui.out) :
       LET served == {m.kind : m \in Range(SubSeq(ui.out, 1, n))}
       IN connected' \in IF {"connect", "disconnect"} \cap served = {} THEN {connected}
                         ELSE BOOLEAN
  /\ ui' = [ui EXCEPT !.socket = "closing", !.out = <<>>]
  /\ UNCHANGED <<clicks, losses, ghosts>>

(* markUnavailable and resetDeviceState.                                   *)
CloseEvent ==
  /\ ui.socket = "closing"
  /\ ui' = Reset(ui)
  /\ revoked' = FALSE /\ abandoned' = FALSE /\ hasty' = FALSE
  /\ UNCHANGED <<backend, clicks, drops>>

-----------------------------------------------------------------------------
(* The proxy, one frame of the session at a time.                          *)

Answer(kind) == inn' = Append(inn, [kind |-> kind, id |-> Head(ui.out).id])

Serve ==
  /\ ui.out # <<>>
  /\ ui' = [ui EXCEPT !.out = Tail(@)]
  /\ LET kind == Head(ui.out).kind IN
     \/ kind = "list" /\ Answer("list") /\ UNCHANGED <<connected, abandoned>>
     \/ /\ kind = "status" /\ Answer(IF connected THEN "UP" ELSE "DOWN")
        /\ UNCHANGED <<connected, abandoned>>
     \/ /\ kind = "connect" /\ Answer("OK CONNECTED")
        /\ connected' = TRUE /\ UNCHANGED abandoned
     \/ /\ kind = "connect" /\ ~connected /\ Answer("ERR")
        /\ UNCHANGED <<connected, abandoned>>
     \/ /\ kind = "disconnect" /\ Answer("OK DISCONNECTED")
        /\ connected' = FALSE /\ abandoned' = FALSE
     \/ /\ kind \in {"idn", "poll"}
        /\ \E r \in IF connected THEN {"VALUE", "TIMEOUT"} ELSE {"LOST"} : Answer(r)
        /\ UNCHANGED <<connected, abandoned>>
  /\ UNCHANGED <<clicks, losses, drops, revoked, hasty>>

(* The instrument's link breaks.                                           *)
Lose ==
  /\ connected /\ losses < MaxLosses
  /\ connected' = FALSE /\ losses' = losses + 1
  /\ UNCHANGED <<ui, inn, clicks, drops, ghosts>>

Next ==
  \/ OpenSocket \/ Deliver \/ Render \/ RunEffects \/ PollInterval
  \/ RetryFires \/ ConnectTimesOut \/ AutoStart
  \/ ClickDisconnect \/ ClickConnect
  \/ Drop \/ CloseEvent \/ Serve \/ Lose

Spec == Init /\ [][Next]_vars

(* The browser's event loop runs its timers, messages, renders and effects *)
(* and the proxy its session; clicks, losses and drops owe nothing.        *)
FairSpec ==
  /\ Spec
  /\ WF_vars(Deliver) /\ WF_vars(Serve) /\ WF_vars(Render) /\ WF_vars(RunEffects)
  /\ WF_vars(PollInterval) /\ WF_vars(RetryFires) /\ WF_vars(ConnectTimesOut)
  /\ WF_vars(AutoStart) /\ WF_vars(CloseEvent)

-----------------------------------------------------------------------------
(* PROPERTIES                                                              *)

(* Every variable and every field of the page keeps its type.              *)
TypeOK ==
  /\ ui \in Page /\ inn \in Seq(Reply)
  /\ {connected, revoked, abandoned, hasty} \subseteq BOOLEAN
  /\ clicks \in 0 .. MaxClicks /\ losses \in 0 .. MaxLosses /\ drops \in 0 .. MaxDrops

(* A device is shown connecting exactly while its connect request is       *)
(* pending under a running ten-second timer, whatever statuses, losses,    *)
(* clicks and late answers come in between (useDeviceCommands.js:34-90).   *)
ConnectingIsTimed ==
  (ui.state = "CONNECTING") = ui.pending /\ ui.pending = ui.timer

(* "manual disconnect revokes eligibility": after Disconnect or Cancel no  *)
(* timer, reply or effect sends /connect until the user clicks Connect     *)
(* (useDeviceRecovery.js:21, 53-89).                                       *)
ConnectSent == Len(ui'.out) > Len(ui.out) /\ Last(ui'.out).kind = "connect"
ManualDisconnectHolds == [][ConnectSent => ~revoked']_vars

(* At most three retries follow a lost connection before the user connects *)
(* or a connection succeeds (README.MD:361-364), however statuses, losses  *)
(* and timeouts interleave with the timers.                                *)
RetryBudget == ui.tries <= Retries

(* Attempts to connect are bounded in time and in number.                  *)
AttemptsAreBounded == TypeOK /\ ConnectingIsTimed /\ RetryBudget

(* An identity, and the request one is awaited from, belong to the         *)
(* connection now shown: one asked before a disconnect is never shown      *)
(* after it (useDeviceIdentities.js:57-66).                                *)
IdentityOfThisConnection ==
  ui.identity \/ ui.idnReq # None => ui.state = "CONNECTED" /\ ui.asked

(* Once nothing is in flight, a device shown disconnected has no transport *)
(* open in the backend: no status, error, retry or lost link makes the     *)
(* page forget one.  Two sequences do: a connect given up at its timeout   *)
(* may still succeed, and the answer to a disconnect also cancels a        *)
(* connect clicked before it came (finish, useDeviceCommands.js:76-90).    *)
Quiet == /\ ui.socket = "open" /\ ui.listed /\ ui.out = <<>> /\ inn = <<>>
         /\ ~ui.pending /\ ~ui.autoTimer
ShownDisconnectedIsClosed ==
  Quiet /\ ui.state = "DISCONNECTED" /\ ~abandoned /\ ~hasty => ~connected

(* Every connect attempt ends: in a connection, a failure or the timeout.  *)
ConnectingEnds == ui.state = "CONNECTING" ~> ui.state # "CONNECTING"

(* A link the instrument dropped is noticed by polling: the page stops     *)
(* showing it connected, unless it is connected again (README.MD:355-358). *)
LossNoticed ==
  ui.state = "CONNECTED" /\ ~connected ~> (ui.state # "CONNECTED" \/ connected)

(* A disconnected device that may still be retried is: the effect that     *)
(* arms the timer is never missed (useDeviceRecovery.js:31-49).            *)
LostDeviceRetried ==
  (ui.state = "DISCONNECTED" /\ ui.eligible)
     ~> (ui.state # "DISCONNECTED" \/ ~ui.eligible)

=============================================================================
