-------------------------- MODULE ConnectionConfig --------------------------
(***************************************************************************)
(* The settings of the WebSocket connection: the endpoint, stored when the *)
(* operator connects, the auto-connect switches, stored at once together   *)
(* with what the endpoint fields hold, and the socket, which a page opens  *)
(* unasked only while it starts.  An endpoint is a model value; those not  *)
(* in Complete lack a field.  w.marked, w.quiet and w.hasty are history:   *)
(* the devices the operator marked, that the operator cleared the settings *)
(* or typed before the start-up timer.                                     *)
(***************************************************************************)
EXTENDS Naturals

CONSTANTS Endpoints, Complete, Devices,
  Runtime       \* the endpoint the installer provides

VARIABLE w

NoEndpoint == "none"
EMPTY_CONFIG == [ep |-> NoEndpoint, auto |-> FALSE, ids |-> {}]
(* Formats of what is stored: older releases named the devices otherwise.  *)
Missing == {"none", "damaged"}
Nothing == [kind |-> "none", config |-> EMPTY_CONFIG, legacy |-> {}]
Stored(config) == [kind |-> "current", config |-> config, legacy |-> config.ids]

loadConfig(stored, runtime) ==
  IF stored.kind \in Missing THEN [EMPTY_CONFIG EXCEPT !.ep = runtime]
  ELSE [stored.config EXCEPT !.ids = IF stored.kind = "older" THEN stored.legacy ELSE @]
saveConfigToStorage(x) == [x EXCEPT !.stored = Stored(x.config)]

NoSocket == [state |-> "none", ep |-> NoEndpoint]
Live(x) == x.socket.state \in {"connecting", "open"}
connectWs(x) ==
  IF Live(x) THEN x
  ELSE [x EXCEPT !.socket = [state |-> "connecting", ep |-> x.config.ep], !.connecting = TRUE]
Unavailable(x) == [x EXCEPT !.connecting = FALSE, !.connected = FALSE]

Opened(x, runtime) ==
  LET config == loadConfig(x.stored, runtime) IN
    [x EXCEPT !.config = config, !.socket = NoSocket, !.connecting = FALSE, !.connected = FALSE, !.asked = {},
              !.starting = config.auto /\ config.ep \in Complete, !.quiet = FALSE, !.hasty = FALSE]

-----------------------------------------------------------------------------
(* The operator.                                                           *)
UpdateEndpoint ==
  /\ ~w.connected /\ ~w.connecting
  /\ \E e \in Endpoints : w' = [w EXCEPT !.config.ep = e, !.hasty = @ \/ w.starting]
UpdateAutoConnect == w' = saveConfigToStorage([w EXCEPT !.config.auto = ~@])
SetWsDeviceAutoConnect ==
  /\ w.connected
  /\ \E d \in Devices :
       LET Toggled(ids) == IF d \in ids THEN ids \ {d} ELSE ids \union {d} IN
         w' = saveConfigToStorage([w EXCEPT !.config.ids = Toggled(@), !.marked = Toggled(@)])
ConnectWs ==
  /\ ~w.connected /\ ~w.connecting /\ w.config.ep \in Complete
  /\ w' = [connectWs(saveConfigToStorage(w)) EXCEPT !.quiet = FALSE]
DisconnectWs == w.connected /\ w' = [w EXCEPT !.socket.state = "closing"]
ClearConnectionConfig ==
  w' = [Unavailable(w) EXCEPT !.starting = FALSE, !.config = EMPTY_CONFIG, !.stored = Nothing, !.quiet = TRUE,
                              !.marked = {}, !.socket.state = IF @ = "none" THEN @ ELSE "closing"]
Reload == \E runtime \in {Runtime, NoEndpoint} : w' = Opened(w, runtime)

(* The page's timers and the socket's events.                              *)
AutoConnect == w.starting /\ w' = connectWs([w EXCEPT !.starting = FALSE])
OnOpen ==
  w.socket.state = "connecting"
  /\ w' = [w EXCEPT !.socket.state = "open", !.connecting = FALSE, !.connected = TRUE, !.asked = w.config.ids]
TimesOut ==
  w.socket.state = "connecting" /\ ~w.starting /\ w' = [Unavailable(w) EXCEPT !.socket.state = "closing"]
OnClose == w.socket.state # "none" /\ w' = [Unavailable(w) EXCEPT !.socket = NoSocket]

Init ==
  \E kind \in {"none", "damaged", "older", "current"}, e \in Endpoints, auto \in BOOLEAN,
     ids \in SUBSET Devices, runtime \in {Runtime, NoEndpoint} :
    LET config == [ep |-> e, auto |-> auto, ids |-> IF kind = "older" THEN {} ELSE ids]
        stored == IF kind \in Missing THEN [Nothing EXCEPT !.kind = kind]
                  ELSE [kind |-> kind, config |-> config, legacy |-> ids]
    IN w = Opened([config |-> config, stored |-> stored, socket |-> NoSocket, connecting |-> FALSE,
                   connected |-> FALSE, asked |-> {}, starting |-> FALSE, quiet |-> FALSE, hasty |-> FALSE,
                   marked |-> IF kind \in Missing THEN {} ELSE ids], runtime)
Next ==
  \/ UpdateEndpoint \/ UpdateAutoConnect \/ SetWsDeviceAutoConnect \/ ConnectWs \/ DisconnectWs
  \/ ClearConnectionConfig \/ Reload \/ AutoConnect \/ OnOpen \/ TimesOut \/ OnClose
Spec == Init /\ [][Next]_w

-----------------------------------------------------------------------------
(* What is stored is what a reload would have to show: the switches are    *)
(* those shown, at all times and from every format; and the socket in use  *)
(* goes to the endpoint shown, which is the one stored, so that the next   *)
(* page connects to the same unless the operator types another.            *)
SwitchesAreStored ==
  LET loaded == loadConfig(w.stored, Runtime)
  IN loaded.auto = w.config.auto /\ loaded.ids = w.marked /\ w.config.ids = w.marked
SocketIsStored ==
  Live(w) => w.socket.ep = w.config.ep /\ (~w.hasty => w.stored.config.ep = w.socket.ep)

(* Once the operator has cleared the settings no socket is opened, or      *)
(* answered, before the operator connects again or reloads the page; and a *)
(* socket that opens connects the devices marked by then.                  *)
ClearIsFinal == w.quiet => ~Live(w) /\ ~w.connected
OpenStep == (~w.connected /\ w'.connected) => w'.asked = w.marked
=============================================================================
