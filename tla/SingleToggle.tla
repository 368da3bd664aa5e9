---------------------------- MODULE SingleToggle ----------------------------
(***************************************************************************)
(* The toggle widget: a status check, a change that checks first, writes   *)
(* and verifies, and, with auto refresh, the state of the query the page   *)
(* polls.                                                                  *)
(***************************************************************************)
EXTENDS Requests

CONSTANTS Devices, MaxWire

VARIABLE w

Other(s) == IF s = "on" THEN "off" ELSE "on"
Initial == [state |-> "unknown", busy |-> FALSE, error |-> FALSE]
Busy(x) == [x EXCEPT !.status.busy = TRUE]
Show(x, s, failed) == [x EXCEPT !.status = [state |-> s, busy |-> FALSE, error |-> failed]]

(* An automatic check still under way for the same device and responses is *)
(* shared, unless a lost connection made the widget forget it.             *)
Request(kind, d, then, target) ==
  [kind |-> kind, dev |-> d, then |-> then, target |-> target, auto |-> FALSE, cur |-> TRUE]
Check(x, d, then, target) == Ask(Busy(Outdated(x)), Request("check", d, then, target))
Shared(x) == {i \in DOMAIN x.wire : x.wire[i].auto /\ x.wire[i].dev = x.config.dev}
AutoCheck(x) ==
  IF Shared(x) # {} THEN [Busy(Outdated(x)) EXCEPT !.wire[CHOOSE i \in Shared(x) : TRUE].cur = TRUE]
  ELSE Ask(Busy(Outdated(x)), [Request("check", x.config.dev, "show", "unknown") EXCEPT !.auto = TRUE])
Forget(x) == [x EXCEPT !.wire = [i \in DOMAIN @ |-> IF i \in Shared(x) THEN [@[i] EXCEPT !.auto = FALSE] ELSE @[i]]]

-----------------------------------------------------------------------------
Click ==
  /\ ~w.due /\ Available(w) /\ ~w.status.busy
  /\ w' = IF w.status.state = "unknown" THEN Check(w, w.config.dev, "show", "unknown")
          ELSE Check(w, w.config.dev, "change", Other(w.status.state))

Change(x, f, s) ==
  IF s \in {"unknown", f.target} THEN x ELSE Ask(Busy(Outdated(x)), Request("write", f.dev, "verify", f.target))

Checked(x, f, s) == IF f.cur THEN Show(x, s, s = "unknown") ELSE x

CheckAnswer(x, f) ==
  \E s \in {x.dev[f.dev], "unknown"} :
    w' = IF f.cur /\ f.then = "change" THEN Change(Checked(x, f, s), f, s) ELSE Checked(x, f, s)
Written(x, f) == [x EXCEPT !.dev[f.dev] = f.target]
WriteAnswer(x, f) ==
  w' = IF f.cur THEN Check(Written(x, f), f.dev, "verify", f.target) ELSE Written(x, f)
Answer ==
  /\ w.wire # <<>>
  /\ LET f == Head(w.wire) IN IF f.kind = "check" THEN CheckAnswer(Took(w, 1), f) ELSE WriteAnswer(Took(w, 1), f)

Fails(i) ==
  LET f == w.wire[i] IN
    IF f.kind = "check" THEN w' = IF f.cur THEN Show(Took(w, i), "unknown", TRUE) ELSE Took(w, i)
    ELSE \E x \in {Took(w, i), Written(Took(w, i), f)} : w' = IF f.cur THEN Show(x, Other(f.target), TRUE) ELSE x

-----------------------------------------------------------------------------
RunEffects ==
  /\ w.due
  /\ LET x == Outdated([w EXCEPT !.due = FALSE])
     IN w' = IF Available(w) THEN AutoCheck(x) ELSE Forget([x EXCEPT !.status = Initial])
(* The polled value, which may be older than a change just verified.       *)
SnapshotEffect ==
  /\ ~w.due /\ Available(w) /\ w.config.auto /\ ~w.status.busy /\ w.polled # "none"
  /\ w' = Show(w, w.polled, w.polled = "unknown")
Polled == Available(w) /\ \E s \in {w.dev[w.config.dev], "unknown"} : w' = [w EXCEPT !.polled = s]

SaveSettings ==
  \E d \in Devices, auto \in BOOLEAN :
    LET config == [dev |-> d, auto |-> auto] IN
      config # w.config /\ w' = [Saved(w, config) EXCEPT !.polled = IF d = w.config.dev THEN @ ELSE "none"]
ConfigReloaded == w' = Reloaded(w)
DeviceSwitches ==
  \E d \in Devices : w' = [Switched(w, d) EXCEPT !.polled = IF d = w.config.dev THEN "none" ELSE @]

Init == \E d \in Devices, s \in {"on", "off"} :
  w = [config |-> [dev |-> d, auto |-> FALSE], up |-> {}, due |-> TRUE, wire |-> <<>>, status |-> Initial,
       polled |-> "none", dev |-> [e \in Devices |-> s]]
Next ==
  \/ Answer \/ SnapshotEffect \/ Polled
  \/ ~w.due /\ (SaveSettings \/ ConfigReloaded \/ DeviceSwitches)
  \/ Len(w.wire) < MaxWire /\ (Click \/ RunEffects)
  \/ \E i \in DOMAIN w.wire : Fails(i)
Spec == Init /\ [][Next]_w

-----------------------------------------------------------------------------
LoadingEnds == w.status.busy => w.due \/ \E i \in DOMAIN w.wire : w.wire[i].cur
(* Polled values aside, a state shown without an error is the device's.    *)
ShownIsDevice ==
  (Available(w) /\ ~w.due /\ ~w.config.auto /\ ~w.status.busy /\ ~w.status.error) =>
    w.status.state = w.dev[w.config.dev]
EveryCommandChanges ==
  \A i \in DOMAIN w.wire : w.wire[i].kind = "write" => w.dev[w.wire[i].dev] # w.wire[i].target
=============================================================================
