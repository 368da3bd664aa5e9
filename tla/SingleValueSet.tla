--------------------------- MODULE SingleValueSet ---------------------------
(***************************************************************************)
(* The value widget with its set controls: a measurement that the page     *)
(* polls and shares, a write, and the refresh of the measurement that only *)
(* an acknowledged write may start.                                        *)
(***************************************************************************)
EXTENDS Requests

CONSTANTS Devices, Values, MaxWire

VARIABLE w

Blank == [loading |-> FALSE, error |-> FALSE, value |-> "--"]
Query(d) == [kind |-> "query", dev |-> d, set |-> "--", cur |-> TRUE]     \* cur: the poller owns it
Owned(x, d) == \E i \in DOMAIN x.wire : x.wire[i].kind = "query" /\ x.wire[i].dev = d /\ x.wire[i].cur
Disown(x, kind, devs) ==
  [x EXCEPT !.wire = [i \in DOMAIN @ |-> IF @[i].kind = kind /\ @[i].dev \in devs THEN [@[i] EXCEPT !.cur = FALSE] ELSE @[i]]]
Queried(x, d) == Ask([x EXCEPT !.snap[d] = [@ EXCEPT !.loading = TRUE, !.error = FALSE]], Query(d))

Refresh(x, d) == Queried(Disown(x, "query", {d}), d)

-----------------------------------------------------------------------------
RefreshPending(x) == x.phase = "refreshing" /\ x.snap[x.config].loading
SendValue ==
  /\ ~w.due /\ w.config \in w.up /\ w.phase # "writing" /\ ~RefreshPending(w) /\ ~w.pending
  /\ \E v \in Values : w' = Ask([w EXCEPT !.pending = TRUE, !.phase = "writing", !.done = FALSE],
                                [Query(w.config) EXCEPT !.kind = "write", !.set = v])

Written(x, f) == [x EXCEPT !.dev[f.dev] = f.set]
WriteAnswer(x, f) ==
  w' = IF ~f.cur THEN x
       ELSE IF f.dev \in x.up THEN [Refresh(x, f.dev) EXCEPT !.phase = "refreshing"]
       ELSE [x EXCEPT !.pending = FALSE, !.phase = "error"]
WriteFails(x, f) == w' = IF f.cur THEN [x EXCEPT !.pending = FALSE, !.phase = "error"] ELSE x
QueryAnswer(x, f) ==
  w' = IF f.cur THEN [x EXCEPT !.snap[f.dev] = [Blank EXCEPT !.value = x.dev[f.dev]]] ELSE x
QueryFails(x, f) ==
  w' = IF f.cur THEN [x EXCEPT !.snap[f.dev] = [@ EXCEPT !.loading = FALSE, !.error = TRUE]] ELSE x

Answer ==
  /\ w.wire # <<>>
  /\ LET f == Head(w.wire)
     IN IF f.kind = "query" THEN QueryAnswer(Took(w, 1), f) ELSE WriteAnswer(Written(Took(w, 1), f), f)
Fails(i) ==
  LET f == w.wire[i] IN
    IF f.kind = "query" THEN QueryFails(Took(w, i), f)
    ELSE \E x \in {Took(w, i), Written(Took(w, i), f)} : WriteFails(x, f)

(* The effect that ends an action, once, when the measurement has come.    *)
Finish ==
  /\ w.pending /\ w.phase = "refreshing" /\ ~w.snap[w.config].loading
  /\ LET failed == w.snap[w.config].error
     IN w' = [w EXCEPT !.pending = FALSE, !.done = ~failed, !.phase = IF failed THEN "error" ELSE "idle"]

RunEffects ==
  /\ w.due
  /\ w' = [Disown(w, "write", Devices) EXCEPT
             !.due = FALSE, !.pending = FALSE, !.phase = "idle", !.done = FALSE]

PollTick ==
  \E d \in w.up : ~Owned(w, d) /\ w' = Queried(w, d)
SaveSettings == \E d \in Devices : d # w.config /\ w' = Saved(w, d)
DeviceSwitches ==
  \E d \in Devices :
    w' = [Disown(w, "query", {d}) EXCEPT
            !.up = IF d \in @ THEN @ \ {d} ELSE @ \union {d}, !.snap[d] = Blank,
            !.due = @ \/ d = w.config]

Init == \E d \in Devices, v \in Values :
  w = [config |-> d, up |-> {}, due |-> TRUE, wire |-> <<>>, phase |-> "idle", pending |-> FALSE, done |-> FALSE,
       snap |-> [e \in Devices |-> Blank], dev |-> [e \in Devices |-> v]]
Next ==
  \/ Answer \/ Finish \/ RunEffects
  \/ ~w.due /\ (SaveSettings \/ DeviceSwitches)
  \/ Len(w.wire) < MaxWire /\ (SendValue \/ PollTick)
  \/ \E i \in DOMAIN w.wire : Fails(i)
Spec == Init /\ [][Next]_w

-----------------------------------------------------------------------------
(* Disabled buttons wait for something that will come.                     *)
LoadingEnds ==
  /\ w.phase = "writing" => w.due \/ \E i \in DOMAIN w.wire : w.wire[i].kind = "write" /\ w.wire[i].cur
  /\ \A d \in Devices : w.snap[d].loading => Owned(w, d)
  /\ w.pending => w.phase \in {"writing", "refreshing"}
(* What is shown when a set has finished was measured after the write.     *)
ShownIsDevice ==
  (w.done /\ ~w.due /\ ~w.snap[w.config].loading /\ ~w.snap[w.config].error) =>
    w.snap[w.config].value = w.dev[w.config]
=============================================================================
