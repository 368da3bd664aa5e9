----------------------------- MODULE Protection -----------------------------
(***************************************************************************)
(* The protection widget: the threshold, the switch and the trip state of  *)
(* one protection, a full reading, a poll of the trip state alone, writes  *)
(* that are verified by a reading, and the event that announces a trip.    *)
(* A session ends when the configuration or the connection changes; a      *)
(* setting that names no query or command keeps it.                        *)
(***************************************************************************)
EXTENDS Requests

CONSTANTS Devices, Switchable,  \* the devices whose protection can be switched
          Values, MaxTrips, MaxWire

VARIABLE w

Unknown == "unknown"
Initial == [value |-> Unknown, enabled |-> Unknown, tripped |-> Unknown, loading |-> FALSE, error |-> FALSE]
Key(x) == [dev |-> x.config.dev, run |-> Available(x)]

(* cur: the version is still this request's; held: the reference to its    *)
(* promise is.  A session's end clears both.                               *)
Request(kind, d, read) ==
  [kind |-> kind, dev |-> d, read |-> read, got |-> Initial, set |-> Unknown, cur |-> TRUE, held |-> TRUE]
Held(x, kind) == \E i \in DOMAIN x.wire : x.wire[i].kind = kind /\ x.wire[i].held
Loading(x) == [x EXCEPT !.rt.loading = TRUE, !.rt.error = FALSE]
Failed(x) == [x EXCEPT !.rt.loading = FALSE, !.rt.error = TRUE]
Released(x) == [x EXCEPT !.wire = [i \in DOMAIN @ |-> [@[i] EXCEPT !.held = FALSE]]]

Whole(d) == IF d \in Switchable THEN <<"value", "tripped", "enabled">> ELSE <<"value", "tripped">>
Refresh(x, d) ==
  IF Held(x, "full") THEN x
  ELSE Ask(Loading(Outdated(x)), Request("full", d, Whole(d)))

-----------------------------------------------------------------------------
(* Readings.  A device counts its trips: a trip is told once to those who  *)
(* listen, until a reading of it cannot be made out.                       *)
NoticeAlways(x, t) ==           \* mutant: the previous reading is not compared
  LET emit == t.is = "yes"
  IN [x EXCEPT !.last = t.is, !.again = @ \/ (emit /\ t.n \in x.told),
               !.told = IF t.is = Unknown THEN {} ELSE IF emit THEN @ \union {t.n} ELSE @]
Notice(x, t) ==
  LET emit == t.is = "yes" /\ x.last # "yes"
  IN [x EXCEPT !.last = t.is, !.again = @ \/ (emit /\ t.n \in x.told),
               !.told = IF t.is = Unknown THEN {} ELSE IF emit THEN @ \union {t.n} ELSE @]

Reading(x, f, t) ==
  LET what == Head(f.read)
      d == x.dev[f.dev]
  IN IF what = "tripped" THEN [f.got EXCEPT !.tripped = t]
     ELSE IF what = "value" THEN [f.got EXCEPT !.value = d.value] ELSE [f.got EXCEPT !.enabled = d.enabled]

Shown(x, f, got) ==
  IF f.kind = "poll" THEN [x EXCEPT !.rt.tripped = got.tripped.is]
  ELSE [x EXCEPT !.rt = [got EXCEPT !.tripped = got.tripped.is]]

ReadAnswer(x, f) ==
  \E t \in {[is |-> Unknown, n |-> 0], [is |-> IF x.dev[f.dev].tripped > 0 THEN "yes" ELSE "no", n |-> x.dev[f.dev].tripped]} :
    /\ Head(f.read) = "tripped" \/ t.is # Unknown
    /\ LET got == Reading(x, f, t)
       IN w' = IF Len(f.read) > 1 THEN Ask(x, [f EXCEPT !.read = Tail(@), !.got = got])
               ELSE IF f.cur THEN Notice(Shown(x, f, got), got.tripped) ELSE x

Written(x, f) ==
  [x EXCEPT !.dev[f.dev] = IF f.kind = "enable" THEN [@ EXCEPT !.enabled = f.set] ELSE [@ EXCEPT !.value = f.set]]
WriteAnswer(x, f) ==
  w' = IF ~f.cur THEN Written(x, f)
       ELSE Refresh(IF f.kind = "apply" THEN [Written(x, f) EXCEPT !.draft = Unknown] ELSE Written(x, f), f.dev)

Reads(f) == f.kind \in {"full", "poll"}
Answer ==
  /\ w.wire # <<>>
  /\ LET f == Head(w.wire) IN IF Reads(f) THEN ReadAnswer(Took(w, 1), f) ELSE WriteAnswer(Took(w, 1), f)
Fails(i) ==
  LET f == w.wire[i] IN
    \E x \in {Took(w, i)} \union (IF Reads(f) THEN {} ELSE {Written(Took(w, i), f)}) :
      w' = IF f.cur /\ f.kind # "poll" THEN Failed(x) ELSE x

-----------------------------------------------------------------------------
Idle == ~w.due /\ Available(w) /\ ~w.rt.loading
EditDraft == Idle /\ \E v \in Values : v # w.draft /\ w' = [w EXCEPT !.draft = v]
Write(kind, v) ==
  w' = Ask(Loading(w), [Request(kind, w.config.dev, <<>>) EXCEPT !.set = v, !.held = FALSE])
ClickApply == Idle /\ w.draft # Unknown /\ Write("apply", w.draft)
ClickEnable ==
  /\ Idle /\ w.config.dev \in Switchable /\ w.rt.enabled \in {"on", "off"}
  /\ Write("enable", IF w.rt.enabled = "on" THEN "off" ELSE "on")

(* The interval keeps the configuration of the effect that started it.     *)
PollTick ==
  /\ w.seen.run /\ ~Held(w, "poll") /\ ~Held(w, "full")
  /\ w' = Ask(w, Request("poll", w.seen.dev, <<"tripped">>))

RunEffects ==
  /\ w.due
  /\ LET new == Key(w) # w.seen
         x == [w EXCEPT !.due = FALSE, !.seen = Key(w)]
         y == IF new THEN [Released(Outdated(x)) EXCEPT !.rt = Initial, !.draft = Unknown, !.last = Unknown, !.told = {}]
              ELSE x
     IN w' = IF Available(w) THEN Refresh(y, w.config.dev) ELSE y

SaveSettings == \E d \in Devices : d # w.config.dev /\ w' = Saved(w, [w.config EXCEPT !.dev = d])
ConfigReloaded == w' = Reloaded(w)
DeviceSwitches == \E d \in Devices : w' = Switched(w, d)
DeviceTrips ==
  w.trips < MaxTrips /\ \E d \in Devices :
    w.dev[d].tripped = 0 /\ w' = [w EXCEPT !.dev[d] = [@ EXCEPT !.tripped = w.trips + 1], !.trips = @ + 1]
DeviceCleared == \E d \in Devices : w.dev[d].tripped > 0 /\ w' = [w EXCEPT !.dev[d] = [@ EXCEPT !.tripped = 0]]

Init == \E d \in Devices, v \in Values :
  w = [config |-> [dev |-> d], up |-> {}, due |-> TRUE, wire |-> <<>>, rt |-> Initial, draft |-> Unknown,
       last |-> Unknown, seen |-> [dev |-> d, run |-> FALSE], told |-> {}, again |-> FALSE, trips |-> 0,
       dev |-> [e \in Devices |-> [value |-> v, tripped |-> 0, enabled |-> IF e \in Switchable THEN "on" ELSE Unknown]]]
Next ==
  \/ Answer \/ EditDraft \/ DeviceTrips \/ DeviceCleared
  \/ ~w.due /\ (SaveSettings \/ ConfigReloaded \/ DeviceSwitches)
  \/ Len(w.wire) < MaxWire /\ (ClickApply \/ ClickEnable \/ PollTick \/ RunEffects)
  \/ \E i \in DOMAIN w.wire : Fails(i)
Spec == Init /\ [][Next]_w

-----------------------------------------------------------------------------
LoadingEnds ==
  w.rt.loading => w.due \/ \E i \in DOMAIN w.wire : w.wire[i].cur /\ w.wire[i].kind # "poll"
ShownIsDevice ==
  (Available(w) /\ ~w.due /\ ~w.rt.loading /\ ~w.rt.error) =>
    w.rt.value = w.dev[w.config.dev].value /\ w.rt.enabled = w.dev[w.config.dev].enabled
TripToldOnce == ~w.again
=============================================================================
