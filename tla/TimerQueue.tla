----------------------------- MODULE TimerQueue -----------------------------
(***************************************************************************)
(* The timer queue widget: a preset of timers edited, saved, uploaded to   *)
(* the device and run there, and the runtime the card shows of it.  What   *)
(* the device does with its queue is left open: a status answer may be     *)
(* anything a queue can be in.                                             *)
(***************************************************************************)
EXTENDS Requests

CONSTANTS Devices, Presets,     \* sequences of timer ids
          MaxWire               \* bound on requests in flight

VARIABLE w

Ids == UNION {Range(p) : p \in Presets}
Runtime(id, state, loaded) ==
  [id |-> id, state |-> state, loaded |-> loaded, desynced |-> FALSE, loading |-> FALSE,
   error |-> FALSE, by |-> "page", of |-> <<>>]
Idle == Runtime("NONE", "IDLE", FALSE)
Resumable == {"PAUSED"}       \* and the trips, which end in the same way

(* A queue on the device that names no timer of the preset is out of sync. *)
StatusRuntime(id, state, config) ==
  [Runtime(id, state, id # "NONE") EXCEPT
     !.desynced = id # "NONE" /\ id \notin Range(config.timers), !.by = "status", !.of = config]

Valid(config) == config.timers # <<>> /\ Cardinality(Range(config.timers)) = Len(config.timers)

Request(kind, x, rt, rest) == [kind |-> kind, config |-> x.config, rt |-> rt, rest |-> rest, cur |-> TRUE]
Loading(x) == [x EXCEPT !.rt.loading = TRUE, !.rt.error = FALSE]
Refresh(x) == Ask(Loading(Outdated(x)), Request("status", x, Idle, <<>>))

-----------------------------------------------------------------------------
(* One action: pause, resume, or clear, upload and start.                  *)
Commands(config, rt) ==
  IF rt.state = "RUNNING" THEN <<"pause">>
  ELSE IF rt.state \in Resumable /\ rt.loaded THEN <<"start">>
  ELSE <<"clear">> \o config.timers \o <<"start">>
Outcome(config, rt) ==
  LET next == IF rt.state = "RUNNING" THEN [rt EXCEPT !.state = "PAUSED"]
              ELSE IF rt.state \in Resumable /\ rt.loaded THEN [rt EXCEPT !.state = "RUNNING"]
              ELSE Runtime(Head(config.timers), "RUNNING", TRUE)
  IN [next EXCEPT !.error = FALSE, !.by = "action", !.of = config]

Click ==
  /\ ~w.due /\ Available(w) /\ ~w.rt.loading /\ Valid(w.config) /\ ~(w.rt.state = "RUNNING" /\ w.rt.desynced)
  /\ w' = Ask(Loading(w), Request("action", w, w.rt, Tail(Commands(w.config, w.rt))))
ClickRefresh == ~w.due /\ Available(w) /\ ~w.rt.loading /\ w' = Refresh(w)

Applies(x, f) == f.cur /\ f.config = x.config

StatusAnswer(x, f) ==
  \E id \in Ids \union {"NONE"}, state \in {"IDLE", "RUNNING", "PAUSED"} :
    /\ id = "NONE" => state = "IDLE"
    /\ w' = IF Applies(x, f) THEN [x EXCEPT !.rt = StatusRuntime(id, state, f.config)] ELSE x
Answer ==
  /\ w.wire # <<>>
  /\ LET f == Head(w.wire)
         x == Took(w, 1)
     IN \/ f.kind = "status" /\ StatusAnswer(x, f)
        \/ f.kind = "action" /\ f.rest # <<>> /\ w' = Ask(x, [f EXCEPT !.rest = Tail(@)])
        \/ f.kind = "action" /\ f.rest = <<>> /\ w' = [x EXCEPT !.rt = Outcome(f.config, f.rt)]

FailsQuietly(i) ==              \* mutant: a failed action is not reported
  w' = IF Applies(w, w.wire[i]) /\ w.wire[i].kind = "status"
       THEN [Took(w, i) EXCEPT !.rt.loading = FALSE, !.rt.error = TRUE] ELSE Took(w, i)
Fails(i) ==
  w' = IF w.wire[i].kind = "action" \/ Applies(w, w.wire[i])
       THEN [Took(w, i) EXCEPT !.rt.loading = FALSE, !.rt.error = TRUE] ELSE Took(w, i)

(* The local clock has counted the running timer down.                     *)
Expires ==
  /\ w.rt.state = "RUNNING" /\ ~w.rt.desynced /\ w.rt.id \in Range(w.config.timers)
  /\ LET timers == w.config.timers
         i == CHOOSE k \in DOMAIN timers : timers[k] = w.rt.id
         next == IF i < Len(timers) THEN Runtime(timers[i + 1], "RUNNING", TRUE) ELSE Idle
     IN w' = [w EXCEPT !.rt = [next EXCEPT !.loading = w.rt.loading]]

-----------------------------------------------------------------------------
RunEffects ==
  /\ w.due
  /\ LET x == [w EXCEPT !.due = FALSE]
     IN w' = IF Available(x) THEN Refresh(x) ELSE [Outdated(x) EXCEPT !.rt = Idle]

EditDraft == \E p \in Presets : p # w.draft /\ w' = [w EXCEPT !.draft = p]
SavePreset ==
  /\ w.draft # w.config.timers /\ Valid([w.config EXCEPT !.timers = w.draft])
  /\ w' = Saved(w, [w.config EXCEPT !.timers = w.draft])
SaveSettings == \E d \in Devices : d # w.config.dev /\ w' = Saved(w, [w.config EXCEPT !.dev = d])
SaveElsewhere ==
  \E p \in Presets : p # w.config.timers /\ w' = [Saved(w, [w.config EXCEPT !.timers = p]) EXCEPT !.draft = p]
DevicesRefreshed == w' = Reloaded(w)
DeviceSwitches == \E d \in Devices : w' = Switched(w, d)

Init == \E d \in Devices, p \in Presets :
  w = [config |-> [dev |-> d, timers |-> p], up |-> {}, due |-> TRUE, wire |-> <<>>, rt |-> Idle, draft |-> p]
Room == Len(w.wire) < MaxWire
Next ==
  \/ Answer \/ Expires \/ EditDraft
  \/ ~w.due /\ (SavePreset \/ SaveSettings \/ SaveElsewhere \/ DevicesRefreshed \/ DeviceSwitches)
  \/ Room /\ (Click \/ ClickRefresh \/ RunEffects)
  \/ \E i \in DOMAIN w.wire : Fails(i)
Spec == Init /\ [][Next]_w

-----------------------------------------------------------------------------
(* A card that says it is loading has a request in flight whose end it     *)
(* will notice, or effects to run: its buttons do not stay disabled.       *)
LoadingEnds ==
  w.rt.loading => w.due \/ \E i \in DOMAIN w.wire : w.wire[i].kind = "action" \/ Applies(w, w.wire[i])

(* A status is shown for the preset and the device it was asked for, once  *)
(* the card has no request under way and has not reported a failure.       *)
StatusOfThisPreset ==
  w.rt.by = "status" /\ ~w.due /\ ~w.rt.loading /\ ~w.rt.error => w.rt.of = w.config
=============================================================================
