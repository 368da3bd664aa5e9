--------------------------- MODULE ExternalTrigger ---------------------------
(***************************************************************************)
(* The external trigger widget: the command assigned to each trigger slot  *)
(* of a device, read together, edited as drafts and written slot by slot.  *)
(***************************************************************************)
EXTENDS Requests

CONSTANTS Devices, Slots,       \* a sequence of slots
          Values, MaxWire       \* bound on requests in flight

VARIABLE w

None == "none"
Unread == [s \in Range(Slots) |-> None]
Initial == [slots |-> Unread, loading |-> FALSE, error |-> FALSE]

Loading(x) == [x EXCEPT !.rt.loading = TRUE, !.rt.error = FALSE]
Show(x, rt) == [x EXCEPT !.rt = rt, !.draft = rt.slots]
Failed(x) == [x EXCEPT !.rt.loading = FALSE, !.rt.error = TRUE]

Request(kind, x, d, rest) ==
  [kind |-> kind, dev |-> d, rest |-> rest, slots |-> x.draft, cur |-> TRUE]
Refresh(x, d) == Ask(Loading(Outdated(x)), Request("read", x, d, <<>>))
Written(x, f) == [x EXCEPT !.dev[f.dev][Head(f.rest)] = f.slots[Head(f.rest)]]

ClickSave ==
  /\ ~w.due /\ Available(w) /\ ~w.rt.loading /\ w.draft # w.rt.slots
  /\ w' = Ask(Loading(w), Request("write", w, w.config.dev, SelectSeq(Slots, LAMBDA s : w.draft[s] # w.rt.slots[s])))
EditDraft ==
  /\ ~w.due /\ Available(w) /\ ~w.rt.loading
  /\ \E s \in Range(Slots), v \in Values : v # w.draft[s] /\ w' = [w EXCEPT !.draft[s] = v]

ReadAnswer(x, f) ==
  w' = IF f.cur THEN Show(x, [Initial EXCEPT !.slots = x.dev[f.dev]]) ELSE x

(* The next slot, or a reading of them all; a save that was outdated stops *)
(* where it is.                                                            *)
WriteAnswer(x, f) ==
  w' = IF ~f.cur THEN Written(x, f)
       ELSE IF Len(f.rest) > 1 THEN Ask(Written(x, f), [f EXCEPT !.rest = Tail(@)])
       ELSE Refresh(Written(x, f), f.dev)

Answer ==
  /\ w.wire # <<>>
  /\ LET f == Head(w.wire) IN IF f.kind = "read" THEN ReadAnswer(Took(w, 1), f) ELSE WriteAnswer(Took(w, 1), f)

(* A write that failed for the page may still have reached the device.     *)
Fails(i) ==
  LET f == w.wire[i] IN
    \E x \in {Took(w, i)} \union (IF f.kind = "write" THEN {Written(Took(w, i), f)} ELSE {}) :
      w' = IF ~f.cur THEN x
           ELSE IF f.kind = "read" THEN Show(x, Failed(x).rt) ELSE Failed(x)

-----------------------------------------------------------------------------
EffectsKeepRequests ==          \* mutant: requests of the previous device stay current
  /\ w.due
  /\ LET x == Show([w EXCEPT !.due = FALSE], Initial)
     IN w' = IF Available(x) THEN Ask(Loading(x), Request("read", x, x.config.dev, <<>>)) ELSE x
RunEffects ==
  /\ w.due
  /\ LET x == Show(Outdated([w EXCEPT !.due = FALSE]), Initial)
     IN w' = IF Available(x) THEN Refresh(x, x.config.dev) ELSE x

SaveSettings == \E d \in Devices : d # w.config.dev /\ w' = Saved(w, [w.config EXCEPT !.dev = d])
ConfigReloaded == w' = Reloaded(w)
DeviceSwitches == \E d \in Devices : w' = Switched(w, d)

Init == \E d \in Devices, v \in Values :
  w = [config |-> [dev |-> d], up |-> {}, due |-> TRUE, wire |-> <<>>, rt |-> Initial,
       draft |-> Unread, dev |-> [e \in Devices |-> [s \in Range(Slots) |-> v]]]
Next ==
  \/ Answer \/ EditDraft
  \/ ~w.due /\ (SaveSettings \/ ConfigReloaded \/ DeviceSwitches)
  \/ Len(w.wire) < MaxWire /\ (ClickSave \/ RunEffects)
  \/ \E i \in DOMAIN w.wire : Fails(i)
Spec == Init /\ [][Next]_w

-----------------------------------------------------------------------------
(* A card that says "Applying" waits for a request whose end it notices.   *)
LoadingEnds == w.rt.loading => w.due \/ \E i \in DOMAIN w.wire : w.wire[i].cur

(* A card at rest shows what its device holds, however a save was cut      *)
(* short and whatever was in flight when the device or a setting changed.  *)
ShownIsDevice ==
  (Available(w) /\ ~w.due /\ ~w.rt.loading /\ ~w.rt.error) => w.rt.slots = w.dev[w.config.dev]
=============================================================================
