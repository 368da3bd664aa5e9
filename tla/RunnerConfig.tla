---------------------------- MODULE RunnerConfig ----------------------------
(***************************************************************************)
(* The settings of the Script Runner's endpoint: a draft, saved when the   *)
(* operator says so, its test, and the devices' auto-connect switches,     *)
(* saved at once with the endpoint in use.  Trimmed takes the blanks off   *)
(* what was typed.  w.tested is the endpoint the last test asked.          *)
(***************************************************************************)
EXTENDS Naturals

CONSTANTS Typed, Trimmed(_), Valid, Devices, Default, Runtime

VARIABLE w

Nothing == [kind |-> "none", config |-> [ep |-> Default, ids |-> {}]]
loadConfig(stored, runtime) == IF stored.kind = "saved" THEN stored.config ELSE [ep |-> runtime, ids |-> {}]
(* The draft follows the endpoint in use: an effect of its fields.         *)
WithConfig(x, config) == [x EXCEPT !.config = config, !.draft = IF config.ep # x.config.ep THEN config.ep ELSE @]
Saved(x, config) == [WithConfig(x, config) EXCEPT !.stored = [kind |-> "saved", config |-> config]]

UpdateDraft == \E e \in Typed : w' = [w EXCEPT !.draft = e]
SaveEndpoint == w.draft \in Valid /\ w.draft # w.config.ep /\ w' = Saved(w, [w.config EXCEPT !.ep = Trimmed(w.draft)])
SetDeviceAutoConnect ==
  \E d \in Devices : w' = Saved(w, [w.config EXCEPT !.ids = IF d \in @ THEN @ \ {d} ELSE @ \union {d}])
TestConnection ==
  w.draft \in Valid /\ ~w.testing
  /\ w' = [w EXCEPT !.testing = TRUE, !.result = "", !.tested = Trimmed(w.draft), !.wire = @ \union {Trimmed(w.draft)}]
TestAnswered(e) ==
  \E told \in {"Connected", "Connection failed"} :
    w' = [w EXCEPT !.wire = @ \ {e}, !.result = told, !.testing = FALSE, !.of = e]
Reload ==
  \E runtime \in {Runtime, Default} :
    LET config == loadConfig(w.stored, runtime) IN
      w' = [w EXCEPT !.config = config, !.draft = config.ep, !.testing = FALSE, !.result = "", !.wire = {}]

Init ==
  \E stored \in {Nothing} \union {[kind |-> "saved", config |-> [ep |-> e, ids |-> {}]] : e \in {Trimmed(t) : t \in Valid}} :
    \E runtime \in {Runtime, Default} :
      LET config == loadConfig(stored, runtime) IN
        w = [config |-> config, draft |-> config.ep, stored |-> stored, testing |-> FALSE, result |-> "",
             tested |-> config.ep, of |-> config.ep, wire |-> {}]
Next ==
  \/ UpdateDraft \/ SaveEndpoint \/ SetDeviceAutoConnect \/ TestConnection \/ Reload
  \/ \E e \in w.wire : TestAnswered(e)
Spec == Init /\ [][Next]_w

-----------------------------------------------------------------------------
(* What was saved is what is used and what a reload will use, with its     *)
(* switches; the result told is that of the last test, and the button      *)
(* waits only for an answer that will come.                                *)
EndpointIsStored ==
  /\ w.stored.kind = "saved" => w.stored.config = w.config
  /\ w.result # "" => w.of = w.tested
  /\ w.testing = (w.wire # {})

(* A device's switch takes neither the draft nor the endpoint with it.     *)
DraftStep == w'.config.ids # w.config.ids => w'.draft = w.draft /\ w'.config.ep = w.config.ep
=============================================================================
