------------------------------- MODULE Cards --------------------------------
(***************************************************************************)
(* The cards that control a device: the timer, the external trigger, a     *)
(* protection, a toggle and a value.  One at a time: they share the page's *)
(* socket and the devices but no state of their own.                       *)
(***************************************************************************)
EXTENDS Naturals, SequencesExt

CONSTANTS
  Supplies,     \* the devices of the control widgets
  Switchable,   \* those whose protections can be switched
  Queued,       \* those the timer card may be set to
  Presets,      \* the timers of each preset, kept in some order
  Slots,        \* trigger slots, shown in some order
  Values,       \* what an operator can set
  MaxWire,      \* bound: requests of one card in flight
  MaxTrips      \* bound: trips

ASSUME SuppliesAssumption == Switchable \subseteq Supplies
ASSUME TripsAssumption == MaxTrips \in Nat

VARIABLES which, w

Timer == INSTANCE TimerQueue WITH Devices <- Queued, Presets <- {SetToSeq(p) : p \in Presets}
Trigger == INSTANCE ExternalTrigger WITH Devices <- Supplies, Slots <- SetToSeq(Slots)
Protected == INSTANCE Protection WITH Devices <- Supplies
Toggle == INSTANCE SingleToggle WITH Devices <- Supplies
Value == INSTANCE SingleValueSet WITH Devices <- Supplies

Init ==
  \/ which = "timer" /\ Timer!Init
  \/ which = "trigger" /\ Trigger!Init
  \/ which = "protection" /\ Protected!Init
  \/ which = "toggle" /\ Toggle!Init
  \/ which = "value" /\ Value!Init
Next ==
  /\ UNCHANGED which
  /\ \/ which = "timer" /\ Timer!Next
     \/ which = "trigger" /\ Trigger!Next
     \/ which = "protection" /\ Protected!Next
     \/ which = "toggle" /\ Toggle!Next
     \/ which = "value" /\ Value!Next
Spec == Init /\ [][Next]_<<which, w>>

-----------------------------------------------------------------------------
(* What waits is answered or given up.  A widget whose controls are        *)
(* disabled because it is busy has a request in flight whose end it will   *)
(* notice, or effects to run: an answer that is dropped as outdated leaves *)
(* nothing busy for ever.                                                  *)
LoadingEnds ==
  /\ which = "timer" => Timer!LoadingEnds
  /\ which = "trigger" => Trigger!LoadingEnds
  /\ which = "protection" => Protected!LoadingEnds
  /\ which = "toggle" => Toggle!LoadingEnds
  /\ which = "value" => Value!LoadingEnds

(* A widget at rest that reports no failure shows what its device holds,   *)
(* whatever was in flight when it wrote, was renamed, changed its device   *)
(* or lost it: no answer asked for before a write or a refresh is shown    *)
(* after it.  The timer card, which does not write what it shows, shows a  *)
(* status asked for the preset and the device it is configured for.        *)
ShownIsDevice ==
  /\ which = "timer" => Timer!StatusOfThisPreset
  /\ which = "trigger" => Trigger!ShownIsDevice
  /\ which = "protection" => Protected!ShownIsDevice
  /\ which = "toggle" => Toggle!ShownIsDevice
  /\ which = "value" => Value!ShownIsDevice

(* One trip is announced once while a protection's session lasts, however  *)
(* its polls, full readings and verified writes interleave; and a toggle   *)
(* command finds its device in the other state: none is sent from a stale  *)
(* display, and none reaches a device it has just switched.                *)
NothingTwice ==
  /\ which = "protection" => Protected!TripToldOnce
  /\ which = "toggle" => Toggle!EveryCommandChanges
=============================================================================
