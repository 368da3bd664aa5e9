------------------------------ MODULE TaskList ------------------------------
(***************************************************************************)
(* The table of script tasks: it reads the page at its offset when the     *)
(* offset or the API address changes, every five seconds and on request,   *)
(* and cancels the tasks selected on the page it shows.  A request for a   *)
(* page that is already on its way is not sent again; the answers of all   *)
(* others are shown in the order they come.                                *)
(*                                                                         *)
(* w.order lists the runner's tasks, the newest first.  Only the address   *)
(* "u1" has a runner behind it.  An entry of w.wire is a page request or   *)
(* the requests of one confirmed cancellation, with the key its closure    *)
(* will load when all of them have succeeded.  The errors shown are left   *)
(* out.                                                                    *)
(***************************************************************************)
EXTENDS Naturals, Sequences, SequencesExt

CONSTANTS
  Tasks,     \* in the order they are created
  PageSize,
  MaxWire    \* bound: page requests and cancellations in flight

VARIABLE w

None == [url |-> "none", offset |-> 0]
Elements(s) == {s[i] : i \in DOMAIN s}
Page(x, offset) ==
  LET end == IF offset + PageSize < Len(x.order) THEN offset + PageSize ELSE Len(x.order)
  IN [items |-> SubSeq(x.order, offset + 1, end), offset |-> offset, total |-> Len(x.order)]
EmptyPage == [items |-> <<>>, offset |-> 0, total |-> 0]
CurrentKey(x) == [url |-> x.url, offset |-> x.offset]
Took(x, i) == [x EXCEPT !.wire = RemoveAt(@, i)]

Load(x, key) ==
  IF x.inFlight = key THEN x
  ELSE [x EXCEPT !.inFlight = key, !.loading = TRUE,
                 !.wire = Append(@, [kind |-> "page", key |-> key, step |-> "asked", page |-> EmptyPage])]
Refresh == Len(w.wire) < MaxWire /\ w' = Load(w, CurrentKey(w))
SetOffset(x, offset) ==
  LET y == [x EXCEPT !.offset = offset] IN IF offset = x.offset THEN x ELSE Load(y, CurrentKey(y))
Turn ==
  /\ Len(w.wire) < MaxWire
  /\ \/ w.page.offset + Len(w.page.items) < w.page.total /\ w' = SetOffset(w, w.page.offset + PageSize)
     \/ w.page.offset > 0
        /\ w' = SetOffset(w, IF w.page.offset > PageSize THEN w.page.offset - PageSize ELSE 0)
(* The load effect runs before the effect that resets the offset.          *)
ChangeUrl ==
  /\ Len(w.wire) + 1 < MaxWire
  /\ LET x == [w EXCEPT !.url = IF @ = "u1" THEN "u2" ELSE "u1"] IN
       w' = [SetOffset(Load(x, CurrentKey(x)), 0) EXCEPT !.selected = {}]

Select ==
  \E i \in DOMAIN w.page.items :
    LET row == w.page.items[i] IN
      w.dialog = {} /\ row.state # "ended" /\ w' = [w EXCEPT !.selected = IF row.id \in @ THEN @ \ {row.id} ELSE @ \union {row.id}]
SelectedTasks == {row.id : row \in {r \in Elements(w.page.items) : r.id \in w.selected}}
CancelOffered == w.selected # {}
RequestCancel == w.dialog = {} /\ CancelOffered /\ SelectedTasks # {} /\ w' = [w EXCEPT !.dialog = SelectedTasks]
CloseDialog == w.dialog # {} /\ w' = [w EXCEPT !.dialog = {}]
Cancelling(i) == w.wire[i].kind = "cancel"
Confirm ==
  /\ w.dialog # {} /\ Len(w.wire) < MaxWire
  /\ w' = [w EXCEPT !.wire = Append(@, [kind |-> "cancel", key |-> CurrentKey(w), all |-> w.dialog,
                                          left |-> w.dialog, failed |-> FALSE])]

-----------------------------------------------------------------------------
(* The runner: it lists a task with its state when the page is read.  A    *)
(* request to cancel is answered before the task has ended.                *)
Runs(x, t) == \E i \in DOMAIN x.order : x.order[i].id = t /\ x.order[i].state = "running"
Cancelled(x, t) ==
  [x EXCEPT !.order = [i \in DOMAIN @ |-> IF @[i] = [id |-> t, state |-> "running"] THEN [@[i] EXCEPT !.state = "cancelling"]
                                          ELSE @[i]]]
TaskCreated ==
  Len(w.order) < Len(Tasks) /\ w' = [w EXCEPT !.order = <<[id |-> Tasks[Len(@) + 1], state |-> "running"]>> \o @]
TaskEnds == \E i \in DOMAIN w.order : w.order[i].state # "ended" /\ w' = [w EXCEPT !.order[i].state = "ended"]
PageRead(i) ==
  LET r == w.wire[i] IN
    r.kind = "page" /\ r.step = "asked" /\ r.key.url = "u1"
    /\ w' = [w EXCEPT !.wire[i].step = "done", !.wire[i].page = Page(w, r.key.offset)]
CancelReached(i) ==
  Cancelling(i) /\ w.wire[i].key.url = "u1"
  /\ \E t \in w.wire[i].left : w' = [Cancelled(w, t) EXCEPT !.wire[i].left = @ \ {t}]

(* An answer ends the loading state whatever else is in flight; it frees   *)
(* the in-flight key only if that is its own.                              *)
Finally(x, key) == [x EXCEPT !.loading = FALSE, !.inFlight = IF @ = key THEN None ELSE @]
PageAnswer(i) ==
  LET r == w.wire[i] IN r.kind = "page" /\ r.step = "done" /\ w' = Finally([Took(w, i) EXCEPT !.page = r.page], r.key)
PageFails(i) ==
  LET r == w.wire[i] IN
    r.kind = "page" /\ w' = Finally([Took(w, i) EXCEPT !.page = EmptyPage], r.key)
(* After a failure the other requests go on unheard.  Success closes       *)
(* whatever dialog is open by then.                                        *)
AllReached(i) == w.wire[i].left = {}
CancelSucceeds(i) ==
  LET r == w.wire[i] IN
    /\ Cancelling(i) /\ ~r.failed /\ AllReached(i)
    /\ w' = Load([Took(w, i) EXCEPT !.selected = {}, !.dialog = {}], r.key)
CancelFails(i) ==
  /\ Cancelling(i) /\ w.wire[i].left # {}
  /\ \E t \in w.wire[i].left :
       w' = [w EXCEPT !.wire[i].left = @ \ {t}, !.wire[i].failed = TRUE]
CancelOver(i) == Cancelling(i) /\ w.wire[i].failed /\ w.wire[i].left = {} /\ w' = Took(w, i)

-----------------------------------------------------------------------------
Init ==
    w = Load([order |-> [i \in 1..2 |-> [id |-> Tasks[3 - i], state |-> "running"]], url |-> "u1", offset |-> 0,
              page |-> EmptyPage, loading |-> TRUE, selected |-> {}, dialog |-> {},
              inFlight |-> None, wire |-> <<>>], [url |-> "u1", offset |-> 0])
Next ==
  \/ Refresh \/ Turn \/ ChangeUrl \/ Select \/ RequestCancel \/ CloseDialog \/ Confirm \/ TaskCreated \/ TaskEnds
  \/ \E i \in DOMAIN w.wire :
       PageRead(i) \/ CancelReached(i) \/ PageAnswer(i) \/ PageFails(i) \/ CancelSucceeds(i) \/ CancelFails(i)
       \/ CancelOver(i)
Spec == Init /\ [][Next]_w

-----------------------------------------------------------------------------
(* The key that keeps a page from being read twice is held only while its  *)
(* request is on its way.  When all requests of a cancellation have        *)
(* succeeded, each of its tasks has been told: it is cancelling or ended.  *)
RefreshNotBlocked ==
  w.inFlight # None => \E i \in DOMAIN w.wire : w.wire[i].kind = "page" /\ w.wire[i].key = w.inFlight
CancelStep == \A i \in DOMAIN w.wire : CancelSucceeds(i) => \A t \in w.wire[i].all : ~Runs(w, t)
=============================================================================
