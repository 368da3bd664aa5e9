----------------------------- MODULE HttpDevices -----------------------------
(***************************************************************************)
(* The device manager over HTTP: the list of the configured Script Runner, *)
(* read again after every operation, the operations of its rows and forms, *)
(* and the connections made once per endpoint when its list is first read. *)
(*                                                                         *)
(* One list request per endpoint is on its way (w.lists); every load that  *)
(* starts meanwhile joins it.  w.wire holds what awaits something: an      *)
(* operation its own answer and then a list, the effect and the retry a    *)
(* list only; who joined a list first is served first.  w.stale tells that *)
(* the list shown was read before an operation it should show, or of       *)
(* another endpoint, or that an operation's answer was lost.               *)
(***************************************************************************)
EXTENDS Naturals, Sequences, SequencesExt

CONSTANTS
  Urls,       \* the endpoints the operator may configure
  Ids,        \* ids a Script Runner gives its devices
  Given,      \* the devices every endpoint starts with
  Forms,      \* the dialogs the operator uses, of "add", "edit" and "delete"
  MaxWire     \* bound: operations awaited at a time

VARIABLE w

First == CHOOSE u \in Urls : TRUE
Device(up, edited) == [up |-> up, edited |-> edited]
NoRows == [d \in {} |-> Device(FALSE, FALSE)]
With(rows, d, row) == [k \in DOMAIN rows \union {d} |-> IF k = d THEN row ELSE rows[k]]
Without(rows, d) == [k \in DOMAIN rows \ {d} |-> rows[k]]
Took(x, i) == [x EXCEPT !.wire = RemoveAt(@, i)]

NoDialog == [kind |-> "none", id |-> "", busy |-> FALSE, failed |-> FALSE]
Disowned(x) == [x EXCEPT !.dialog = NoDialog, !.wire = [i \in DOMAIN @ |-> [@[i] EXCEPT !.own = FALSE]]]
(* While there is nothing to list, or an error to tell of, the table and   *)
(* its dialogs are not mounted.                                            *)
ViewShown(x) == ~x.error /\ ~(x.loading /\ DOMAIN x.rows = {})
Unmounted(x) == [Disowned(x) EXCEPT !.wire = [i \in DOMAIN @ |-> [@[i] EXCEPT !.mounted = FALSE]]]
Rendered(x) == IF ViewShown(x) THEN x ELSE Unmounted(x)

Await(kind, url, id, step) ==
  [kind |-> kind, url |-> url, id |-> id, step |-> step, own |-> TRUE, mounted |-> TRUE, active |-> kind = "effect"]
FetchDeviceList(x, url) ==
  IF x.lists[url].step = "none"
  THEN [x EXCEPT !.lists[url].step = "asked", !.stale = @ /\ url # x.url]
  ELSE [x EXCEPT !.stale = @ \/ x.lists[url].step = "read"]
LoadDevices(x, r) ==
  FetchDeviceList([x EXCEPT !.wire = Append(@, [r EXCEPT !.step = "list"]), !.loading = TRUE, !.error = FALSE], r.url)
RunOperation(x, kind, url, id) ==
  [x EXCEPT !.connecting = @ \union {id}, !.failed = @ \ {id}, !.wire = Append(@, Await(kind, url, id, "asked"))]
Effect(x) ==
  LET quit == [x EXCEPT !.wire = [i \in DOMAIN @ |-> [@[i] EXCEPT !.active = FALSE]]] IN
    LoadDevices(quit, Await("effect", x.url, "", "list"))

Operations == {"connect", "disconnect"}
(* What a request that awaited the list does next.  A form that succeeds   *)
(* closes the dialog of its kind, whichever form is in it by now.          *)
Served(x, r) ==
  IF r.kind \in Operations THEN [x EXCEPT !.connecting = @ \ {r.id}]
  ELSE IF r.kind \in Forms THEN IF r.mounted /\ x.dialog.kind = r.kind THEN Disowned(x) ELSE x
  ELSE IF r.kind = "effect" /\ r.active /\ r.url \notin x.tried
  THEN FoldLeft(LAMBDA y, d : RunOperation(y, "connect", r.url, d), [x EXCEPT !.tried = @ \union {r.url}],
                SetToSeq(x.auto \intersect DOMAIN x.rows))
  ELSE x
Refused(x, r) ==
  IF r.kind \in Operations THEN [x EXCEPT !.connecting = @ \ {r.id}, !.failed = @ \union {r.id}]
  ELSE IF r.kind \in Forms /\ r.own THEN [x EXCEPT !.dialog.busy = FALSE, !.dialog.failed = TRUE]
  ELSE x
Waiting(x, url) == SelectSeq(x.wire, LAMBDA r : r.step = "list" /\ r.url = url)
Left(x, url) == [x EXCEPT !.wire = SelectSeq(@, LAMBDA r : ~(r.step = "list" /\ r.url = url)),
                          !.lists[url] = [step |-> "none", rows |-> NoRows], !.loading = FALSE, !.stale = @ \/ url # x.url]

-----------------------------------------------------------------------------
(* The operator.                                                           *)
Free == Len(w.wire) < MaxWire
Idle == ViewShown(w) /\ w.dialog.kind = "none"
Press ==
  /\ Idle /\ Free
  /\ \E d \in DOMAIN w.rows :
       \/ w.rows[d].up /\ w' = RunOperation(w, "disconnect", w.url, d)
       \/ ~w.rows[d].up /\ d \notin w.connecting /\ w' = RunOperation(w, "connect", w.url, d)
OpenDialog ==
  /\ Idle
  /\ \E kind \in Forms : \E d \in IF kind = "add" THEN {""} ELSE DOMAIN w.rows :
       w' = [w EXCEPT !.dialog = [NoDialog EXCEPT !.kind = kind, !.id = d]]
CloseDialog == w.dialog.kind # "none" /\ w' = Disowned(w)
Submit ==
  /\ w.dialog.kind # "none" /\ ~w.dialog.busy /\ Free
  /\ w' = [w EXCEPT !.dialog.busy = TRUE, !.dialog.failed = w.dialog.kind = "delete" /\ @,
                    !.wire = Append(@, Await(w.dialog.kind, w.url, w.dialog.id, "asked"))]
SetAutoConnect ==
  \E d \in DOMAIN w.rows :
    Idle /\ Free /\ w' = Rendered(Effect([w EXCEPT !.auto = IF d \in @ THEN @ \ {d} ELSE @ \union {d}]))
SetUrl == \E u \in Urls \ {w.url} : Free /\ w' = Rendered(Effect([w EXCEPT !.url = u, !.stale = TRUE]))
Retry == w.error /\ Free /\ w' = Rendered(LoadDevices(w, Await("refresh", w.url, "", "list")))

-----------------------------------------------------------------------------
(* The Script Runner and the network: a request is lost before or after    *)
(* the runner has done what it asks.                                       *)
Done(i, rows) == w' = [w EXCEPT !.stored[w.wire[i].url] = rows, !.wire[i].step = "done"]
Reached(i) ==
  LET r == w.wire[i]
      rows == w.stored[r.url]
  IN /\ r.step = "asked"
     /\ \/ r.kind = "add" /\ \E d \in Ids \ DOMAIN rows : Done(i, With(rows, d, Device(FALSE, FALSE)))
        \/ r.kind = "delete" /\ r.id \in DOMAIN rows /\ Done(i, Without(rows, r.id))
        \/ r.kind = "edit" /\ r.id \in DOMAIN rows /\ Done(i, With(rows, r.id, Device(FALSE, TRUE)))
        \/ r.kind \in Operations /\ r.id \in DOMAIN rows
           /\ Done(i, With(rows, r.id, Device(r.kind = "connect", rows[r.id].edited)))
Answered(i) ==
  /\ w.wire[i].step = "done"
  /\ w' = Rendered(LoadDevices(Took(w, i), w.wire[i]))
Fails(i) ==
  /\ w.wire[i].step \in {"asked", "done"}
  /\ w' = Refused([Took(w, i) EXCEPT !.stale = @ \/ w.wire[i].step = "done"], w.wire[i])

ListRead(u) ==
  w.lists[u].step = "asked" /\ w' = [w EXCEPT !.lists[u] = [step |-> "read", rows |-> w.stored[u]]]
ListAnswer(u) ==
  /\ w.lists[u].step = "read"
  /\ w' = Rendered(FoldLeft(Served, [Left(w, u) EXCEPT !.rows = w.lists[u].rows, !.failed = {}], Waiting(w, u)))
ListFails(u) ==
  /\ w.lists[u].step # "none"
  /\ w' = Rendered(FoldLeft(Refused, [Left(w, u) EXCEPT !.rows = NoRows, !.failed = {}, !.error = TRUE], Waiting(w, u)))

-----------------------------------------------------------------------------
Init ==
  \E auto \in SUBSET Given :
    w = Effect([url |-> First, auto |-> auto, tried |-> {}, rows |-> NoRows, failed |-> {}, connecting |-> {},
                loading |-> TRUE, error |-> FALSE, stale |-> TRUE, dialog |-> NoDialog, wire |-> <<>>,
                lists |-> [u \in Urls |-> [step |-> "none", rows |-> NoRows]],
                stored |-> [u \in Urls |-> [d \in Given |-> Device(FALSE, FALSE)]]])
Next ==
  \/ Press \/ OpenDialog \/ CloseDialog \/ Submit \/ SetAutoConnect \/ SetUrl \/ Retry
  \/ \E i \in DOMAIN w.wire : Reached(i) \/ Answered(i) \/ Fails(i)
  \/ \E u \in Urls : ListRead(u) \/ ListAnswer(u) \/ ListFails(u)
Spec == Init /\ [][Next]_w

-----------------------------------------------------------------------------
(* When nothing is awaited, the table shows what the Script Runner has.    *)
Quiet == w.wire = <<>> /\ ~w.error /\ ~w.stale
RowsSettle == Quiet => w.rows = w.stored[w.url] /\ ~w.loading

(* A row is marked as connecting, and its button refuses, only while an    *)
(* operation of it is awaited; a form only while its request is.           *)
MarksAreHeld ==
  /\ \A d \in w.connecting : \E i \in DOMAIN w.wire : w.wire[i].kind \in Operations /\ w.wire[i].id = d
  /\ w.dialog.busy => \E i \in DOMAIN w.wire : w.wire[i].kind = w.dialog.kind /\ w.wire[i].own

(* An endpoint's devices are connected without being asked for at most     *)
(* once, and only those marked at that time, at the endpoint configured.   *)
AutoStep ==
  \A u \in Urls : (w.lists[u].step = "read" /\ w'.lists[u].step = "none") =>
    \A i \in DOMAIN w'.wire \ DOMAIN Left(w, u).wire :
      u \notin w.tried /\ u = w.url /\ w'.wire[i].url = u /\ w'.wire[i].id \in w.auto
=============================================================================
