----------------------------- MODULE DeviceForms -----------------------------
(***************************************************************************)
(* The device manager over the WebSocket: the forms that add, edit and     *)
(* delete device profiles, the promises that wait for the proxy's answer   *)
(* by request id, and the list that is asked for after each success.  The  *)
(* proxy serves a socket's requests in their order (w.wire); losing the    *)
(* socket drops every promise, but also the forms that await them.         *)
(***************************************************************************)
EXTENDS Naturals, Sequences, SequencesExt, FiniteSetsExt

CONSTANTS
  Names,
  MaxWire,     \* bound: requests on their way
  MaxRequests  \* bound: requests sent

VARIABLE w

Forms == {"add", "edit", "delete"}
NoDialog == [kind |-> "none", id |-> 0, busy |-> FALSE, failed |-> FALSE]
Profile(id, name) == [id |-> id, name |-> name]
Ids(devices) == {d.id : d \in devices}
Conflicts(devices, id, name) == \E d \in devices : d.name = name /\ d.id # id
NextId(devices) == CHOOSE i \in 0..Cardinality(devices) : i \notin Ids(devices)

Sent(x, r) == [x EXCEPT !.wire = Append(@, r), !.uuid = @ + 1]
Request(x, kind, id, name) == [uuid |-> x.uuid + 1, kind |-> kind, id |-> id, name |-> name, step |-> "asked", list |-> {}]
OnRefresh(x) == Sent(x, Request(x, "list", 0, ""))
(* The dialog a promise belongs to while it is the one that is shown.      *)
Disowned(x) == [x EXCEPT !.dialog = NoDialog, !.pending = {[p EXCEPT !.own = FALSE] : p \in @}]

Free == Len(w.wire) < MaxWire /\ w.uuid < MaxRequests
OpenDialog ==
  /\ w.up /\ w.dialog.kind = "none"
  /\ \E kind \in Forms : \E id \in IF kind = "add" THEN {0} ELSE Ids(w.rows) :
       w' = [w EXCEPT !.dialog = [NoDialog EXCEPT !.kind = kind, !.id = id]]
CloseDialog == w.up /\ w.dialog.kind # "none" /\ w' = Disowned(w)
Submit ==
  /\ w.up /\ w.dialog.kind # "none" /\ ~w.dialog.busy /\ Free
  /\ \E name \in IF w.dialog.kind = "delete" THEN {""} ELSE Names :
       LET r == Request(w, w.dialog.kind, w.dialog.id, name) IN
         w' = [Sent(w, r) EXCEPT !.dialog.busy = TRUE, !.dialog.failed = FALSE,
                                 !.pending = @ \union {[uuid |-> r.uuid, kind |-> r.kind, own |-> TRUE]}]

-----------------------------------------------------------------------------
(* The proxy: it serves the first request that has not been served.        *)
Served(r, devices) ==
  IF r.kind = "list" THEN [step |-> "OK", devices |-> devices, list |-> devices]
  ELSE IF (r.kind # "add" /\ r.id \notin Ids(devices)) \/ (r.kind # "delete" /\ Conflicts(devices, r.id, r.name))
       \/ (r.kind = "add" /\ Conflicts(devices, NextId(devices), r.name))
  THEN [step |-> "ERR", devices |-> devices, list |-> {}]
  ELSE LET others == {d \in devices : r.kind = "add" \/ d.id # r.id} IN
    [step |-> "OK", list |-> {},
     devices |-> others \union (IF r.kind = "delete" THEN {} ELSE {Profile(IF r.kind = "add" THEN NextId(devices) ELSE r.id, r.name)})]
Serve ==
  LET asked == {i \in DOMAIN w.wire : w.wire[i].step = "asked"} IN
    /\ asked # {}
    /\ LET i == Min(asked)
           s == Served(w.wire[i], w.stored)
       IN w' = [w EXCEPT !.stored = s.devices, !.wire[i].step = s.step, !.wire[i].list = s.list]

(* An answer settles its promise: a success closes the dialog of its kind, *)
(* whichever form is in it by now, and asks for the list.                  *)
Resolved(x, p) == OnRefresh(IF p.mounted /\ x.dialog.kind = p.kind THEN Disowned(x) ELSE x)
Rejected(x, p) == IF p.own THEN [x EXCEPT !.dialog.busy = FALSE, !.dialog.failed = TRUE] ELSE x
Answer ==
  /\ w.wire # <<>> /\ Head(w.wire).step # "asked"
  /\ LET r == Head(w.wire)
         x == [w EXCEPT !.wire = Tail(@), !.pending = {p \in @ : p.uuid # r.uuid}]
     IN \/ r.kind = "list" /\ w' = [x EXCEPT !.rows = r.list]
        \/ \E p \in w.pending : p.uuid = r.uuid
             /\ w' = IF r.step = "OK" THEN Resolved(x, [kind |-> p.kind, mounted |-> TRUE]) ELSE Rejected(x, p)

(* Losing the socket forgets the promises and the rows; the table and its  *)
(* forms are not shown until it is back.  The dialog that was open is then *)
(* shown anew, empty and not waiting.  The proxy goes on with what it got. *)
Lost(x, kept) == [x EXCEPT !.up = FALSE, !.pending = {}, !.rows = {}, !.wire = <<>>, !.dialog.busy = FALSE,
                           !.dialog.failed = FALSE, !.stored = kept]
SocketLost ==
  /\ w.up
  /\ \E n \in 0..Len(w.wire) :
       w' = Lost(w, FoldLeft(LAMBDA devices, r : IF r.step = "asked" THEN Served(r, devices).devices ELSE devices,
                             w.stored, SubSeq(w.wire, 1, n)))
SocketOpened == ~w.up /\ w.uuid < MaxRequests /\ w' = OnRefresh([w EXCEPT !.up = TRUE])

Init ==
  w = [up |-> FALSE, stored |-> {}, rows |-> {}, dialog |-> NoDialog, pending |-> {}, wire |-> <<>>, uuid |-> 0]
Next == OpenDialog \/ CloseDialog \/ Submit \/ Serve \/ Answer \/ SocketLost \/ SocketOpened
Spec == Init /\ [][Next]_w

-----------------------------------------------------------------------------
(* With nothing on its way the table shows what the proxy has, and a form  *)
(* that waits, and cannot be submitted, has a promise that will be         *)
(* settled: what the socket took with it is not waited for.                *)
RowsSettle == (w.up /\ w.wire = <<>>) => w.rows = w.stored
WaitsForAnswer ==
  w.dialog.busy => \E p \in w.pending : p.own /\ p.kind = w.dialog.kind /\ \E i \in DOMAIN w.wire : w.wire[i].uuid = p.uuid
=============================================================================
