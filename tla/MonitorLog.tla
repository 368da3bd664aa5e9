----------------------------- MODULE MonitorLog -----------------------------
(***************************************************************************)
(* The WebSocket monitor: the bounded log of what goes over the socket,    *)
(* each line under the tag of who asked, the filter by tags, the command   *)
(* form and the two clicks that clear the log.                             *)
(*                                                                         *)
(* A line is its tag ("" for the later lines of a message, and for a line  *)
(* that lost its beginning) and its length; a message is the lengths of    *)
(* its lines.  w.all, w.asked and w.elsewhere are history: all lines since *)
(* the last clear, the tag each request was sent under, and whether the    *)
(* operator pressed elsewhere since the first of the two clicks.           *)
(***************************************************************************)
EXTENDS Naturals, Sequences, SequencesExt, FiniteSetsExt

CONSTANTS
  MaxLines, MaxBytes,
  Messages,     \* sequences of the lengths of their lines
  Devices,
  MaxRequests, MaxAppends  \* bounds

VARIABLE w

Tags == {"SYSTEM", "USER", "SCHEDULER"}
Size(lines) == FoldLeft(LAMBDA n, l : n + l.size, 0, lines)
Lines(tag, message) == [i \in DOMAIN message |-> [tag |-> IF i = 1 THEN tag ELSE "", size |-> message[i]]]

(* The last bytes of a text: a line cut in the middle is no longer tagged. *)
LastBytes(lines, n) ==
  LET rest == FoldRight(LAMBDA l, r :
                 IF r.left = 0 THEN r
                 ELSE IF l.size <= r.left THEN [left |-> r.left - l.size, lines |-> <<l>> \o r.lines]
                 ELSE [left |-> 0, lines |-> <<[tag |-> "", size |-> r.left]>> \o r.lines],
               lines, [left |-> n, lines |-> <<>>])
  IN rest.lines
LastLines(lines, n) == IF Len(lines) <= n THEN lines ELSE SubSeq(lines, Len(lines) - n + 1, Len(lines))
trimMonitor(lines) == LastLines(LastBytes(lines, MaxBytes), MaxLines)

Counted(counts, tag, n) == IF tag = "" THEN counts ELSE [counts EXCEPT ![tag] = (@ + n) - 1]
incrementTag(counts, tag) == Counted(counts, tag, 2)
decrementTag(counts, tag) == Counted(counts, tag, 0)

Push(x, line) ==
  [x EXCEPT !.lines = Append(@, line), !.size = @ + line.size, !.counts = incrementTag(@, line.tag)]
(* One line is taken off while there are too many, or too many bytes.      *)
Shift(x, i) ==
  IF Len(x.lines) <= MaxLines /\ x.size <= MaxBytes THEN x
  ELSE [x EXCEPT !.lines = Tail(@), !.size = @ - Head(x.lines).size, !.counts = decrementTag(@, Head(x.lines).tag)]
TrimStored(x) == FoldLeft(Shift, x, [i \in DOMAIN x.lines |-> i])
Available(x) == {t \in Tags : x.counts[t] > 0}
Pruned(x) == [x EXCEPT !.selected = {t \in @ : t = "USER" \/ t \in Available(x)}]
AppendMessage(x, tag, message) ==
  LET new == trimMonitor(Lines(tag, message)) IN
    Pruned(TrimStored(FoldLeft(Push, [x EXCEPT !.all = @ \o new, !.appends = @ + 1], new)))

Active(x) ==
  IF x.target \in x.devices THEN x.target ELSE IF x.devices = {} THEN "" ELSE CHOOSE d \in x.devices : TRUE
Targeted(x) == [x EXCEPT !.target = Active(x)]

-----------------------------------------------------------------------------
(* The connection: requests of the poller and of the operator, and their   *)
(* answers, which may come after the socket has been replaced.             *)
SendWsMessage(x, tag, message) ==
  AppendMessage([x EXCEPT !.asked = Append(@, tag), !.open = @ \union {Len(x.asked) + 1},
                          !.pending = @ \union {[uuid |-> Len(x.asked) + 1, tag |-> tag]}], tag, message)
Free == w.appends < MaxAppends
CanAsk == Free /\ w.up /\ Len(w.asked) < MaxRequests
Polled == CanAsk /\ \E m \in Messages : w' = SendWsMessage(w, "SCHEDULER", m)
ResponseTag(x, u) == LET p == {q \in x.pending : q.uuid = u} IN IF p = {} THEN "SYSTEM" ELSE (CHOOSE q \in p : TRUE).tag
Received ==
  /\ Free
  /\ \E u \in w.open, m \in Messages :
       LET tag == ResponseTag(w, u) IN
         w' = AppendMessage([w EXCEPT !.pending = {p \in @ : p.uuid # u}, !.open = @ \ {u},
                                      !.tagged = @ \union {[uuid |-> u, tag |-> tag]}], tag, m)
SocketLost ==
  /\ Free /\ w.up
  /\ w' = AppendMessage(Targeted([w EXCEPT !.up = FALSE, !.devices = {}, !.pending = {}]), "SYSTEM", <<1>>)
SocketOpened == Free /\ ~w.up /\ w' = AppendMessage([w EXCEPT !.up = TRUE], "SYSTEM", <<1>>)
DeviceChanges ==
  w.up /\ \E d \in Devices : w' = Targeted([w EXCEPT !.devices = IF d \in @ THEN @ \ {d} ELSE @ \union {d}])

(* The operator.  A press of the pointer outside the button takes back the *)
(* first of the two clicks; a key does not.                                *)
Elsewhere(x) == \E pointer \in BOOLEAN :
  w' = IF pointer THEN [x EXCEPT !.armed = FALSE, !.elsewhere = TRUE] ELSE x
AddTag == \E t \in Available(w) \ w.selected : Elsewhere([w EXCEPT !.selected = @ \union {t}])
RemoveTag == \E t \in w.selected : Elsewhere([w EXCEPT !.selected = @ \ {t}])
ClearTags == w.selected # {} /\ Elsewhere([w EXCEPT !.selected = {}])
SelectTarget == w.up /\ \E d \in w.devices \ {w.target} : Elsewhere([w EXCEPT !.target = d])
Submit ==
  /\ CanAsk /\ Active(w) # ""
  /\ \E m \in Messages, blocked \in BOOLEAN :
       IF blocked THEN Elsewhere(AppendMessage(w, "SYSTEM", m))
       ELSE Elsewhere(Pruned([SendWsMessage(w, "USER", m) EXCEPT !.selected = {"USER"}]))
Cleared(x) ==
  Pruned([x EXCEPT !.armed = FALSE, !.lines = <<>>, !.all = <<>>, !.size = 0, !.counts = [t \in Tags |-> 0]])
ConfirmOrClear == w' = IF w.armed THEN Cleared(w) ELSE [w EXCEPT !.armed = TRUE, !.elsewhere = FALSE]
CloseDialog == w' = [w EXCEPT !.selected = {}, !.armed = FALSE, !.target = Active([w EXCEPT !.target = ""])]

Init ==
  w = [lines |-> <<>>, size |-> 0, counts |-> [t \in Tags |-> 0], selected |-> {}, armed |-> FALSE,
       pending |-> {}, open |-> {}, up |-> TRUE, devices |-> {}, target |-> "",
       all |-> <<>>, asked |-> <<>>, tagged |-> {}, elsewhere |-> FALSE, appends |-> 0]
Next ==
  \/ Polled \/ Received \/ SocketLost \/ SocketOpened \/ DeviceChanges
  \/ AddTag \/ RemoveTag \/ ClearTags \/ SelectTarget \/ Submit \/ ConfirmOrClear \/ CloseDialog
Spec == Init /\ [][Next]_w

-----------------------------------------------------------------------------
(* The log is the newest lines that fit, its size and its tags, which are  *)
(* counted as lines come and go, are those of the lines it has; and the    *)
(* filter names only tags it has, or the operator's own.                   *)
Fits(lines) == Len(lines) <= MaxLines /\ Size(lines) <= MaxBytes
Newest(lines) ==
  LET start == Min({i \in 1..(Len(lines) + 1) : Fits(SubSeq(lines, i, Len(lines)))}) IN SubSeq(lines, start, Len(lines))
LogIsNewest ==
  /\ w.lines = Newest(w.all)
  /\ w.size = Size(w.lines)
  /\ \A t \in Tags : w.counts[t] = Cardinality({i \in DOMAIN w.lines : w.lines[i].tag = t})
  /\ w.selected \subseteq Available(w) \union {"USER"}

(* An answer is logged under the tag its request was sent under, or as the *)
(* system's when the socket it was asked over is gone.                     *)
AnswersAreTagged == \A p \in w.tagged : p.tag \in {w.asked[p.uuid], "SYSTEM"}

(* The log is cleared by two clicks on its button and none elsewhere.      *)
ClearStep == (w.lines # <<>> /\ w'.lines = <<>>) => ~w.elsewhere
=============================================================================
