------------------------------ MODULE Dashboard ------------------------------
(***************************************************************************)
(* A dashboard page: the grid of widgets, its edit mode with dragging,     *)
(* adding, removing and resetting, and what the browser's local storage    *)
(* keeps of it: the layout, the configuration of each widget and the       *)
(* history of each chart.                                                  *)
(*                                                                         *)
(* A widget is [id, type, x, y, w, h] in grid cells.  Pointer positions    *)
(* are the grid cells they select, and w.lifted holds the widgets whose    *)
(* element is moved with the pointer.                                      *)
(***************************************************************************)
EXTENDS Integers, Sequences, SequencesExt, FiniteSets

CONSTANTS
  Page,      \* "operator", "other" or "proxy"
  Taken,     \* the widgets taken from the page's default layout
  New,       \* ids a new widget may get
  Pointers,  \* fingers or mice
  Stored,    \* what the browser may have stored before
  MaxRow,    \* bound: rows a widget is dragged over
  MaxEdits   \* bound: changes of the layout

VARIABLE w

Columns == 3
Dynamic == Page # "proxy"
NoDrag == [pointer |-> "none", id |-> "none", x |-> 0, y |-> 0]
Ids(s) == {s[i].id : i \in DOMAIN s}
Clamp(v, min, max) == LET n == IF v > min THEN v ELSE min IN IF n < max THEN n ELSE max
Widget(id, type, x, y, wide, high) == [id |-> id, type |-> type, x |-> x, y |-> y, w |-> wide, h |-> high]
OperatorLayout == <<
  Widget("value1", "control", 2, 2, 1, 1), Widget("chart2", "chart", 0, 2, 2, 2), Widget("toggle", "control", 2, 0, 1, 1),
  Widget("value3", "control", 2, 4, 1, 1), Widget("value4", "control", 2, 6, 1, 1), Widget("chart4", "chart", 0, 6, 2, 2),
  Widget("chart1", "chart", 0, 0, 2, 2), Widget("value2", "control", 2, 1, 1, 1), Widget("trip", "control", 2, 3, 1, 1),
  Widget("value5", "control", 2, 5, 1, 1), Widget("rate", "control", 2, 7, 1, 1), Widget("chart3", "chart", 0, 4, 2, 2)>>
OtherLayout == <<Widget("power", "chart", 0, 0, 3, 2)>>
ProxyLayout == <<
  Widget("websocket", "websocket", 0, 0, 1, 2), Widget("monitor", "monitor", 1, 0, 2, 2),
  Widget("devices", "deviceList", 0, 2, 3, 1)>>
PageLayout == CASE Page = "operator" -> OperatorLayout [] Page = "other" -> OtherLayout [] OTHER -> ProxyLayout
Defaults == SelectSeq(PageLayout, LAMBDA d : d.id \in Taken)
DefaultConfigs == IF Page = "proxy" THEN {} ELSE Ids(Defaults)
Types == IF Page = "proxy" THEN {"websocket", "monitor", "deviceList"} ELSE {"control", "chart", "xyChart"}
Available ==
  {[type |-> "control", w |-> 1, h |-> 1], [type |-> "control", w |-> 1, h |-> 2],
   [type |-> "control", w |-> 2, h |-> 2]} \union
  {[type |-> "chart", w |-> size[1], h |-> size[2]] : size \in {<<2, 1>>, <<2, 2>>, <<3, 2>>}} \union
  {[type |-> "xyChart", w |-> size, h |-> 2] : size \in {2, 3}}

-----------------------------------------------------------------------------
(* Placement on the grid.                                                  *)
OverlapOfColumns(a, b) ==        \* mutant: only widgets that begin in the same row are compared
  a.x < b.x + b.w /\ a.x + a.w > b.x /\ a.y = b.y
RectanglesOverlap(a, b) ==
  a.x < b.x + b.w /\ a.x + a.w > b.x /\ a.y < b.y + b.h /\ a.y + a.h > b.y
IsPlacementAvailable(c, layout) ==
  /\ c.x >= 0 /\ c.x + c.w <= Columns /\ c.y >= 0
  /\ \A i \in DOMAIN layout : layout[i].id = c.id \/ ~RectanglesOverlap(c, layout[i])
Below(layout) == CHOOSE n \in 0..99 :
  /\ \A i \in DOMAIN layout : layout[i].y + layout[i].h <= n
  /\ n = 0 \/ \E i \in DOMAIN layout : layout[i].y + layout[i].h = n
(* The first free cell, row by row; the row below all widgets has one.     *)
FindAvailablePlacement(c, layout) ==
  LET At(n) == [c EXCEPT !.x = n % Columns, !.y = n \div Columns]
      free == {n \in 0..(Columns * (Below(layout) + 1)) : IsPlacementAvailable(At(n), layout)}
  IN IF IsPlacementAvailable(c, layout) THEN c
     ELSE At(CHOOSE n \in free : \A m \in free : n <= m)
Normalized(c) ==
  LET wide == Clamp(c.w, 1, Columns) IN
    [c EXCEPT !.w = wide, !.h = Clamp(@, 1, 3), !.x = Clamp(@, 0, Columns - wide), !.y = IF @ > 0 THEN @ ELSE 0]
NormalizeDynamicLayout(s) ==
  FoldLeft(LAMBDA kept, c : IF c.type \in Types /\ IsPlacementAvailable(Normalized(c), kept)
                            THEN Append(kept, Normalized(c)) ELSE kept, <<>>, s)
NormalizeStaticLayout(s) ==
  LET Candidate(d) ==
        LET found == {i \in DOMAIN s : s[i].id = d.id} IN
          IF found = {} THEN d ELSE [s[CHOOSE i \in found : \A j \in found : i <= j] EXCEPT !.type = d.type]
  IN FoldLeft(LAMBDA kept, d : Append(kept, IF IsPlacementAvailable(Normalized(Candidate(d)), kept)
                                            THEN Normalized(Candidate(d))
                                            ELSE FindAvailablePlacement(Normalized(d), kept)), <<>>, Defaults)

DefaultLayout == IF Dynamic THEN NormalizeDynamicLayout(Defaults) ELSE NormalizeStaticLayout(Defaults)
LoadLayout(s) ==
  CASE s.kind \in {"none", "damaged"} -> DefaultLayout
    [] ~Dynamic /\ s.hash # "current" -> DefaultLayout
    [] OTHER -> LET found == IF s.kind = "layout" THEN s.widgets ELSE <<>>
                IN IF Dynamic THEN NormalizeDynamicLayout(found) ELSE NormalizeStaticLayout(found)

-----------------------------------------------------------------------------
(* The effects of a render: the layout is stored, and the default          *)
(* configuration of a widget that has none.                                *)
Saved(x) == [x EXCEPT !.stored = [kind |-> "layout", hash |-> IF Dynamic THEN "" ELSE "current", widgets |-> x.layout]]
Configured(x) == [x EXCEPT !.configs = @ \union (Ids(x.layout) \intersect DefaultConfigs)]
Render(x) == Configured(Saved(x))
Edited(x) == [Render(x) EXCEPT !.edits = @ + 1]

OpenPage == ~w.open /\ w' = Render([w EXCEPT !.open = TRUE, !.layout = LoadLayout(w.stored)])
LeavePage == w.open /\ w' = [w EXCEPT !.open = FALSE, !.edit = FALSE, !.drag = NoDrag, !.lifted = {}]
ToggleEditMode == w.open /\ Dynamic /\ w' = [w EXCEPT !.edit = ~@]
ResetLayout == w.edit /\ w' = Edited([w EXCEPT !.layout = DefaultLayout, !.dropped = @ \union Ids(w.layout)])
AddWidget ==
  /\ w.edit
  /\ \E a \in Available, id \in New \ w.used :
       LET c == [id |-> id, type |-> a.type, x |-> 0, y |-> 0, w |-> a.w, h |-> a.h] IN
         w' = Edited([w EXCEPT !.layout = Append(@, FindAvailablePlacement(c, @)), !.used = @ \union {id}])

(* What is deleted with a widget besides its configuration.                *)
HistoryDeleted(widget) ==
  widget.type = "xyChart" \/ (widget.type = "chart" /\ Page = "operator")
RemovedData(x, widget) ==
  [x EXCEPT !.configs = @ \ {widget.id}, !.data = IF HistoryDeleted(widget) THEN @ \ {widget.id} ELSE @]
RemoveWidget ==
  /\ w.edit
  /\ \E i \in DOMAIN w.layout :
       w' = Edited(RemovedData([w EXCEPT !.layout = RemoveAt(@, i), !.lifted = @ \ {w.layout[i].id},
                                         !.dropped = @ \ {w.layout[i].id}], w.layout[i]))

(* The settings of a widget, and the samples of a chart that is shown.     *)
SaveSettings == w.open /\ \E id \in Ids(w.layout) : w' = [w EXCEPT !.configs = @ \union {id}]
Sample ==
  /\ w.open
  /\ \E i \in DOMAIN w.layout :
       w.layout[i].type \in {"chart", "xyChart"} /\ w' = [w EXCEPT !.data = @ \union {w.layout[i].id}]

-----------------------------------------------------------------------------
(* Dragging: a press that starts a drag replaces the one that goes on.     *)
StartDrag(p) ==
  /\ w.edit /\ w.drag.pointer # p
  /\ \E i \in DOMAIN w.layout :
       w' = [w EXCEPT !.drag = [pointer |-> p, id |-> w.layout[i].id, x |-> w.layout[i].x, y |-> w.layout[i].y]]
PointerGridPosition(wide, column, row) == [x |-> Clamp(column, 0, Columns - wide), y |-> row]
Preview(x) ==
  \E i \in DOMAIN w.layout, column \in 0..(Columns - 1), row \in 0..MaxRow :
    /\ w.layout[i].id = w.drag.id
    /\ LET at == PointerGridPosition(w.layout[i].w, column, row) IN
         w' = [x EXCEPT !.lifted = @ \union {w.drag.id}, !.drag.x = at.x, !.drag.y = at.y]
MovePointer(p) == w.drag.pointer = p /\ Preview(w)
AutoScroll == w.drag # NoDrag /\ Preview(w)
MoveWidgetInLayout(layout, id, x, y) ==
  LET Moved(c) == IF c.id = id THEN [c EXCEPT !.x = x, !.y = y] ELSE c IN
    IF \A i \in DOMAIN layout : layout[i].id = id => IsPlacementAvailable(Moved(layout[i]), layout)
    THEN [i \in DOMAIN layout |-> Moved(layout[i])] ELSE layout
FinishDrag(x) == [x EXCEPT !.drag = NoDrag, !.lifted = @ \ {w.drag.id}]
EndDrag(p) ==
  /\ w.drag.pointer = p
  /\ LET layout == MoveWidgetInLayout(w.layout, w.drag.id, w.drag.x, w.drag.y) IN
       w' = IF layout = w.layout THEN FinishDrag(w) ELSE Edited(FinishDrag([w EXCEPT !.layout = layout]))
CancelDrag(p) == w.drag.pointer = p /\ w' = FinishDrag(w)

-----------------------------------------------------------------------------
Init ==
  \E s \in Stored :
    w = [open |-> FALSE, layout |-> <<>>, stored |-> s, configs |-> {}, data |-> {}, edit |-> FALSE, drag |-> NoDrag,
         lifted |-> {}, edits |-> 0, dropped |-> {}, used |-> {}]
Next ==
  \/ OpenPage \/ LeavePage
  \/ /\ w.edits < MaxEdits
     /\ \/ ToggleEditMode \/ ResetLayout \/ AddWidget \/ RemoveWidget \/ SaveSettings \/ Sample \/ AutoScroll
        \/ \E p \in Pointers : StartDrag(p) \/ MovePointer(p) \/ EndDrag(p) \/ CancelDrag(p)
Spec == Init /\ [][Next]_w

-----------------------------------------------------------------------------
(* Widgets stay apart and within the grid, the page shows what a reload    *)
(* would, default widgets have their settings, and with one pointer only   *)
(* the widget it drags is lifted from the grid.                            *)
Cells(p) == (p.x..(p.x + p.w - 1)) \X (p.y..(p.y + p.h - 1))
Sound(layout) ==
  /\ \A i \in DOMAIN layout : Cells(layout[i]) \subseteq (0..(Columns - 1)) \X Nat
  /\ \A i, j \in DOMAIN layout :
       i # j => layout[i].id # layout[j].id /\ Cells(layout[i]) \intersect Cells(layout[j]) = {}
ReloadKeeps == w.open => w.stored.kind = "layout" /\ LoadLayout(w.stored) = w.layout
DefaultsConfigured == w.open => Ids(w.layout) \intersect DefaultConfigs \subseteq w.configs
OnlyTheDraggedIsLifted == Cardinality(Pointers) = 1 => w.lifted \subseteq {w.drag.id}
DashboardIsSound == Sound(w.layout) /\ ReloadKeeps /\ DefaultsConfigured /\ OnlyTheDraggedIsLifted

(* No settings and no chart history are kept of a widget that was removed, *)
(* other than by a reset of the whole layout.                              *)
RemovedDataGone == w.open => (w.configs \union w.data) \subseteq (Ids(w.layout) \union w.dropped)
=============================================================================
