------------------------------ MODULE MenuBar ------------------------------
(***************************************************************************)
(* The menu bar of the IDE and the keys that drive it.  w.path is the path *)
(* of open menus, w.focus the focused trigger or item ("outside" for any   *)
(* other element) and w.frame the elements the next animation frame will   *)
(* focus.  An element that is no longer rendered, or becomes disabled,     *)
(* loses the focus.                                                        *)
(***************************************************************************)
EXTENDS Naturals, Sequences, SequencesExt

CONSTANTS
  Templates,  \* the built-in templates offered
  MaxPath     \* bound: menus on the path

VARIABLE w

Children ==
  [root |-> <<"file", "run", "scripts", "settings">>,
   file |-> <<"new", "open", "save", "save as", "import", "export", "templates", "exit">>,
   templates |-> SetToSeq(Templates),
   scripts |-> <<"sources", "tasks">>,
   settings |-> <<"backend", "devices">>]
Menus == {m \in DOMAIN Children : m # "root" /\ Children[m] # <<>>}
Key(id) ==
  CASE id = "file" -> "f" [] id = "new" -> "w" [] id = "open" -> "o" [] id = "save" -> "v" [] id = "save as" -> "a"
    [] id = "import" -> "i" [] id = "export" -> "e" [] id = "templates" -> "l" [] id = "exit" -> "x" [] id = "run" -> "n"
    [] id = "scripts" -> "c" [] id = "sources" -> "o" [] id = "tasks" -> "t" [] id = "settings" -> "s"
    [] id = "backend" -> "b" [] id = "devices" -> "d" [] OTHER -> ""
Keys == {"f", "w", "o", "v", "a", "i", "e", "l", "x", "n", "c", "t", "s", "b", "d"}
Items == UNION {Range(Children[m]) : m \in DOMAIN Children}
MenuOf(id) == CHOOSE m \in DOMAIN Children : id \in Range(Children[m])
IsTopLevel(id) == MenuOf(id) = "root"
(* Depth first, in the order of the menus: the items below each menu.      *)
Below == [m \in DOMAIN Children |->
  FoldLeft(LAMBDA s, id : s \o <<id>> \o (IF id = "templates" THEN Children["templates"] ELSE <<>>), <<>>, Children[m])]
All == FoldLeft(LAMBDA s, id : s \o <<id>> \o (IF id \in Menus THEN Below[id] ELSE <<>>), <<>>, Children["root"])
FindItemByMnemonic(s, key, globalOnly) ==
  LET hits == SelectSeq(s, LAMBDA id : Key(id) = key /\ (globalOnly => id # "sources"))
  IN IF hits = <<>> THEN "none" ELSE hits[1]

Disabled(x, id) == (id = "run" /\ ~x.canRun) \/ (id = "templates" /\ x.loading)
Opened(x, id) == \E i \in DOMAIN x.path : x.path[i] = id
Rendered(x, id) ==
  LET m == MenuOf(id) IN
    m = "root" \/ (Opened(x, m) /\ (IsTopLevel(m) \/ Opened(x, MenuOf(m))))
Focusable(x, id) == id \in Items /\ Rendered(x, id) /\ ~Disabled(x, id)
Settled(x) == IF Focusable(x, x.focus) THEN x ELSE [x EXCEPT !.focus = "outside"]

-----------------------------------------------------------------------------
Focus(x, id) == IF Focusable(x, id) THEN [x EXCEPT !.focus = id] ELSE x
LaterFocus(x, id) == [x EXCEPT !.frame = Append(@, id)]
Close(x) == [x EXCEPT !.path = <<>>]
CloseRestoring(x) == LET y == Close(x) IN IF x.path = <<>> THEN y ELSE LaterFocus(y, x.path[1])
Open(x, id, parent) ==
  LET y == [x EXCEPT !.path = Append(parent, id)] IN IF IsTopLevel(id) THEN LaterFocus(y, id) ELSE y
Enabled(x, m) == SelectSeq(Children[m], LAMBDA id : ~Disabled(x, id))
OpenAndFocusFirst(x, id, parent) ==
  LaterFocus([x EXCEPT !.path = Append(parent, id)], Append(Enabled(x, id), "none")[1])
Invoke(x, id) == [Close(x) EXCEPT !.invoked = Append(@, [id |-> id, enabled |-> ~Disabled(w, id)])]
Choose(x, id, parent) == IF id \in Menus THEN OpenAndFocusFirst(x, id, parent) ELSE Invoke(x, id)

Index(s, id) == CHOOSE i \in DOMAIN s : s[i] = id
Cyclic(s, i) == s[((i + Len(s) - 1) % Len(s)) + 1]
MoveTopLevel(x, id, direction, keepOpen) ==
  LET top == Children["root"]
      next == Cyclic(top, Index(top, id) + direction)
      y == Focus(x, next)
  IN IF keepOpen /\ next \in Menus THEN OpenAndFocusFirst(y, next, <<>>) ELSE Close(y)
MoveWithinMenu(x, m, id, direction) ==
  LET entries == Enabled(x, m) IN Focus(x, Cyclic(entries, Index(entries, id) + direction))

GlobalMnemonic(x, key) ==
  LET id == FindItemByMnemonic(All, key, TRUE)
  IN IF id = "none" \/ Disabled(x, id) THEN x ELSE IF id \in Menus THEN Open(x, id, <<>>) ELSE Invoke(x, id)
(* A key with Alt held, or after Alt, is a global mnemonic first; the      *)
(* focused trigger or item sees the key too, if it is still there.         *)
MenuMnemonic(x, m, key, parent) ==
  LET id == FindItemByMnemonic(Below[m], key, FALSE)
  IN IF id = "none" \/ Disabled(x, id) THEN x ELSE Choose(x, id, parent)
TriggerKey(x, key) ==
  CASE key = "Escape" -> CloseRestoring(x)
    [] key = "Left" -> MoveTopLevel(x, x.focus, -1, x.path # <<>>)
    [] key = "Right" -> MoveTopLevel(x, x.focus, 1, x.path # <<>>)
    [] key = "Enter" \/ (key = "Down" /\ x.focus \in Menus) -> Choose(x, x.focus, <<>>)
    [] key \in Keys /\ x.focus \in Menus -> MenuMnemonic(x, x.focus, key, <<x.focus>>)
    [] OTHER -> x
ItemKey(x, key) ==
  LET m == MenuOf(x.focus) IN
    CASE key = "Escape" -> CloseRestoring(x)
      [] key = "Down" -> MoveWithinMenu(x, m, x.focus, 1)
      [] key = "Up" -> MoveWithinMenu(x, m, x.focus, -1)
      [] key = "Right" /\ x.focus \in Menus -> OpenAndFocusFirst(x, x.focus, x.path)
      [] key = "Left" /\ Len(x.path) > 1 -> LaterFocus([x EXCEPT !.path = Front(@)], Last(x.path))
      [] key \in {"Left", "Right"} -> MoveTopLevel(x, x.path[1], IF key = "Left" THEN -1 ELSE 1, TRUE)
      [] key = "Enter" -> Choose(x, x.focus, x.path)
      [] key \in Keys -> MenuMnemonic(x, m, key, x.path)
      [] OTHER -> x
FocusedKey(x, key) ==
  IF x.focus = "outside" THEN x ELSE IF IsTopLevel(x.focus) THEN TriggerKey(x, key) ELSE ItemKey(x, key)

-----------------------------------------------------------------------------
Fresh == [w EXCEPT !.invoked = <<>>]
PressAlt == w' = [Fresh EXCEPT !.armed = TRUE]
Press ==
  \E key \in Keys \union {"Escape", "Left", "Right", "Up", "Down", "Enter"} :
    /\ Len(w.frame) < 2 /\ Len(w.path) <= MaxPath
    /\ w' = IF ~w.armed THEN Settled(FocusedKey(Fresh, key))
            ELSE Settled(FocusedKey(Settled(GlobalMnemonic([Fresh EXCEPT !.armed = FALSE], key)), key))
PressWithAlt ==
  \E key \in Keys : Len(w.frame) < 2 /\ w' = Settled(GlobalMnemonic([Fresh EXCEPT !.armed = FALSE], key))
Frame ==
  /\ w.frame # <<>>
  /\ w' = [FoldLeft(Focus, Fresh, w.frame) EXCEPT !.frame = <<>>]
Click ==
  \E id \in Items :
    /\ Focusable(w, id) /\ Len(w.frame) < 2
    /\ LET x == [Fresh EXCEPT !.armed = FALSE, !.focus = id]
           parent == IF IsTopLevel(id) THEN <<>> ELSE IF IsTopLevel(MenuOf(id)) THEN <<MenuOf(id)>> ELSE <<MenuOf(MenuOf(id)), MenuOf(id)>>
       IN w' = Settled(IF id \in Menus THEN Open(x, id, parent) ELSE Invoke(x, id))
ClickOutside == w' = Settled([Close(Fresh) EXCEPT !.armed = FALSE, !.focus = "outside"])
Tab == \E id \in Range(Children["root"]) : Focusable(w, id) /\ w' = [Fresh EXCEPT !.focus = id]
(* The document becomes valid or not, a template is being loaded or not.   *)
DocumentChanges == w' = Settled([Fresh EXCEPT !.canRun = ~@])
TemplateLoading == w' = Settled([Fresh EXCEPT !.loading = ~@])

Init ==
  w = [path |-> <<>>, focus |-> "outside", frame |-> <<>>, armed |-> FALSE,
       canRun |-> FALSE, loading |-> FALSE, invoked |-> <<>>]
Next ==
  \/ PressAlt \/ Press \/ PressWithAlt \/ Frame \/ Click \/ ClickOutside \/ Tab \/ DocumentChanges \/ TemplateLoading
Spec == Init /\ [][Next]_w

-----------------------------------------------------------------------------
DisabledIsInert == \A i \in DOMAIN w.invoked : w.invoked[i].enabled
=============================================================================
