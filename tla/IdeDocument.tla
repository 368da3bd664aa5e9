----------------------------- MODULE IdeDocument -----------------------------
(***************************************************************************)
(* The document of the IDE: the editor's buffer with the script and the    *)
(* text it was last in step with, the script remembered for the next       *)
(* visit, and the scripts the Script Runner stores.  Requests are asked,   *)
(* then carried out by the runner, then answered, in any order; an answer  *)
(* runs the continuation with what was captured when it was asked.  A text *)
(* stands for name, source and tags together.  w.fresh: the workspace has  *)
(* opened no document since it was entered; w.crossed: a save or a run has *)
(* been on its way together with another request about stored scripts.     *)
(***************************************************************************)
EXTENDS Naturals, Sequences, SequencesExt

CONSTANTS
  Scripts, Texts,
  Templates,  \* texts of the built-in templates and of imported files
  MaxWire     \* bound: requests in flight

Blank == "blank"
None == "none"

(* What is not stored is told from every script and from every text.       *)
Distinct == None \notin Scripts \union Texts \union Templates

VARIABLE w

Document == [id |-> None, text |-> Blank]

Exists(s) == w.stored[s] \notin {None, "deleted"}
Free == {s \in Scripts : w.stored[s] = None}
Dirty(x) == x.text # x.base
Valid(x) == x.text # Blank
Asked(kind) == \E i \in DOMAIN w.wire : w.wire[i].kind = kind /\ w.wire[i].here
IsStore(kind) == kind \in {"save", "run"}
Crosses(x, kind) ==
  \E i \in DOMAIN x.wire : LET other == x.wire[i].kind IN
    kind # "template" /\ other # "template" /\ (IsStore(kind) \/ IsStore(other))
Ask(x, kind, id, text) ==
  [x EXCEPT !.crossed = @ \/ Crosses(x, kind),
            !.wire = Append(@, [kind |-> kind, id |-> id, text |-> text, dirty |-> Dirty(x),
                                step |-> "asked", here |-> TRUE]),
            !.error = IF IsStore(kind) THEN FALSE ELSE @]
Took(x, i) == [x EXCEPT !.wire = RemoveAt(@, i)]

Replaced(x, d) == [x EXCEPT !.text = d.text, !.base = d.text, !.id = d.id, !.error = FALSE]
(* The effect of a new workspace document: a clean buffer takes it, a      *)
(* dirty one of another script asks first.                                 *)
AlwaysOpened(x, d) == Replaced(x, d)    \* mutant: a new workspace document replaces what is in the buffer
Opened(x, d) ==
  IF ~Dirty(x) THEN Replaced(x, d)
  ELSE IF d.id # x.id \/ d.id = None THEN [x EXCEPT !.pending = [do |-> "replace", doc |-> d]]
  ELSE x
OpenDocument(x, d) == Opened([x EXCEPT !.last = d.id, !.fresh = FALSE], d)
PersistDocument(x, d) == [x EXCEPT !.last = d.id, !.fresh = FALSE]

Nothing == [do |-> "nothing", doc |-> Document]
Do(x, action) ==
  CASE action.do = "replace" -> Replaced(x, action.doc)
    [] action.do = "new" -> Replaced([x EXCEPT !.last = None, !.fresh = FALSE], Document)
    [] action.do = "leave" -> [x EXCEPT !.open = "left", !.fresh = TRUE, !.id = None, !.text = Blank, !.base = Blank,
                                        !.dialog = FALSE, !.wire = [i \in DOMAIN @ |-> [@[i] EXCEPT !.here = FALSE]]]
Request(x, dirty, action) == IF dirty THEN [x EXCEPT !.pending = action] ELSE Do(x, action)

-----------------------------------------------------------------------------
Editing == w.open = "ready" /\ w.pending = Nothing
Type == Editing /\ ~w.dialog /\ \E t \in Texts \ {w.text} : w' = [w EXCEPT !.text = t]

RequestSave ==
  /\ w.open = "ready" /\ Len(w.wire) < MaxWire
  /\ IF w.id = None THEN w' = [w EXCEPT !.dialog = TRUE]
     ELSE Valid(w) /\ ~Asked("save") /\ w' = Ask(w, "save", w.id, w.text)
RequestSaveAs == Editing /\ w' = [w EXCEPT !.dialog = TRUE]
CloseSaveDialog == w.dialog /\ w' = [w EXCEPT !.dialog = FALSE]
SaveAs ==
  w.dialog /\ Valid(w) /\ ~Asked("save") /\ Len(w.wire) < MaxWire /\ w' = Ask(w, "save", None, w.text)
Run == Editing /\ ~w.dialog /\ Valid(w) /\ ~Asked("run") /\ Len(w.wire) < MaxWire /\ w' = Ask(w, "run", w.id, w.text)

LoadTemplate == Editing /\ ~w.dialog /\ ~Asked("template") /\ Len(w.wire) < MaxWire /\ w' = Ask(w, "template", None, Blank)
ImportFile == Editing /\ ~w.dialog /\ Len(w.wire) < MaxWire /\ w' = Ask(w, "template", None, Blank)
OpenScript ==
  /\ Editing /\ ~w.dialog /\ Len(w.wire) < MaxWire
  /\ \E s \in Scripts : Exists(s) /\ w' = Ask(w, "open", s, Blank)
NewFile == Editing /\ ~w.dialog /\ w' = Request(w, Dirty(w), [do |-> "new", doc |-> Document])
(* A workspace that has opened no document yet passes a new empty one with *)
(* each of its renders, for a popup, the console or the tag hints.         *)
WorkspaceRenders == w.open = "ready" /\ w.fresh /\ w' = Opened(w, Document)
NewScript == Editing /\ ~w.dialog /\ w' = OpenDocument(w, Document)
Close == Editing /\ ~w.dialog /\ w' = Request(w, Dirty(w), [do |-> "leave", doc |-> Document])
Discard == w.open = "ready" /\ w.pending # Nothing /\ w' = Do([w EXCEPT !.pending = Nothing], w.pending)
ContinueEditing == w.pending # Nothing /\ w' = [w EXCEPT !.pending = Nothing]

(* The IDE opened again restores the script it remembers.                  *)
Restore ==
  /\ w.open = "left" /\ Len(w.wire) < MaxWire
  /\ w' = IF w.last = None THEN [w EXCEPT !.open = "ready"]
          ELSE Ask([w EXCEPT !.open = "loading"], "restore", w.last, Blank)

-----------------------------------------------------------------------------
(* The Script Runner.  Running stores the script and then submits it: the  *)
(* second request may be refused when the first has been carried out.      *)
Stores(i) ==
  LET r == w.wire[i] IN
    /\ IsStore(r.kind) /\ r.step = "asked"
    /\ \E s \in IF r.id = None THEN Free ELSE {s \in {r.id} : Exists(s)} :
         w' = [w EXCEPT !.stored[s] = r.text, !.wire[i].step = "done", !.wire[i].id = s]
Reads(i) ==
  LET r == w.wire[i] IN
    /\ r.step = "asked"
    /\ \/ r.kind = "template" /\ \E t \in Templates : w' = [w EXCEPT !.wire[i].step = "done", !.wire[i].text = t]
       \/ /\ r.kind \in {"open", "restore"} /\ Exists(r.id)
          /\ w' = [w EXCEPT !.wire[i].step = "done", !.wire[i].text = w.stored[r.id]]
DeletedElsewhere == \E s \in Scripts : Exists(s) /\ w' = [w EXCEPT !.stored[s] = "deleted"]

StoredBufferAsClean(x, d) ==      \* mutant: what is in the buffer by now counts as saved
  [PersistDocument(x, d) EXCEPT !.id = d.id, !.base = x.text, !.dialog = FALSE]
SaveAnswer(x, d) == [Replaced(PersistDocument(x, d), d) EXCEPT !.dialog = FALSE]
RunAnswer(x, d) == Replaced(PersistDocument(x, d), d)
RestoreAnswer(x, d) == [Replaced(x, d) EXCEPT !.open = "ready", !.fresh = FALSE]
Answer(i) ==
  LET r == w.wire[i]
      x == Took(w, i)
      d == [id |-> r.id, text |-> r.text]
  IN /\ r.step = "done"
     /\ w' = IF ~r.here THEN [x EXCEPT !.last = IF r.kind \in {"save", "run", "open"} THEN r.id ELSE @]
             ELSE CASE r.kind = "save" -> SaveAnswer(x, d)
                    [] r.kind = "run" -> RunAnswer(x, d)
                    [] r.kind = "template" -> Request(x, r.dirty, [do |-> "replace", doc |-> d])
                    [] r.kind = "open" -> OpenDocument(x, d)
                    [] r.kind = "restore" -> RestoreAnswer(x, d)
Fails(i) ==
  LET r == w.wire[i] x == Took(w, i) IN
    w' = IF r.kind = "restore" /\ r.here THEN [x EXCEPT !.last = None, !.open = "ready"]
         ELSE [x EXCEPT !.error = @ \/ r.here]

-----------------------------------------------------------------------------
Init ==
  \E t \in Texts, s \in Scripts :
    w = [stored |-> [u \in Scripts |-> IF u = s THEN t ELSE None], last |-> s, open |-> "left", fresh |-> TRUE,
         id |-> None, text |-> Blank, base |-> Blank, pending |-> Nothing, dialog |-> FALSE,
         wire |-> <<>>, crossed |-> FALSE, error |-> FALSE]
Next ==
  \/ Type \/ RequestSave \/ RequestSaveAs \/ CloseSaveDialog \/ SaveAs \/ Run \/ LoadTemplate \/ ImportFile
  \/ OpenScript \/ NewFile \/ WorkspaceRenders \/ NewScript \/ Close \/ Discard \/ ContinueEditing \/ Restore \/ DeletedElsewhere
  \/ \E i \in DOMAIN w.wire : Stores(i) \/ Reads(i) \/ Answer(i) \/ Fails(i)
Spec == Init /\ [][Next]_w

-----------------------------------------------------------------------------
CleanIsStored ==
  (~w.crossed /\ w.open = "ready" /\ w.wire = <<>> /\ ~w.error /\ w.id # None /\ ~Dirty(w)) => w.stored[w.id] \in {w.text, "deleted"}
DirtyText == Dirty(w) /\ w.open = "ready" /\ w'.text # w.text
Written ==
  \E i \in DOMAIN w.wire :
    w.wire[i].here /\ (IsStore(w.wire[i].kind) \/ ~w.wire[i].dirty) /\ Answer(i)
GuardedStep == DirtyText => Type \/ Written \/ (w.pending # Nothing /\ w'.pending = Nothing)
=============================================================================
