----------------------------- MODULE SourceList -----------------------------
(***************************************************************************)
(* The catalogue of user scripts: the page of the applied filter and       *)
(* offset, read again after every change of them and after every deletion, *)
(* and the dialogs that delete or open the scripts selected on it.         *)
(*                                                                         *)
(* The clean-up of an effect makes the answer of its request ineffective,  *)
(* so only the newest page request has a slot (w.load: the step and what   *)
(* was read).  w.wire holds the requests of confirmed deletions and of     *)
(* scripts being opened.  What an error says is left out; w.unsure tells   *)
(* that a deletion was reported as failed and nothing was read since.      *)
(***************************************************************************)
EXTENDS Naturals, Sequences, SequencesExt

CONSTANTS
  Scripts,   \* in catalogue order
  Matching,  \* the scripts that match the narrow filter
  PageSize,
  MaxWire    \* bound: deletions and openings in flight

VARIABLE w

Filters == {"all", "narrow"}
Found(x, filter) == SelectSeq(x.stored, LAMBDA s : filter = "all" \/ s \in Matching)
Page(x, filter, offset) ==
  LET found == Found(x, filter)
      end == IF offset + PageSize < Len(found) THEN offset + PageSize ELSE Len(found)
  IN [items |-> SubSeq(found, offset + 1, end), offset |-> offset, total |-> Len(found)]
EmptyPage == [items |-> <<>>, offset |-> 0, total |-> 0]
Took(x, i) == [x EXCEPT !.wire = RemoveAt(@, i)]
Items(x) == {x.page.items[i] : i \in DOMAIN x.page.items}

LoadEffect(x) == [x EXCEPT !.load = [step |-> "asked", page |-> EmptyPage], !.loading = TRUE, !.error = FALSE,
                           !.unsure = FALSE]
(* Applying the filters makes a new object of them, even of equal ones.    *)
Apply ==
  w.dialog = {} /\ \E f \in Filters : w' = LoadEffect([w EXCEPT !.filter = f, !.offset = IF f = w.filter THEN @ ELSE 0])
SetOffset(offset) == w' = IF offset = w.offset THEN w ELSE LoadEffect([w EXCEPT !.offset = offset])
Turn ==
  /\ w.dialog = {}
  /\ \/ w.page.offset + Len(w.page.items) < w.page.total /\ SetOffset(w.page.offset + PageSize)
     \/ w.page.offset > 0 /\ SetOffset(IF w.page.offset > PageSize THEN w.page.offset - PageSize ELSE 0)
Retry == w.error /\ w' = LoadEffect(w)

Select ==
  \E s \in Items(w) : w.dialog = {} /\ w' = [w EXCEPT !.selected = IF s \in @ THEN @ \ {s} ELSE @ \union {s}]
DeleteOffered == w.selected # {}
OpenDelete ==
  LET named == Items(w) \intersect w.selected IN
    w.dialog = {} /\ DeleteOffered /\ named # {} /\ w' = [w EXCEPT !.dialog = named, !.deleting = FALSE]
CloseDialog == w.dialog # {} /\ w' = [w EXCEPT !.dialog = {}, !.deleting = FALSE]
Confirm ==
  /\ w.dialog # {} /\ ~w.deleting /\ Len(w.wire) < MaxWire
  /\ w' = [w EXCEPT !.deleting = TRUE, !.wire = Append(@, [kind |-> "delete", asked |-> w.dialog, done |-> {}, failed |-> FALSE])]
OpenScript ==
  /\ w.dialog = {} /\ Len(w.wire) < MaxWire
  /\ \E s \in Items(w) : w' = [w EXCEPT !.wire = Append(@, [kind |-> "open", asked |-> {s}, done |-> {}, failed |-> FALSE])]

-----------------------------------------------------------------------------
(* The Script Runner.                                                      *)
PageRead ==
  w.load.step = "asked" /\ w' = [w EXCEPT !.load = [step |-> "read", page |-> Page(w, w.filter, w.offset)]]
Reached(i) ==
  \E s \in w.wire[i].asked :
    /\ \E k \in DOMAIN w.stored : w.stored[k] = s
    /\ w' = [w EXCEPT !.stored = IF w.wire[i].kind = "delete" THEN SelectSeq(@, LAMBDA u : u # s) ELSE @,
                      !.wire[i].asked = @ \ {s}, !.wire[i].done = @ \union {s}]

PageAnswer == w.load.step = "read" /\ w' = [w EXCEPT !.load.step = "none", !.page = w.load.page, !.loading = FALSE]
PageFails ==
  w.load.step # "none" /\ w' = [w EXCEPT !.load.step = "none", !.page = EmptyPage, !.error = TRUE, !.loading = FALSE]
DeleteAnswer(i) ==
  /\ w.wire[i].kind = "delete" /\ w.wire[i].done # {}
  /\ \E s \in w.wire[i].done : w' = LoadEffect([w EXCEPT !.wire[i].done = @ \ {s}])
(* The first failure ends the wait; the dialog that is open stays.         *)
DeleteFails(i) ==
  /\ w.wire[i].kind = "delete"
  /\ \E s \in w.wire[i].asked \union w.wire[i].done :
       w' = [w EXCEPT !.wire[i].asked = @ \ {s}, !.wire[i].done = @ \ {s}, !.wire[i].failed = TRUE,
                      !.deleting = FALSE, !.unsure = @ \/ s \in w.wire[i].done]
DeleteOver(i) ==
  LET r == w.wire[i] IN
    /\ r.kind = "delete" /\ r.asked \union r.done = {}
    /\ w' = IF r.failed THEN Took(w, i)
            ELSE [Took(w, i) EXCEPT !.selected = {}, !.dialog = {}, !.deleting = FALSE]
OpenAnswer(i) == w.wire[i].kind = "open" /\ w.wire[i].done # {} /\ w' = Took(w, i)
OpenFails(i) == w.wire[i].kind = "open" /\ w' = Took(w, i)

-----------------------------------------------------------------------------
Init ==
  w = LoadEffect([stored |-> Scripts, filter |-> "all", offset |-> 0, page |-> EmptyPage, error |-> FALSE,
                  loading |-> TRUE, unsure |-> FALSE, selected |-> {}, dialog |-> {}, deleting |-> FALSE,
                  load |-> [step |-> "none", page |-> EmptyPage], wire |-> <<>>])
Next ==
  \/ Apply \/ Turn \/ Retry \/ Select \/ OpenDelete \/ CloseDialog \/ Confirm \/ OpenScript
  \/ PageRead \/ PageAnswer \/ PageFails
  \/ \E i \in DOMAIN w.wire :
       Reached(i) \/ DeleteAnswer(i) \/ DeleteFails(i) \/ DeleteOver(i) \/ OpenAnswer(i) \/ OpenFails(i)
Spec == Init /\ [][Next]_w

-----------------------------------------------------------------------------
Quiet == ~w.loading /\ ~w.error /\ ~w.unsure /\ \A i \in DOMAIN w.wire : w.wire[i].kind = "open"
SettledPage == Quiet => w.page = Page(w, w.filter, w.offset)
=============================================================================
