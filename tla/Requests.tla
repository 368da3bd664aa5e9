------------------------------ MODULE Requests ------------------------------
(***************************************************************************)
(* What the control widgets of the dashboard share.  A widget w has its    *)
(* saved configuration (with the device it is for), the devices that are   *)
(* available, whether the effects of the last render are still to run, and *)
(* the wire: the requests it waits for.  A request is the continuation of  *)
(* an asynchronous function of the code: the answer runs it up to the next *)
(* await.  Answers come in the order of the requests; a request fails at   *)
(* any time (an error answer, a timeout, a lost socket).  cur says that no *)
(* newer request, reset or connection change has outdated it.              *)
(***************************************************************************)
EXTENDS Naturals, Sequences, FiniteSets, Functions

Available(w) == w.config.dev \in w.up
Ask(w, request) == [w EXCEPT !.wire = Append(@, request)]
Took(w, i) == [w EXCEPT !.wire = SubSeq(@, 1, i - 1) \o SubSeq(@, i + 1, Len(@))]
Outdated(w) == [w EXCEPT !.wire = [i \in DOMAIN @ |-> [@[i] EXCEPT !.cur = FALSE]]]

(* Each of these is a render, whose effects run before the next one and    *)
(* before a click on what it shows, but not before an answer.  The         *)
(* settings dialog saves a whole configuration; a storage event from       *)
(* another tab, of whatever key, reads the same one again.                 *)
Saved(w, config) == [w EXCEPT !.config = config, !.due = TRUE]
Reloaded(w) == [w EXCEPT !.due = TRUE]
Switched(w, d) ==
  LET x == [w EXCEPT !.up = IF d \in @ THEN @ \ {d} ELSE @ \union {d}]
  IN [x EXCEPT !.due = @ \/ Available(x) # Available(w)]
=============================================================================
