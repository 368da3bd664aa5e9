---------------------------- MODULE MCScriptTasks ----------------------------
(* Instances of ScriptTasks for TLC. *)
EXTENDS ScriptTasks, TLC

TaskSymmetry == Permutations(Tasks)

\* Bounds of the capacity run: clients submit one after the other and cancel at
\* most one task, and scripts emit no events.
Starting(t) == starter[t] \notin {"new", "returned", "refused", "gone"}
OneSubmission == \A t, u \in Tasks : Starting(t) /\ Starting(u) => t = u
QuietScripts == \A t \in Tasks : worker[t] # "emit"
AtMostOneCancel == Cardinality(cancelRequested) <= 1

\* What is evicted from memory is left to the run with one task, so that the
\* listings and deletes of two completions fit: here none is evicted.
NothingEvicted ==
  \A t \in Tasks :
    /\ state[t] \in Terminal => t \in tasks
    /\ "evict" \in {worker[t], timer[t]} => chosen[t] = {}
=============================================================================
