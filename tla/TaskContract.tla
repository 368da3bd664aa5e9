----------------------------- MODULE TaskContract -----------------------------
(***************************************************************************)
(* What the script runner promises about each task, whatever its threads   *)
(* do: while the process lives a task moves along ScriptTaskState's life   *)
(* cycle and ends once; the outcome is stored at most once and as decided; *)
(* a restarted process stores INTERRUPTED only for tasks it does not run.  *)
(***************************************************************************)
CONSTANT Tasks

VARIABLES
  life,    \* the task as the live process knows it, "ABSENT" if it does not
  stored   \* the durable final status, "ABSENT" if there is none

contractVars == <<life, stored>>

Ended == {"COMPLETED", "FAILED", "CANCELLED", "TIMED_OUT"}

\* The life cycle, as <<from, to>> pairs.
Moves ==
  {<<"ABSENT", "QUEUED">>, <<"QUEUED", "RUNNING">>,
   <<"RUNNING", "PENDING_INPUT">>, <<"PENDING_INPUT", "RUNNING">>}
  \cup ({"QUEUED", "RUNNING", "PENDING_INPUT"} \X {"CANCELLING", "TIMED_OUT"})
  \cup ({"RUNNING", "PENDING_INPUT"} \X {"COMPLETED", "FAILED"})
  \cup ({"CANCELLING"} \X {"CANCELLED", "TIMED_OUT"})

Init ==
  /\ life = [t \in Tasks |-> "ABSENT"]
  /\ stored = [t \in Tasks |-> "ABSENT"]

Move(t) ==
  /\ \E m \in Moves : life[t] = m[1] /\ life' = [life EXCEPT ![t] = m[2]]
  /\ UNCHANGED stored

Store(t) ==
  /\ life[t] \in Ended
  /\ stored[t] = "ABSENT"
  /\ stored' = [stored EXCEPT ![t] = life[t]]
  /\ UNCHANGED life

\* Recovery may replace a result the previous process had stored.
Interrupt(t) ==
  /\ life[t] = "ABSENT"
  /\ stored' = [stored EXCEPT ![t] = "INTERRUPTED"]
  /\ UNCHANGED life

Retire ==
  /\ \E D \in SUBSET {t \in Tasks : stored[t] # "ABSENT"} :
       stored' = [t \in Tasks |-> IF t \in D THEN "ABSENT" ELSE stored[t]]
  /\ UNCHANGED life

Die == life' = [t \in Tasks |-> "ABSENT"] /\ UNCHANGED stored

Next == Retire \/ Die \/ \E t \in Tasks : Move(t) \/ Store(t) \/ Interrupt(t)

Spec == Init /\ [][Next]_contractVars
=============================================================================
