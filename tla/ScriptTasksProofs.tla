-------------------------- MODULE ScriptTasksProofs --------------------------
(***************************************************************************)
(* Theorems about ScriptTasks for every set of tasks, every pool size and  *)
(* every bound.                                                            *)
(***************************************************************************)
EXTENDS ScriptTasks, FiniteSetTheorems, TLAPS

\* What every step definition is built from.
USE DEF disk, inputVars, timeVars, taskVars, passVars, holdVars, pcVars, boundVars

\* The choices of retention and eviction are sets of tasks.
LEMMA OldestSubset ==
  ASSUME NEW S \in SUBSET Tasks, NEW n, NEW D \in Oldest(S, n)
  PROVE  D \subseteq S
BY DEF Oldest

\* What the map may evict of its tasks is completed.
LEMMA EvictableSubset ==
  ASSUME tasks \subseteq Tasks, NEW E \in Evictable
  PROVE  E \subseteq Completed
<1>1. Completed \in SUBSET Tasks
  BY DEF Completed
<1>2. PICK n \in 0..MaxCompleted : E \in Oldest(Completed, n)
  BY DEF Evictable
<1> QED
  BY <1>1, <1>2, OldestSubset

\* What retention deletes of a listing is in the listing.
LEMMA DeletedSubset ==
  ASSUME NEW S \in SUBSET Tasks, NEW D \in ToDelete(S)
  PROVE  D \subseteq S
BY OldestSubset DEF ToDelete

-----------------------------------------------------------------------------
(* The inductive invariant: what is true of one task between any two steps.*)

\* A task the process does not know has no threads and no memory.
Unknown(t) ==
  /\ worker[t] = "none" /\ timer[t] = "off" /\ answer[t] = "idle"
  /\ t \notin tasks \cup cancelRequested \cup futureSet \cup assembled
  /\ stream[t] = "none"
  /\ openInput[t] = 0
  /\ starter[t] \in {"new", "refused", "gone"}

\* Which tasks the process knows, and what is on disk of the others.
Known(t) ==
  /\ state[t] = "ABSENT" => Unknown(t)
  /\ phase # "up" => state[t] = "ABSENT" /\ starter[t] \in {"new", "gone"}
  /\ starter[t] = "new" => state[t] = "ABSENT" /\ record[t] = "ABSENT" /\ result[t] = "ABSENT"
  /\ t \in recovering => phase = "recovering" /\ starter[t] # "new" /\ record[t] \in Active
  /\ state[t] # "INTERRUPTED"

\* How far start() has come limits what the other threads have done.
Started(t) ==
  /\ t \in tasks => starter[t] \notin {"new", "put", "refused"}
  /\ state[t] \in Active /\ starter[t] \notin {"new", "put", "refused", "gone"} => t \in tasks
  /\ starter[t] \in {"new", "put", "submit", "refused", "gone"} => worker[t] = "none" /\ inputs[t] = 0
  /\ starter[t] \in {"put", "submit", "refused"} =>
       {record[t], state[t]} \subseteq {"ABSENT", "QUEUED", "CANCELLING"}
  /\ starter[t] # "returned" => timer[t] = "off"
  /\ state[t] = "QUEUED" => worker[t] \in {"none", "queued", "taken"}
  /\ t \in cancelRequested /\ state[t] \in Active <=> state[t] = "CANCELLING"

\* The input request in progress, the worker that waits for it and the thread
\* that answers it.
Asking == {"snapAsk", "saveAsk", "publishAsk", "enterAwait", "await", "checkResume", "snapResume", "saveResume",
           "publishResume"}
Waiting(t) ==
  /\ state[t] = "PENDING_INPUT" <=> openInput[t] # 0
  /\ worker[t] \in Asking \/ answer[t] # "idle" \/ openInput[t] # 0 => inputs[t] # 0
  /\ worker[t] = "await" =>
       (state[t] = "PENDING_INPUT" /\ openInput[t] = inputs[t]) \/ response[t] # "none"

\* A thread that completes a task holds the outcome the task ended with.
HoldsOutcome(t) ==
  /\ worker[t] \in Completing => state[t] \in Terminal /\ workerHolds[t] = state[t]
  /\ timer[t] \in Completing => state[t] \in Terminal /\ timerHolds[t] = state[t]

\* The outcome is decided once, published once and then stored.
Undelivered == {"complete", "saveResult"}
Settled(t) ==
  /\ ~(worker[t] \in Completing /\ timer[t] \in Completing)
  /\ state[t] \in {"COMPLETED", "FAILED", "CANCELLED"} => worker[t] \in Completing \cup {"done"}
  /\ t \in assembled => state[t] \in Terminal
  /\ stream[t] = "ended" => t \in assembled
  /\ worker[t] = "complete" \/ timer[t] = "complete" => t \notin assembled
  /\ state[t] # "ABSENT" /\ result[t] # "ABSENT" => result[t] = state[t]
  /\ worker[t] \in Undelivered \/ timer[t] \in Undelivered => result[t] = "ABSENT"
  /\ state[t] \in Terminal /\ worker[t] \notin Undelivered /\ timer[t] \notin Undelivered
       => result[t] = state[t] \/ t \in retired \/ faults > 0

\* An active record of a serving process is of a task it runs or is explained.
Explained(t) ==
  phase = "up" /\ record[t] \in Active => OfLiveTask(t) \/ OfStart(t) \/ OfRefusal(t) \/ OfEndedTask(t)

TaskInv(t) == Known(t) /\ Started(t) /\ Waiting(t) /\ HoldsOutcome(t) /\ Settled(t) /\ Explained(t)

IInv == TypeOK /\ \A t \in Tasks : TaskInv(t)

\* What a thread that has stored its outcome does last.
RetentionStep(t, a) ==
  \/ ListNext(t, a) \/ Choose(t, a) \/ Delete(t, a) \/ ChooseEvicted(t, a) \/ EvictNext(t, a) \/ Finished(t, a)

-----------------------------------------------------------------------------
(* Type correctness.                                                       *)

\* Every step of start() keeps the types.
LEMMA StartTypes ==
  ASSUME TypeOK, NEW t \in Tasks, StartStep(t)
  PROVE  TypeOK'
<1> USE BoundsAssumption DEF TypeOK, StarterGoes, Fault, SaveRecord, StarterPC, WorkerPC, TimerPC, TaskState,
        Active
<1>1. CASE StartSave(t) BY <1>1 DEF StartSave
<1>2. CASE StartSaveFails(t) BY <1>2 DEF StartSaveFails
<1>3. CASE StartPut(t) BY <1>3 DEF StartPut
<1>4. CASE StartSubmit(t) BY <1>4 DEF StartSubmit
<1>5. CASE StartRejected(t) BY <1>5 DEF StartRejected
<1>6. CASE StartSetFuture(t) BY <1>6 DEF StartSetFuture
<1>7. CASE StartSchedule(t) BY <1>7 DEF StartSchedule
<1> QED BY <1>1, <1>2, <1>3, <1>4, <1>5, <1>6, <1>7 DEF StartStep

\* Every step of the pool thread outside the script keeps the types.
LEMMA WorkerTypes ==
  ASSUME TypeOK, NEW t \in Tasks, WorkerStep(t)
  PROVE  TypeOK'
<1> USE BoundsAssumption DEF TypeOK, WorkerGoes, OutcomeGoes, Fault, SaveRecord, Publish, StarterPC,
        WorkerPC, ScriptPC, TimerPC, AnswerPC, TaskState, Active, Terminal, Completing
<1>1. CASE WorkerTake(t) BY <1>1 DEF WorkerTake
<1>2. CASE MarkRunning(t) BY <1>2 DEF MarkRunning
<1>3. CASE WorkerSnapshot(t) BY <1>3 DEF WorkerSnapshot, AfterSnapshot
<1>4. CASE WorkerSave(t) BY <1>4 DEF WorkerSave, AfterSave
<1>5. CASE WorkerSaveFails(t) BY <1>5 DEF WorkerSaveFails
<1>6. CASE PublishStarted(t) BY <1>6 DEF PublishStarted
<1>7. CASE WorkerPublish(t)
  <2>1. worker' \in [Tasks -> WorkerPC] BY <1>7 DEF WorkerPublish, AfterPublish
  <2>2. stream' \in [Tasks -> {"none", "open", "ended"}] BY <1>7 DEF WorkerPublish
  <2>3. UNCHANGED <<disk, phase, tasks, state, cancelRequested, futureSet, inputVars, assembled, timeVars, starter,
                    timer, answer, holdVars, recovering, boundVars>>
    BY <1>7 DEF WorkerPublish
  <2> QED BY <2>1, <2>2, <2>3
<1>8. CASE EnterAwait(t) BY <1>8 DEF EnterAwait
<1>9. CASE AwaitReturns(t) BY <1>9 DEF AwaitReturns
<1>10. CASE AwaitDeadline(t) BY <1>10 DEF AwaitDeadline, Resolve
<1>11. CASE CheckResume(t) BY <1>11 DEF CheckResume
<1> QED BY <1>1, <1>2, <1>3, <1>4, <1>5, <1>6, <1>7, <1>8, <1>9, <1>10, <1>11 DEF WorkerStep

\* Deciding an outcome keeps the types, whichever thread decides it.
LEMMA DecideTypes ==
  ASSUME TypeOK, NEW t \in Tasks, NEW outcome \in Terminal, Decide(t, outcome)
  PROVE  /\ state' \in [Tasks -> TaskState]
         /\ inputs' \in [Tasks -> 0..MaxInputs]
         /\ openInput' \in [Tasks -> 0..MaxInputs]
         /\ response' \in [Tasks -> {"none", "value", "cancelled"}]
         /\ endedAt' \in [Tasks -> Nat]
         /\ clock' \in Nat
<1> USE BoundsAssumption DEF TypeOK, Decide, CancelInputWait
<1>1. state' \in [Tasks -> TaskState] BY DEF TaskState
<1>2. /\ inputs' \in [Tasks -> 0..MaxInputs]
      /\ openInput' \in [Tasks -> 0..MaxInputs]
  OBVIOUS
<1>3. response' \in [Tasks -> {"none", "value", "cancelled"}] OBVIOUS
<1>4. endedAt' \in [Tasks -> Nat] /\ clock' \in Nat OBVIOUS
<1> QED BY <1>1, <1>2, <1>3, <1>4

\* What a script does through its bindings keeps the types.
LEMMA ScriptTypes ==
  ASSUME TypeOK, NEW t \in Tasks, ScriptStep(t)
  PROVE  TypeOK'
<1> USE BoundsAssumption DEF TypeOK, WorkerGoes, WorkerPC, ScriptPC, TaskState, Active, Terminal, Completing
<1>1. CASE Emit(t) BY <1>1 DEF Emit
<1>2. CASE RequestInput(t) BY <1>2 DEF RequestInput
<1>3. ASSUME NEW succeeded \in BOOLEAN, Finish(t, succeeded)
      PROVE  TypeOK'
  <2>1. CASE state[t] \in Terminal BY <1>3, <2>1 DEF Finish
  <2>2. CASE state[t] \notin Terminal
    <3>1. FinalState(t, succeeded) \in Terminal BY DEF FinalState
    <3>2. Decide(t, FinalState(t, succeeded)) BY <1>3, <2>2 DEF Finish
    <3>3. worker' \in [Tasks -> WorkerPC] BY <1>3, <2>2 DEF Finish
    <3>4. workerHolds' \in [Tasks -> TaskState] BY <1>3, <2>2, <3>1 DEF Finish
    <3> QED BY <1>3, <2>2, <3>1, <3>2, <3>3, <3>4, DecideTypes DEF Finish
  <2> QED BY <2>1, <2>2
<1> QED BY <1>1, <1>2, <1>3 DEF ScriptStep

\* The timeout keeps the types.
LEMMA TimerTypes ==
  ASSUME TypeOK, NEW t \in Tasks, TimerFires(t)
  PROVE  TypeOK'
<1> USE DEF TypeOK, TimerFires, TimerPC, Completing
<1>1. CASE state[t] \in Terminal BY <1>1
<1>2. CASE state[t] \notin Terminal
  <2>1. "TIMED_OUT" \in Terminal BY DEF Terminal
  <2>2. Decide(t, "TIMED_OUT") BY <1>2
  <2>3. worker' \in [Tasks -> WorkerPC] BY <1>2 DEF CancelFuture, WorkerPC
  <2>4. timerHolds' \in [Tasks -> TaskState] BY <1>2 DEF TaskState, Terminal
  <2> QED BY <1>2, <2>1, <2>2, <2>3, <2>4, DecideTypes
<1> QED BY <1>1, <1>2

\* Every step of retention and eviction keeps the types.
LEMMA RetentionTypes ==
  ASSUME TypeOK, NEW t \in Tasks, NEW a \in OutcomeThread, RetentionStep(t, a)
  PROVE  TypeOK'
<1>0. ASSUME NEW from, NEW to \in Completing \cup {"done"}, OutcomeGoes(t, a, from, to)
      PROVE  worker' \in [Tasks -> WorkerPC] /\ timer' \in [Tasks -> TimerPC]
  BY <1>0 DEF OutcomeGoes, TypeOK, WorkerPC, TimerPC
<1>1. CASE ListNext(t, a)
  <2>1. looked' \in [Tasks -> SUBSET Tasks] /\ chosen' \in [Tasks -> SUBSET Tasks]
    BY <1>1 DEF ListNext, TypeOK
  <2> QED BY <1>0, <1>1, <2>1 DEF ListNext, PassStays, TypeOK, Completing
<1>2. CASE Choose(t, a)
  <2>1. PICK D \in ToDelete(chosen[t]) : chosen' = [chosen EXCEPT ![t] = D] BY <1>2 DEF Choose
  <2>2. chosen[t] \in SUBSET Tasks BY DEF TypeOK
  <2>3. D \subseteq Tasks BY <2>2, DeletedSubset
  <2>4. looked' \in [Tasks -> SUBSET Tasks] /\ chosen' \in [Tasks -> SUBSET Tasks]
    BY <1>2, <2>1, <2>3 DEF Choose, TypeOK
  <2> QED BY <1>0, <1>2, <2>4 DEF Choose, PassStays, TypeOK, Completing
<1>3. CASE Delete(t, a)
  <2>1. PICK u \in chosen[t] :
          /\ result' = [result EXCEPT ![u] = "ABSENT"]
          /\ record' = [record EXCEPT ![u] = "ABSENT"]
          /\ retired' = retired \cup {u}
          /\ chosen' = [chosen EXCEPT ![t] = @ \ {u}]
    BY <1>3 DEF Delete
  <2>2. u \in Tasks BY DEF TypeOK
  <2>3. record' \in [Tasks -> TaskState] /\ result' \in [Tasks -> Terminal \cup {"ABSENT"}]
    BY <2>1, <2>2 DEF TypeOK, TaskState
  <2>4. retired' \subseteq Tasks /\ chosen' \in [Tasks -> SUBSET Tasks] BY <2>1, <2>2 DEF TypeOK
  <2> QED BY <1>0, <1>3, <2>3, <2>4 DEF Delete, TypeOK, Completing
<1>4. CASE ChooseEvicted(t, a)
  <2>1. PICK E \in Evictable : chosen' = [chosen EXCEPT ![t] = E] BY <1>4 DEF ChooseEvicted
  <2>2. E \subseteq Tasks BY EvictableSubset DEF TypeOK, Completed
  <2>3. chosen' \in [Tasks -> SUBSET Tasks] BY <2>1, <2>2 DEF TypeOK
  <2> QED BY <1>0, <1>4, <2>3 DEF ChooseEvicted, PassStays, TypeOK, Completing
<1>5. CASE EvictNext(t, a)
  <2>1. chosen' \in [Tasks -> SUBSET Tasks] BY <1>5 DEF EvictNext, TypeOK
  <2>2. tasks' \subseteq Tasks /\ stream' \in [Tasks -> {"none", "open", "ended"}]
    BY <1>5 DEF EvictNext, Evict, TypeOK
  <2> QED BY <1>0, <1>5, <2>1, <2>2 DEF EvictNext, PassStays, TypeOK, Completing
<1>6. CASE Finished(t, a) BY <1>0, <1>6 DEF Finished, PassStays, TypeOK, Completing
<1> QED BY <1>1, <1>2, <1>3, <1>4, <1>5, <1>6 DEF RetentionStep

\* Every step of completion, by worker or timer, keeps the types.
LEMMA OutcomeTypes ==
  ASSUME TypeOK, NEW t \in Tasks, HoldsOutcome(t), OutcomeStep(t)
  PROVE  TypeOK'
<1> PICK a \in OutcomeThread : Complete(t, a) \/ SaveResult(t, a) \/ SaveTerminalRecord(t, a)
                               \/ SaveFails(t, a) \/ RetentionStep(t, a)
  BY DEF OutcomeStep, RetentionStep
<1>0. ASSUME NEW from, NEW to \in Completing \cup {"done"}, OutcomeGoes(t, a, from, to)
      PROVE  worker' \in [Tasks -> WorkerPC] /\ timer' \in [Tasks -> TimerPC]
  BY <1>0 DEF OutcomeGoes, TypeOK, WorkerPC, TimerPC
<1>1. CASE Complete(t, a)
  BY <1>0, <1>1 DEF Complete, PublishTerminal, TypeOK, Completing
<1>2. CASE SaveResult(t, a)
  <2>1. Held(t, a) \in Terminal
    BY <1>2 DEF SaveResult, OutcomeGoes, OutcomeThread, Held, HoldsOutcome, Completing
  <2> QED BY <1>0, <1>2, <2>1 DEF SaveResult, TypeOK, Completing
<1>3. CASE SaveTerminalRecord(t, a)
  <2>1. Held(t, a) \in TaskState BY DEF Held, TypeOK
  <2> QED BY <1>0, <1>3, <2>1 DEF SaveTerminalRecord, SaveRecord, TypeOK, Completing
<1>4. CASE SaveFails(t, a)
  <2>1. looked' \in [Tasks -> SUBSET Tasks] /\ chosen' \in [Tasks -> SUBSET Tasks]
    BY <1>4 DEF SaveFails, TypeOK
  <2> QED BY <1>0, <1>4, <2>1, BoundsAssumption DEF SaveFails, Fault, TypeOK
<1>5. CASE RetentionStep(t, a) BY <1>5, RetentionTypes
<1> QED BY <1>1, <1>2, <1>3, <1>4, <1>5

\* What the cancelling and answering clients do keeps the types.
LEMMA ClientTypes ==
  ASSUME TypeOK, NEW t \in Tasks, ClientStep(t)
  PROVE  TypeOK'
<1> USE BoundsAssumption DEF TypeOK, Fault, SaveRecord, Publish, WorkerPC, AnswerPC, TaskState, Active
<1>1. CASE Cancel(t) BY <1>1 DEF Cancel, CancelInputWait, CancelFuture
<1>2. CASE Answer(t) BY <1>2 DEF Answer, Resolve
<1>3. CASE AnswerSnapshot(t) BY <1>3 DEF AnswerSnapshot
<1>4. CASE AnswerSave(t) BY <1>4 DEF AnswerSave
<1> QED BY <1>1, <1>2, <1>3, <1>4 DEF ClientStep

\* Eviction, crashes and recovery keep the types.
LEMMA ProcessTypes ==
  ASSUME TypeOK, GetTask \/ Crash \/ RecoveryStep
  PROVE  TypeOK'
<1> USE BoundsAssumption DEF TypeOK
<1>1. CASE GetTask
  <2>1. PICK u \in Completed : Evict(u) BY <1>1 DEF GetTask
  <2> QED BY <1>1, <2>1 DEF GetTask, Evict, Completed
<1>2. CASE Crash
  BY <1>2 DEF Crash, TaskState, StarterPC, WorkerPC, TimerPC, AnswerPC
<1>3. CASE Restart BY <1>3 DEF Restart
<1>4. CASE Open BY <1>4 DEF Open
<1>5. ASSUME NEW t \in Tasks, RecoverResult(t) PROVE TypeOK'
  BY <1>5 DEF RecoverResult, Terminal
<1>6. ASSUME NEW t \in Tasks, RecoverRecord(t) PROVE TypeOK'
  BY <1>6 DEF RecoverRecord, SaveRecord, TaskState, Terminal
<1> QED BY <1>1, <1>2, <1>3, <1>4, <1>5, <1>6 DEF RecoveryStep

-----------------------------------------------------------------------------
(* Every step keeps the invariant of every task u.                         *)

\* start(t) keeps what holds of u: its own task goes from Unknown to queued.
LEMMA StartKeeps ==
  ASSUME IInv, NEW t \in Tasks, NEW u \in Tasks, StartStep(t)
  PROVE  TaskInv(u)'
<1>0. TypeOK /\ TaskInv(t) /\ TaskInv(u) BY DEF IInv
<1> USE <1>0 DEF TypeOK, TaskInv, Known, Unknown, Started, Waiting, HoldsOutcome, Settled, Undelivered,
        Explained, OfLiveTask, OfStart, OfRefusal, OfEndedTask, SavingRecord, Asking,
        StarterGoes, SaveRecord, Fault, StarterPC, WorkerPC, ScriptPC, Completing, Active, Terminal, TaskState
<1>1. CASE StartSave(t) BY <1>1 DEF StartSave
<1>2. CASE StartSaveFails(t) BY <1>2, BoundsAssumption DEF StartSaveFails
<1>3. CASE StartPut(t) BY <1>3 DEF StartPut
<1>4. CASE StartSubmit(t) BY <1>4 DEF StartSubmit
<1>5. CASE StartRejected(t) BY <1>5 DEF StartRejected
<1>6. CASE StartSetFuture(t) BY <1>6 DEF StartSetFuture
<1>7. CASE StartSchedule(t) BY <1>7 DEF StartSchedule
<1> QED BY <1>1, <1>2, <1>3, <1>4, <1>5, <1>6, <1>7 DEF StartStep

\* The pool thread of t keeps what holds of u, its own task included.
LEMMA WorkerKeeps ==
  ASSUME IInv, NEW t \in Tasks, NEW u \in Tasks, WorkerStep(t)
  PROVE  TaskInv(u)'
<1>0. TypeOK /\ TaskInv(t) /\ TaskInv(u) BY DEF IInv
<1> USE <1>0 DEF TypeOK, TaskInv, Known, Unknown, Started, Waiting, HoldsOutcome, Settled, Undelivered,
        Explained, OfLiveTask, OfStart, OfRefusal, OfEndedTask, SavingRecord, Asking,
        WorkerGoes, SaveRecord, Publish, Publishable, StarterPC, WorkerPC, ScriptPC, Completing,
        Active, Terminal, TaskState
<1>1. CASE WorkerTake(t) BY <1>1 DEF WorkerTake
<1>2. CASE MarkRunning(t) BY <1>2 DEF MarkRunning
<1>3. CASE WorkerSnapshot(t) BY <1>3 DEF WorkerSnapshot, AfterSnapshot
<1>4. CASE WorkerSave(t) BY <1>4 DEF WorkerSave, AfterSave
<1>5. CASE WorkerSaveFails(t) BY <1>5, BoundsAssumption DEF WorkerSaveFails, Fault
<1>6. CASE PublishStarted(t) BY <1>6 DEF PublishStarted
<1>7. CASE WorkerPublish(t) BY <1>7 DEF WorkerPublish, AfterPublish
<1>8. CASE EnterAwait(t) BY <1>8 DEF EnterAwait
<1>9. CASE AwaitReturns(t) BY <1>9 DEF AwaitReturns
<1>10. CASE AwaitDeadline(t) BY <1>10 DEF AwaitDeadline, Resolve
<1>11. CASE CheckResume(t) BY <1>11 DEF CheckResume
<1> QED BY <1>1, <1>2, <1>3, <1>4, <1>5, <1>6, <1>7, <1>8, <1>9, <1>10, <1>11 DEF WorkerStep

\* The script of t keeps it, also when it ends and decides the outcome.
LEMMA ScriptKeeps ==
  ASSUME IInv, NEW t \in Tasks, NEW u \in Tasks, ScriptStep(t)
  PROVE  TaskInv(u)'
<1>0. TypeOK /\ TaskInv(t) /\ TaskInv(u) BY DEF IInv
<1> USE <1>0 DEF TypeOK, TaskInv, Known, Unknown, Started, Waiting, HoldsOutcome, Settled, Undelivered,
        Explained, OfLiveTask, OfStart, OfRefusal, OfEndedTask, SavingRecord, Asking,
        WorkerGoes, StarterPC, WorkerPC, ScriptPC, TimerPC,
        AnswerPC, Completing, Active, Terminal, TaskState
<1>1. CASE Emit(t) BY <1>1 DEF Emit
<1>2. CASE RequestInput(t) BY <1>2, BoundsAssumption DEF RequestInput
<1>3. ASSUME NEW succeeded \in BOOLEAN, Finish(t, succeeded)
      PROVE  TaskInv(u)'
  <2>1. CASE state[t] \in Terminal BY <1>3, <2>1 DEF Finish
  <2>2. CASE state[t] \notin Terminal
    <3>1. CASE u # t BY <1>3, <2>2, <3>1 DEF Finish, Decide, CancelInputWait
    <3>2. CASE u = t
      <4>1. FinalState(t, succeeded) \in {"CANCELLED", "COMPLETED", "FAILED"} BY DEF FinalState
      <4>2. PICK outcome : outcome = FinalState(t, succeeded) OBVIOUS
      <4>3. /\ phase = "up" /\ worker[t] = "script" /\ worker' = [worker EXCEPT ![t] = "complete"]
            /\ state' = [state EXCEPT ![t] = outcome]
            /\ workerHolds' = [workerHolds EXCEPT ![t] = outcome]
            /\ openInput' = [openInput EXCEPT ![t] = 0] /\ UNCHANGED inputs
            /\ UNCHANGED <<disk, phase, tasks, cancelRequested, futureSet, assembled, stream, starter, timer, answer,
                           timerHolds, recovering, boundVars>>
        BY <1>3, <2>2, <4>2 DEF Finish, Decide, CancelInputWait
      <4>4. Known(t)' /\ Started(t)' /\ Waiting(t)' BY <2>2, <4>1, <4>2, <4>3
      <4>5. HoldsOutcome(t)' /\ Settled(t)' BY <2>2, <4>1, <4>2, <4>3
      <4>6. Explained(t)' BY <2>2, <4>1, <4>2, <4>3
      <4> QED BY <3>2, <4>4, <4>5, <4>6
    <3> QED BY <3>1, <3>2
  <2> QED BY <2>1, <2>2
<1> QED BY <1>1, <1>2, <1>3 DEF ScriptStep

\* The timeout of t keeps it: it decides only where the worker has not.
LEMMA TimerKeeps ==
  ASSUME IInv, NEW t \in Tasks, NEW u \in Tasks, TimerFires(t)
  PROVE  TaskInv(u)'
<1>0. TypeOK /\ TaskInv(t) /\ TaskInv(u) BY DEF IInv
<1> USE <1>0 DEF TypeOK, TaskInv, Known, Unknown, Started, Waiting, HoldsOutcome, Settled, Undelivered,
        Explained, OfLiveTask, OfStart, OfRefusal, OfEndedTask, SavingRecord, Asking,
        TimerFires, StarterPC, WorkerPC, ScriptPC, TimerPC,
        AnswerPC, Completing, Active, Terminal, TaskState
<1>1. CASE state[t] \in Terminal BY <1>1
<1>2. CASE state[t] \notin Terminal BY <1>2 DEF Decide, CancelInputWait, CancelFuture
<1> QED BY <1>1, <1>2

\* Cancelling t and answering its request keep it.
LEMMA ClientKeeps ==
  ASSUME IInv, NEW t \in Tasks, NEW u \in Tasks, ClientStep(t)
  PROVE  TaskInv(u)'
<1>0. TypeOK /\ TaskInv(t) /\ TaskInv(u) BY DEF IInv
<1> USE <1>0 DEF TypeOK, TaskInv, Known, Unknown, Started, Waiting, HoldsOutcome, Settled, Undelivered,
        Explained, OfLiveTask, OfStart, OfRefusal, OfEndedTask, SavingRecord, Asking,
        SaveRecord, Publish, StarterPC, WorkerPC, ScriptPC, TimerPC,
        AnswerPC, Completing, Active, Terminal, TaskState
<1>1. CASE Cancel(t) BY <1>1, BoundsAssumption DEF Cancel, CancelInputWait, CancelFuture, Fault
<1>2. CASE Answer(t) BY <1>2 DEF Answer, Resolve
<1>3. CASE AnswerSnapshot(t) BY <1>3 DEF AnswerSnapshot
<1>4. CASE AnswerSave(t) BY <1>4, BoundsAssumption DEF AnswerSave, Fault
<1> QED BY <1>1, <1>2, <1>3, <1>4 DEF ClientStep

\* Completing t keeps it: the result is stored by the thread that holds it.
LEMMA OutcomeKeeps ==
  ASSUME IInv, NEW t \in Tasks, NEW u \in Tasks, OutcomeStep(t)
  PROVE  TaskInv(u)'
<1> PICK a \in OutcomeThread : Complete(t, a) \/ SaveResult(t, a) \/ SaveTerminalRecord(t, a)
                               \/ SaveFails(t, a) \/ RetentionStep(t, a)
  BY DEF OutcomeStep, RetentionStep
<1>0. TypeOK /\ TaskInv(t) /\ TaskInv(u) BY DEF IInv
<1> USE <1>0 DEF TypeOK, TaskInv, Known, Unknown, Started, Waiting, HoldsOutcome, Settled, Undelivered,
        Explained, OfLiveTask, OfStart, OfRefusal, OfEndedTask, SavingRecord, Asking,
        OutcomeGoes, OutcomeThread, SaveRecord, Held, StarterPC, WorkerPC, ScriptPC, TimerPC,
        AnswerPC, Completing, Active, Terminal, TaskState
<1>1. CASE Complete(t, a) BY <1>1 DEF Complete, PublishTerminal, Publishable
<1>2. CASE SaveResult(t, a) BY <1>2 DEF SaveResult
<1>3. CASE SaveTerminalRecord(t, a) BY <1>3 DEF SaveTerminalRecord
<1>4. CASE SaveFails(t, a) BY <1>4, BoundsAssumption DEF SaveFails, Fault
<1>5. CASE ListNext(t, a) BY <1>5 DEF ListNext, PassStays
<1>6. CASE Choose(t, a) BY <1>6 DEF Choose, PassStays
<1>7. CASE Delete(t, a) BY <1>7 DEF Delete
<1>8. CASE ChooseEvicted(t, a) BY <1>8 DEF ChooseEvicted, PassStays
<1>9. CASE EvictNext(t, a) BY <1>9 DEF EvictNext, PassStays, Evict, Completed
<1>10. CASE Finished(t, a) BY <1>10 DEF Finished, PassStays
<1> QED BY <1>1, <1>2, <1>3, <1>4, <1>5, <1>6, <1>7, <1>8, <1>9, <1>10 DEF RetentionStep

\* Eviction, crashes and recovery keep it.
LEMMA ProcessKeeps ==
  ASSUME IInv, NEW u \in Tasks, GetTask \/ Crash \/ RecoveryStep
  PROVE  TaskInv(u)'
<1>0. TypeOK /\ TaskInv(u) BY DEF IInv
<1> USE <1>0 DEF TypeOK, TaskInv, Known, Unknown, Started, Waiting, HoldsOutcome, Settled, Undelivered,
        Explained, OfLiveTask, OfStart, OfRefusal, OfEndedTask, SavingRecord, Asking,
        StarterPC, Completing, Active, Terminal, TaskState
<1>1. CASE GetTask
  <2>1. PICK t \in Completed : Evict(t) BY <1>1 DEF GetTask
  <2> QED BY <1>1, <2>1 DEF GetTask, Evict, Completed
<1>2. CASE Crash BY <1>2 DEF Crash
<1>3. CASE Restart BY <1>3 DEF Restart
<1>4. CASE Open BY <1>4 DEF Open
<1>5. ASSUME NEW t \in Tasks, RecoverResult(t) PROVE TaskInv(u)'
  BY <1>5 DEF RecoverResult
<1>6. ASSUME NEW t \in Tasks, RecoverRecord(t) PROVE TaskInv(u)'
  BY <1>6 DEF RecoverRecord, SaveRecord
<1> QED BY <1>1, <1>2, <1>3, <1>4, <1>5, <1>6 DEF RecoveryStep

-----------------------------------------------------------------------------
(* The theorems.                                                           *)

\* The first start of the process satisfies the invariant.
LEMMA InitKeeps == Init => IInv
BY BoundsAssumption DEF Init, IInv, TypeOK, TaskInv, Known, Unknown, Started, Waiting, HoldsOutcome, Settled,
   Undelivered, Explained, Asking, StarterPC, WorkerPC, ScriptPC, TimerPC, AnswerPC, Completing,
   Active, Terminal, TaskState

\* So does a step that changes nothing,
LEMMA StutterKeeps == IInv /\ UNCHANGED vars => IInv'
BY DEF vars, IInv, TypeOK, TaskInv, Known, Unknown, Started, Waiting, HoldsOutcome, Settled, Explained, OfLiveTask,
   OfStart, OfRefusal, OfEndedTask, SavingRecord

\* and every step of the system keeps it.
LEMMA NextKeeps == IInv /\ Next => IInv'
<1> SUFFICES ASSUME IInv, Next PROVE IInv'
  OBVIOUS
<1>0. TypeOK BY DEF IInv
<1>1. CASE GetTask \/ Crash \/ RecoveryStep
  BY <1>0, <1>1, ProcessTypes, ProcessKeeps DEF IInv
<1>2. ASSUME NEW t \in Tasks,
             StartStep(t) \/ ScriptStep(t) \/ WorkerStep(t) \/ TimerFires(t) \/ OutcomeStep(t) \/ ClientStep(t)
      PROVE  IInv'
  <2>0. HoldsOutcome(t) BY DEF IInv, TaskInv
  <2>1. CASE StartStep(t) BY <1>0, <2>1, StartTypes, StartKeeps DEF IInv
  <2>2. CASE ScriptStep(t) BY <1>0, <2>2, ScriptTypes, ScriptKeeps DEF IInv
  <2>3. CASE WorkerStep(t) BY <1>0, <2>3, WorkerTypes, WorkerKeeps DEF IInv
  <2>4. CASE TimerFires(t) BY <1>0, <2>4, TimerTypes, TimerKeeps DEF IInv
  <2>5. CASE OutcomeStep(t) BY <1>0, <2>0, <2>5, OutcomeTypes, OutcomeKeeps DEF IInv
  <2>6. CASE ClientStep(t) BY <1>0, <2>6, ClientTypes, ClientKeeps DEF IInv
  <2> QED BY <1>2, <2>1, <2>2, <2>3, <2>4, <2>5, <2>6
<1> QED BY <1>1, <1>2 DEF Next

\* IInv holds in every state of every execution.
THEOREM Inductive == SafetySpec => []IInv
<1>1. Init => IInv BY InitKeeps
<1>2. IInv /\ [Next]_vars => IInv' BY NextKeeps, StutterKeeps
<1> QED BY <1>1, <1>2, PTL DEF SafetySpec

\* Every variable keeps its type; in particular only a final status is ever
\* stored in result.json.
THEOREM TypeCorrect == SafetySpec => []TypeOK
<1>1. IInv => TypeOK BY DEF IInv
<1> QED BY <1>1, Inductive, PTL

\* "Terminal transitions return immutable data for a lifecycle collaborator to
\* process exactly once" (RunningScriptTask): worker and timer never both
\* complete one task.
THEOREM CompletedOnce == SafetySpec => []OneCompletion
<1>1. IInv => OneCompletion BY DEF IInv, TaskInv, Settled, OneCompletion
<1> QED BY <1>1, Inductive, PTL

\* The stored result of a live task is the outcome the task ended with.
THEOREM ResultMatches == SafetySpec => []ResultIsOutcome
<1>1. IInv => ResultIsOutcome BY DEF IInv, TaskInv, Settled, ResultIsOutcome
<1> QED BY <1>1, Inductive, PTL

\* A terminal task no thread works on has its result on disk, unless retention
\* took it or the disk failed: no interleaving of completion loses it.
THEOREM OutcomeStored == SafetySpec => []SettledOutcome
<1>1. IInv => SettledOutcome
  BY DEF IInv, TaskInv, Settled, SettledOutcome, Completing, Undelivered
<1> QED BY <1>1, Inductive, PTL

\* README: "A task becomes CANCELLED only after execution exits".
THEOREM CancelledLast == SafetySpec => []CancelledAfterExit
<1>1. IInv => CancelledAfterExit BY DEF IInv, TaskInv, Settled, CancelledAfterExit
<1> QED BY <1>1, Inductive, PTL

\* ScriptTaskSnapshot's constructor accepts every snapshot the monitor takes.
THEOREM SnapshotsValid == SafetySpec => []SnapshotValid
<1>1. IInv => SnapshotValid BY DEF IInv, TaskInv, Waiting, SnapshotValid
<1> QED BY <1>1, Inductive, PTL

\* A worker blocked in awaitInput() can be answered or has been released.
THEOREM WaiterNeverForgotten == SafetySpec => []WaiterReleased
<1>1. IInv => WaiterReleased BY DEF IInv, TaskInv, Waiting, WaiterReleased
<1> QED BY <1>1, Inductive, PTL

\* A task ends once, as CANCELLED only when its execution has exited.
THEOREM EndedOnce == SafetySpec => []EndsOnce
<1>1. OneCompletion /\ CancelledAfterExit => EndsOnce BY DEF EndsOnce
<1> QED BY <1>1, CompletedOnce, CancelledLast, PTL

\* The outcome a task ended with is what its directory keeps.
THEOREM OutcomesKept == SafetySpec => []OutcomeIsKept
<1>1. ResultIsOutcome /\ SettledOutcome => OutcomeIsKept BY DEF OutcomeIsKept
<1> QED BY <1>1, ResultMatches, OutcomeStored, PTL

\* Operator input never gets stuck.
THEOREM InputsSound == SafetySpec => []InputIsSound
<1>1. SnapshotValid /\ WaiterReleased => InputIsSound BY DEF InputIsSound
<1> QED BY <1>1, SnapshotsValid, WaiterNeverForgotten, PTL

\* A serving process has no active record it cannot account for: of a task it
\* runs, of a submission in progress or refused, or saved late or not at all.
THEOREM RecordsExplained == SafetySpec => []ActiveRecordIsExplained
<1>1. IInv => ActiveRecordIsExplained BY DEF IInv, TaskInv, Explained, ActiveRecordIsExplained
<1> QED BY <1>1, Inductive, PTL

-----------------------------------------------------------------------------
(* ScriptTasks implements TaskContract: each step is a move of one task, a *)
(* stored outcome, an interruption, a deletion, the end of the process or  *)
(* a stutter.                                                              *)

Same == UNCHANGED <<state, result>>

\* A change of one task's state along Moves is a move of the contract.
LEMMA MoveIs ==
  ASSUME NEW t \in Tasks, NEW from, NEW to, <<from, to>> \in Contract!Moves,
         state[t] = from, state' = [state EXCEPT ![t] = to], UNCHANGED result
  PROVE  Contract!Move(t)
BY DEF Contract!Move

\* start() moves its task to QUEUED when it creates it, and nothing else.
LEMMA StartImplements ==
  ASSUME IInv, NEW t \in Tasks, StartStep(t)
  PROVE  Contract!Move(t) \/ Same
<1>1. CASE StartSave(t)
  <2>1. state[t] = "ABSENT" BY <1>1 DEF IInv, TaskInv, Known, StartSave, StarterGoes
  <2>2. <<"ABSENT", "QUEUED">> \in Contract!Moves BY DEF Contract!Moves
  <2> QED BY <1>1, <2>1, <2>2, MoveIs DEF StartSave
<1>2. CASE StartSaveFails(t) BY <1>2 DEF StartSaveFails, Same
<1>3. CASE StartPut(t) BY <1>3 DEF StartPut, Same
<1>4. CASE StartSubmit(t) BY <1>4 DEF StartSubmit, Same
<1>5. CASE StartRejected(t) BY <1>5 DEF StartRejected, Same
<1>6. CASE StartSetFuture(t) BY <1>6 DEF StartSetFuture, Same
<1>7. CASE StartSchedule(t) BY <1>7 DEF StartSchedule, Same
<1> QED BY <1>1, <1>2, <1>3, <1>4, <1>5, <1>6, <1>7 DEF StartStep

\* An accepted answer moves its task from PENDING_INPUT to RUNNING.
LEMMA ResolveImplements ==
  ASSUME NEW t \in Tasks, Resolve(t), UNCHANGED result
  PROVE  Contract!Move(t)
<1>1. <<"PENDING_INPUT", "RUNNING">> \in Contract!Moves BY DEF Contract!Moves
<1> QED BY <1>1, MoveIs DEF Resolve

\* The pool thread moves its task to RUNNING and to and from PENDING_INPUT.
LEMMA WorkerImplements ==
  ASSUME IInv, NEW t \in Tasks, WorkerStep(t)
  PROVE  Contract!Move(t) \/ Same
<1>1. CASE WorkerTake(t) BY <1>1 DEF WorkerTake, Same
<1>2. CASE MarkRunning(t)
  <2>1. <<"QUEUED", "RUNNING">> \in Contract!Moves BY DEF Contract!Moves
  <2>2. CASE state[t] = "QUEUED" BY <1>2, <2>1, <2>2, MoveIs DEF MarkRunning
  <2>3. CASE state[t] # "QUEUED" BY <1>2, <2>3 DEF MarkRunning, Same
  <2> QED BY <2>2, <2>3
<1>3. CASE WorkerSnapshot(t) BY <1>3 DEF WorkerSnapshot, Same
<1>4. CASE WorkerSave(t) BY <1>4 DEF WorkerSave, Same
<1>5. CASE WorkerSaveFails(t) BY <1>5 DEF WorkerSaveFails, Same
<1>6. CASE PublishStarted(t) BY <1>6 DEF PublishStarted, Same
<1>7. CASE WorkerPublish(t) BY <1>7 DEF WorkerPublish, Same
<1>8. CASE EnterAwait(t) BY <1>8 DEF EnterAwait, Same
<1>9. CASE AwaitReturns(t) BY <1>9 DEF AwaitReturns, Same
<1>10. CASE AwaitDeadline(t) BY <1>10, ResolveImplements DEF AwaitDeadline
<1>11. CASE CheckResume(t) BY <1>11 DEF CheckResume, Same
<1> QED BY <1>1, <1>2, <1>3, <1>4, <1>5, <1>6, <1>7, <1>8, <1>9, <1>10, <1>11 DEF WorkerStep

\* The script's end is the contract's end of the task.
LEMMA ScriptImplements ==
  ASSUME IInv, NEW t \in Tasks, ScriptStep(t)
  PROVE  Contract!Move(t) \/ Same
<1>1. CASE Emit(t) BY <1>1 DEF Emit, Same
<1>2. CASE RequestInput(t)
  <2>1. <<"RUNNING", "PENDING_INPUT">> \in Contract!Moves BY DEF Contract!Moves
  <2> QED BY <1>2, <2>1, MoveIs DEF RequestInput
<1>3. ASSUME NEW succeeded \in BOOLEAN, Finish(t, succeeded)
      PROVE  Contract!Move(t) \/ Same
  <2>1. CASE state[t] \in Terminal BY <1>3, <2>1 DEF Finish, Same
  <2>2. CASE state[t] \notin Terminal
    <3>1. worker[t] = "script" /\ UNCHANGED result /\ state' = [state EXCEPT ![t] = FinalState(t, succeeded)]
      BY <1>3, <2>2 DEF Finish, WorkerGoes, Decide
    <3>2. /\ state[t] \in {"RUNNING", "PENDING_INPUT", "CANCELLING"}
          /\ t \in cancelRequested <=> state[t] = "CANCELLING"
      BY <3>1, <2>2 DEF IInv, TypeOK, TaskInv, Known, Unknown, Started, TaskState, Active, Terminal
    <3>3. <<state[t], FinalState(t, succeeded)>> \in Contract!Moves
      BY <3>2 DEF FinalState, Contract!Moves
    <3> QED BY <3>1, <3>3, MoveIs
  <2> QED BY <2>1, <2>2
<1> QED BY <1>1, <1>2, <1>3 DEF ScriptStep

\* The timeout moves a task no one has ended.
LEMMA TimerImplements ==
  ASSUME IInv, NEW t \in Tasks, TimerFires(t)
  PROVE  Contract!Move(t) \/ Same
<1>1. CASE state[t] \in Terminal BY <1>1 DEF TimerFires, Same
<1>2. CASE state[t] \notin Terminal
  <2>1. timer[t] = "armed" /\ UNCHANGED result /\ state' = [state EXCEPT ![t] = "TIMED_OUT"]
    BY <1>2 DEF TimerFires, Decide
  <2>2. state[t] \in Active
    BY <2>1, <1>2 DEF IInv, TypeOK, TaskInv, Known, Unknown, TaskState
  <2>3. <<state[t], "TIMED_OUT">> \in Contract!Moves BY <2>2 DEF Active, Contract!Moves
  <2> QED BY <2>1, <2>3, MoveIs
<1> QED BY <1>1, <1>2

\* A cancellation moves its task to CANCELLING, a second one nothing.
LEMMA ClientImplements ==
  ASSUME IInv, NEW t \in Tasks, ClientStep(t)
  PROVE  Contract!Move(t) \/ Same
<1>1. CASE Cancel(t)
  <2>1. t \in tasks /\ state[t] \notin Terminal \cup {"CANCELLING"} /\ UNCHANGED result
        /\ state' = [state EXCEPT ![t] = "CANCELLING"]
    BY <1>1 DEF Cancel
  <2>2. state[t] \in {"QUEUED", "RUNNING", "PENDING_INPUT"}
    BY <2>1 DEF IInv, TypeOK, TaskInv, Known, Unknown, TaskState, Active
  <2>3. <<state[t], "CANCELLING">> \in Contract!Moves BY <2>2 DEF Contract!Moves
  <2> QED BY <2>1, <2>3, MoveIs
<1>2. CASE Answer(t) BY <1>2, ResolveImplements DEF Answer
<1>3. CASE AnswerSnapshot(t) BY <1>3 DEF AnswerSnapshot, Same
<1>4. CASE AnswerSave(t) BY <1>4 DEF AnswerSave, Same
<1> QED BY <1>1, <1>2, <1>3, <1>4 DEF ClientStep

\* Completion stores the outcome decided, once, and retention deletes.
LEMMA OutcomeImplements ==
  ASSUME IInv, NEW t \in Tasks, OutcomeStep(t)
  PROVE  Contract!Store(t) \/ Contract!Retire \/ Same
<1> PICK a \in OutcomeThread : Complete(t, a) \/ SaveResult(t, a) \/ SaveTerminalRecord(t, a)
                               \/ SaveFails(t, a) \/ RetentionStep(t, a)
  BY DEF OutcomeStep, RetentionStep
<1>1. CASE Complete(t, a) BY <1>1 DEF Complete, Same
<1>2. CASE SaveResult(t, a)
  <2>1. (worker[t] = "saveResult" /\ Held(t, a) = workerHolds[t])
        \/ (timer[t] = "saveResult" /\ Held(t, a) = timerHolds[t])
    BY <1>2 DEF SaveResult, OutcomeGoes, OutcomeThread, Held
  <2>2. state[t] \in Terminal /\ Held(t, a) = state[t] /\ result[t] = "ABSENT" /\ state[t] # "INTERRUPTED"
    BY <2>1 DEF IInv, TaskInv, Known, HoldsOutcome, Settled, Completing, Undelivered
  <2> QED BY <1>2, <2>2 DEF SaveResult, Contract!Store, Contract!Ended, Terminal
<1>3. CASE SaveTerminalRecord(t, a) BY <1>3 DEF SaveTerminalRecord, Same
<1>4. CASE SaveFails(t, a) BY <1>4 DEF SaveFails, Same
<1>5. CASE Delete(t, a)
  <2>1. PICK u \in chosen[t] : result' = [result EXCEPT ![u] = "ABSENT"] BY <1>5 DEF Delete
  <2>2. PICK D : D = {u} \cap {v \in Tasks : result[v] # "ABSENT"} OBVIOUS
  <2>3. result \in [Tasks -> Terminal \cup {"ABSENT"}] BY DEF IInv, TypeOK
  <2>4. result' = [v \in Tasks |-> IF v \in D THEN "ABSENT" ELSE result[v]] BY <2>1, <2>2, <2>3
  <2>5. D \in SUBSET {v \in Tasks : result[v] # "ABSENT"} BY <2>2
  <2> QED BY <1>5, <2>4, <2>5 DEF Delete, Contract!Retire
<1>6. CASE RetentionStep(t, a) /\ ~Delete(t, a)
  BY <1>6 DEF RetentionStep, ListNext, Choose, ChooseEvicted, EvictNext, Finished, PassStays, Same
<1> QED BY <1>1, <1>2, <1>3, <1>4, <1>5, <1>6

\* Eviction forgets, a crash ends the process, recovery interrupts.
LEMMA ProcessImplements ==
  ASSUME IInv, GetTask \/ Crash \/ RecoveryStep
  PROVE  Contract!Die \/ (\E t \in Tasks : Contract!Interrupt(t)) \/ Same
<1>1. CASE GetTask BY <1>1 DEF GetTask, Same
<1>2. CASE Crash BY <1>2 DEF Crash, Contract!Die
<1>3. CASE Restart BY <1>3 DEF Restart, Same
<1>4. CASE Open BY <1>4 DEF Open, Same
<1>5. ASSUME NEW t \in Tasks, RecoverResult(t) PROVE Contract!Interrupt(t)
  BY <1>5 DEF RecoverResult, Contract!Interrupt, IInv, TaskInv, Known
<1>6. ASSUME NEW t \in Tasks, RecoverRecord(t) PROVE Same
  BY <1>6 DEF RecoverRecord, Same
<1> QED BY <1>1, <1>2, <1>3, <1>4, <1>5, <1>6 DEF RecoveryStep

\* Whatever its threads, crashes and restarts do, the runner keeps what
\* TaskContract promises about every task.
THEOREM ContractKept == SafetySpec => RunnerKeepsContract
<1>1. Init => Contract!Init BY DEF Init, Contract!Init
<1>2. IInv /\ [Next]_vars => [Contract!Next]_(Contract!contractVars)
  <2> SUFFICES ASSUME IInv, [Next]_vars PROVE Contract!Next \/ Same
    BY DEF Same, Contract!contractVars
  <2>1. CASE UNCHANGED vars BY <2>1 DEF vars, Same
  <2>2. CASE GetTask \/ Crash \/ RecoveryStep BY <2>2, ProcessImplements DEF Contract!Next
  <2>3. ASSUME NEW t \in Tasks,
               StartStep(t) \/ ScriptStep(t) \/ WorkerStep(t) \/ TimerFires(t) \/ OutcomeStep(t) \/ ClientStep(t)
        PROVE  Contract!Next \/ Same
    BY <2>3, StartImplements, ScriptImplements, WorkerImplements, TimerImplements, OutcomeImplements,
       ClientImplements DEF Contract!Next
  <2> QED BY <2>1, <2>2, <2>3 DEF Next
<1> QED BY <1>1, <1>2, Inductive, PTL DEF SafetySpec, RunnerKeepsContract, Contract!Spec

\* While the process runs a terminal state is final: a completed task is not
\* timed out, a timed-out one not completed, whichever thread comes late.
THEOREM TerminalKept == SafetySpec => TerminalIsFinal
<1>1. IInv /\ [Next]_vars
      => [\A t \in Tasks : state[t] \in Terminal => state'[t] \in {state[t], "ABSENT"}]_vars
  <2> SUFFICES ASSUME IInv, Next, NEW u \in Tasks, state[u] \in Terminal
               PROVE  state'[u] \in {state[u], "ABSENT"}
    OBVIOUS
  <2>0. state \in [Tasks -> TaskState] BY DEF IInv, TypeOK
  <2>1. ASSUME NEW t \in Tasks, Contract!Move(t) PROVE state'[u] \in {state[u], "ABSENT"}
    <3>1. \A m \in Contract!Moves : m[1] \notin Terminal BY DEF Contract!Moves, Terminal
    <3> QED BY <2>0, <2>1, <3>1 DEF Contract!Move
  <2>2. CASE GetTask \/ Crash \/ RecoveryStep
    BY <2>2, ProcessImplements DEF Contract!Die, Contract!Interrupt, Same
  <2>3. ASSUME NEW t \in Tasks,
               StartStep(t) \/ ScriptStep(t) \/ WorkerStep(t) \/ TimerFires(t) \/ OutcomeStep(t) \/ ClientStep(t)
        PROVE  state'[u] \in {state[u], "ABSENT"}
    BY <2>1, <2>3, StartImplements, ScriptImplements, WorkerImplements, TimerImplements, OutcomeImplements,
       ClientImplements DEF Contract!Store, Contract!Retire, Same
  <2> QED BY <2>2, <2>3 DEF Next
<1> QED BY <1>1, Inductive, PTL DEF SafetySpec, TerminalIsFinal

-----------------------------------------------------------------------------
(* Retention beside other completions: what a thread is about to delete has *)
(* enough newer results stored, also after the deletes of other threads.    *)

Newer(u) == {v \in Stored : endedAt[v] > endedAt[u]}
Replaceable(u) == Cardinality(Newer(u)) >= MaxResults

\* A task whose time no longer changes.
Past(u) == endedAt[u] # 0 /\ starter[u] # "new" /\ state[u] \notin Active

\* What holds of the pass of the thread that completes t.
At(t, pc) == pc \in {worker[t], timer[t]}
Pass(t) ==
  /\ ~At(t, "list") => looked[t] = {}
  /\ ~At(t, "list") /\ ~At(t, "delete") /\ ~At(t, "evict") => chosen[t] = {}
  /\ At(t, "list") \/ At(t, "delete") => \A u \in chosen[t] : Past(u)
  /\ At(t, "list") => \A u \in chosen[t] : u \in Stored \/ Replaceable(u)
  /\ At(t, "delete") => \A u \in chosen[t] : Replaceable(u)

\* No two tasks end at one time.
Dated(u) ==
  /\ endedAt[u] < clock
  /\ result[u] # "ABSENT" \/ state[u] \in Terminal => endedAt[u] # 0
  /\ \A v \in Tasks : endedAt[u] = endedAt[v] /\ endedAt[u] # 0 => u = v

RInv == \A t \in Tasks : Pass(t) /\ Dated(t)

\* The sets of newer results are finite, so a larger one has more members.
LEMMA MoreNewer ==
  ASSUME NEW A \in SUBSET Tasks, NEW B \in SUBSET A, Cardinality(B) >= MaxResults
  PROVE  Cardinality(A) >= MaxResults
<1>1. IsFiniteSet(A) BY TasksAssumption, FS_Subset
<1>2. Cardinality(B) <= Cardinality(A) /\ Cardinality(A) \in Nat /\ Cardinality(B) \in Nat
  BY <1>1, FS_Subset, FS_CardinalityType
<1> QED BY <1>2, LimitsAssumption

\* A stored result is of a task whose time no longer changes.
LEMMA StoredIsPast ==
  ASSUME IInv, RInv, NEW u \in Stored
  PROVE  u \in Tasks /\ Past(u)
<1>1. u \in Tasks /\ result[u] \in Terminal BY DEF Stored, IInv, TypeOK
<1>2. starter[u] # "new" /\ state[u] \notin Active
  BY <1>1 DEF IInv, TaskInv, Known, Settled, Active, Terminal
<1> QED BY <1>1, <1>2 DEF RInv, Dated, Past, Terminal

\* What a step that deletes nothing leaves of a pass that it does not advance.
LEMMA PassStaysTrue ==
  ASSUME IInv, RInv, NEW x \in Tasks,
         looked'[x] = looked[x], chosen'[x] = chosen[x], chosen[x] \in SUBSET Tasks,
         \A pc \in {"list", "delete", "evict"} : At(x, pc)' <=> At(x, pc),
         \A u \in Tasks : Past(u) => Past(u)',
         \A u \in Tasks : Past(u) /\ Replaceable(u) => Replaceable(u)',
         \A u \in Stored : u \in Stored' \/ Replaceable(u)'
  PROVE  Pass(x)'
<1>1. Pass(x) BY DEF RInv
<1>2. At(x, "list") => \A u \in chosen[x] : (u \in Stored \/ Replaceable(u))'
  BY <1>1 DEF Pass
<1> QED BY <1>1, <1>2 DEF Pass

\* Results that stay stored and times that stay leave every task replaceable.
LEMMA ReplaceableStays ==
  ASSUME IInv, RInv, Stored \subseteq Stored',
         \A u \in Tasks : Past(u) => endedAt'[u] = endedAt[u],
         NEW u \in Tasks, Past(u), Replaceable(u)
  PROVE  Replaceable(u)'
<1>1. Newer(u) \in SUBSET Newer(u)'
  BY StoredIsPast DEF Newer
<1>2. Newer(u)' \in SUBSET Tasks BY DEF Newer, Stored
<1> QED BY <1>1, <1>2, MoreNewer DEF Replaceable

\* A delete of a replaceable d leaves every replaceable task replaceable: when
\* d is newer than u, the results newer than d are still stored.
LEMMA DeleteLeavesReplaceable ==
  ASSUME IInv, NEW d \in Tasks, Replaceable(d), NEW u \in Tasks, Replaceable(u),
         result' = [result EXCEPT ![d] = "ABSENT"], UNCHANGED endedAt
  PROVE  Replaceable(u)'
<1>0. endedAt \in [Tasks -> Nat] /\ Stored' = Stored \ {d} BY DEF IInv, TypeOK, Stored
<1>1. Newer(u)' \in SUBSET Tasks BY DEF Newer, Stored
<1>2. CASE endedAt[d] > endedAt[u]
  <2>1. Newer(d) \in SUBSET Newer(u)' BY <1>0, <1>2 DEF Newer, Stored
  <2> QED BY <1>1, <2>1, MoreNewer DEF Replaceable
<1>3. CASE ~(endedAt[d] > endedAt[u])
  <2>1. Newer(u) \in SUBSET Newer(u)' BY <1>0, <1>3 DEF Newer, Stored
  <2> QED BY <1>1, <2>1, MoreNewer DEF Replaceable
<1> QED BY <1>2, <1>3

\* What a thread chooses to delete of what it listed is replaceable, though
\* some of it may be gone: what is newer than one that is gone is newer than it.
LEMMA ChosenIsReplaceable ==
  ASSUME IInv, RInv, NEW L \in SUBSET Tasks, NEW D \in ToDelete(L), NEW u \in D,
         \A k \in L : Past(k), \A k \in L : k \in Stored \/ Replaceable(k)
  PROVE  Replaceable(u)
<1>0. endedAt \in [Tasks -> Nat] BY DEF IInv, TypeOK
<1>1. PICK O \in Oldest(L, MaxResults) : D \subseteq O BY DEF ToDelete
<1>2. u \in O /\ O \in SUBSET L BY <1>1 DEF Oldest
<1>3. Cardinality(L \ O) = MaxResults /\ \A k \in L \ O : endedAt[u] <= endedAt[k]
  BY <1>1, <1>2 DEF Oldest
<1>4. \A k \in L \ O : endedAt[k] > endedAt[u]
  <2> SUFFICES ASSUME NEW k \in L \ O PROVE endedAt[k] > endedAt[u] OBVIOUS
  <2>1. k # u /\ k \in Tasks /\ u \in Tasks /\ endedAt[u] # 0 BY <1>2 DEF Past
  <2>2. endedAt[u] # endedAt[k] BY <2>1 DEF RInv, Dated
  <2> QED BY <1>0, <1>3, <2>1, <2>2
<1>5. Newer(u) \in SUBSET Tasks BY DEF Newer, Stored
<1>6. CASE L \ O \subseteq Stored
  <2>1. L \ O \in SUBSET Newer(u) BY <1>4, <1>6 DEF Newer
  <2>2. Cardinality(L \ O) >= MaxResults BY <1>3, LimitsAssumption
  <2> QED BY <1>5, <2>1, <2>2, MoreNewer DEF Replaceable
<1>7. CASE ~(L \ O \subseteq Stored)
  <2>1. PICK k \in L \ O : k \notin Stored BY <1>7
  <2>2. Replaceable(k) /\ endedAt[k] > endedAt[u] /\ k \in Tasks /\ u \in Tasks BY <1>2, <1>4, <2>1
  <2>3. Newer(k) \in SUBSET Newer(u) BY <1>0, <2>2 DEF Newer, Stored
  <2> QED BY <1>5, <2>2, <2>3, MoreNewer DEF Replaceable
<1> QED BY <1>6, <1>7

-----------------------------------------------------------------------------
(* Every step keeps RInv.                                                  *)

\* Most steps neither delete nor advance a pass, and date no task anew.
LEMMA QuietKeeps ==
  ASSUME IInv, RInv, IInv', UNCHANGED <<result, endedAt, clock, looked, chosen>>,
         \A x \in Tasks, pc \in {"list", "delete", "evict"} : At(x, pc)' <=> At(x, pc),
         \A u \in Tasks : Past(u) => Past(u)',
         \A u \in Tasks : state'[u] \in Terminal => state[u] \in Terminal
  PROVE  RInv'
<1>1. \A u \in Tasks : Replaceable(u)' <=> Replaceable(u)
  BY DEF Replaceable, Newer, Stored
<1>2. Stored' = Stored BY DEF Stored
<1>3. \A x \in Tasks : Pass(x)' BY <1>1, <1>2, PassStaysTrue DEF IInv, TypeOK
<1>4. \A x \in Tasks : Dated(x)' BY DEF RInv, Dated
<1> QED BY <1>3, <1>4 DEF RInv

\* A task that ends is dated with the next time.
LEMMA DecideKeeps ==
  ASSUME IInv, RInv, IInv', NEW t \in Tasks, NEW outcome, Decide(t, outcome), state[t] \in Active,
         UNCHANGED <<result, starter, looked, chosen>>,
         \A x \in Tasks, pc \in {"list", "delete", "evict"} : At(x, pc)' <=> At(x, pc),
         outcome \in Terminal
  PROVE  RInv'
<1>0. /\ endedAt \in [Tasks -> Nat] /\ clock \in Nat /\ state \in [Tasks -> TaskState]
      /\ endedAt' = [endedAt EXCEPT ![t] = clock] /\ clock' = clock + 1
      /\ state' = [state EXCEPT ![t] = outcome]
  BY DEF IInv, TypeOK, Decide
<1>1. \A u \in Tasks : Past(u) => Past(u)' /\ endedAt'[u] = endedAt[u]
  BY <1>0 DEF Past, Active
<1>2. Stored' = Stored BY DEF Stored
<1>3. \A u \in Tasks : Past(u) /\ Replaceable(u) => Replaceable(u)'
  BY <1>1, <1>2, ReplaceableStays
<1>4. \A x \in Tasks : Pass(x)'
  BY <1>1, <1>2, <1>3, PassStaysTrue DEF IInv, TypeOK
<1>5. \A x \in Tasks : Dated(x)'
  <2>1. \A x \in Tasks : Dated(x) BY DEF RInv
  <2>2. ASSUME NEW x \in Tasks PROVE endedAt'[x] < clock' BY <1>0, <2>1 DEF Dated
  <2>3. ASSUME NEW x \in Tasks PROVE result'[x] # "ABSENT" \/ state'[x] \in Terminal => endedAt'[x] # 0
    <3>1. CASE x = t
      <4>1. clock # 0 BY <1>0, <2>1 DEF Dated
      <4> QED BY <1>0, <3>1, <4>1
    <3>2. CASE x # t BY <1>0, <2>1, <3>2 DEF Dated
    <3> QED BY <3>1, <3>2
  <2>4. ASSUME NEW x \in Tasks, NEW v \in Tasks, endedAt'[x] = endedAt'[v], endedAt'[x] # 0
        PROVE  x = v
    <3>1. endedAt[x] < clock /\ endedAt[v] < clock BY <2>1 DEF Dated
    <3>2. CASE x # t /\ v # t BY <1>0, <2>1, <2>4, <3>2 DEF Dated
    <3>3. CASE x = t \/ v = t BY <1>0, <2>4, <3>1, <3>3
    <3> QED BY <3>2, <3>3
  <2> QED BY <2>2, <2>3, <2>4 DEF Dated
<1> QED BY <1>4, <1>5 DEF RInv

\* start() and the input requests of clients and of the pool thread.
LEMMA StartDates ==
  ASSUME IInv, RInv, IInv', NEW t \in Tasks, StartStep(t)
  PROVE  RInv'
<1> USE DEF StarterGoes, At
<1>0. UNCHANGED <<result, endedAt, clock, looked, chosen>>
  BY DEF StartStep, StartSave, StartSaveFails, StartPut, StartSubmit, StartRejected, StartSetFuture, StartSchedule
<1>1. \A x \in Tasks, pc \in {"list", "delete", "evict"} : At(x, pc)' <=> At(x, pc)
  <2>1. CASE StartSubmit(t)
    <3>1. worker[t] = "none" BY <2>1 DEF StartSubmit, IInv, TaskInv, Started
    <3> QED BY <2>1, <3>1 DEF StartSubmit, IInv, TypeOK
  <2>2. CASE StartSchedule(t)
    <3>1. timer[t] = "off" BY <2>2 DEF StartSchedule, IInv, TaskInv, Started
    <3> QED BY <2>2, <3>1 DEF StartSchedule, IInv, TypeOK
  <2>3. CASE UNCHANGED <<worker, timer>> BY <2>3
  <2> QED BY <2>1, <2>2, <2>3 DEF StartStep, StartSave, StartSaveFails, StartPut, StartRejected, StartSetFuture
<1>2. \A u \in Tasks : Past(u) => Past(u)'
  <2>1. CASE StartSave(t) BY <2>1 DEF StartSave, Past, IInv, TypeOK
  <2>2. CASE UNCHANGED state /\ ~StartSave(t)
    BY <1>0, <2>2 DEF StartStep, StartSaveFails, StartPut, StartSubmit, StartRejected, StartSetFuture,
       StartSchedule, Past, IInv, TypeOK
  <2> QED BY <2>1, <2>2
       DEF StartStep, StartSaveFails, StartPut, StartSubmit, StartRejected, StartSetFuture, StartSchedule
<1>3. \A u \in Tasks : state'[u] \in Terminal => state[u] \in Terminal
  BY DEF StartStep, StartSave, StartSaveFails, StartPut, StartSubmit, StartRejected, StartSetFuture,
     StartSchedule, Terminal, IInv, TypeOK
<1> QED BY <1>0, <1>1, <1>2, <1>3, QuietKeeps

\* The pool thread before the script has ended.
LEMMA WorkerDates ==
  ASSUME IInv, RInv, IInv', NEW t \in Tasks, WorkerStep(t)
  PROVE  RInv'
<1> USE DEF WorkerGoes
<1>0. UNCHANGED <<result, endedAt, clock, looked, chosen, starter, timer>>
  BY DEF WorkerStep, WorkerTake, MarkRunning, WorkerSnapshot, WorkerSave, WorkerSaveFails, PublishStarted,
     WorkerPublish, EnterAwait, AwaitReturns, AwaitDeadline, CheckResume
<1>1. PICK from, to : /\ worker[t] = from /\ worker' = [worker EXCEPT ![t] = to]
                      /\ {from, to} \cap {"list", "delete", "evict"} = {}
  <2>1. CASE WorkerTake(t) BY <2>1 DEF WorkerTake
  <2>2. CASE MarkRunning(t) BY <2>2 DEF MarkRunning
  <2>3. CASE WorkerSnapshot(t)
    <3>1. PICK pc \in {"snapRunning", "snapAsk", "snapResume"} :
            worker[t] = pc /\ worker' = [worker EXCEPT ![t] = AfterSnapshot[pc]]
      BY <2>3 DEF WorkerSnapshot, AfterSnapshot
    <3>2. AfterSnapshot[pc] \in {"saveRunning", "saveAsk", "saveResume"} BY DEF AfterSnapshot
    <3> QED BY <3>1, <3>2
  <2>4. CASE WorkerSave(t)
    <3>1. PICK pc \in {"saveRunning", "saveAsk", "saveResume"} :
            worker[t] = pc /\ worker' = [worker EXCEPT ![t] = AfterSave[pc]]
      BY <2>4 DEF WorkerSave, AfterSave
    <3>2. AfterSave[pc] \in {"publishStarted", "publishAsk", "publishResume"} BY DEF AfterSave
    <3> QED BY <3>1, <3>2
  <2>5. CASE WorkerSaveFails(t) BY <2>5 DEF WorkerSaveFails
  <2>6. CASE PublishStarted(t) BY <2>6 DEF PublishStarted
  <2>7. CASE WorkerPublish(t) BY <2>7 DEF WorkerPublish, AfterPublish
  <2>8. CASE EnterAwait(t) BY <2>8 DEF EnterAwait
  <2>9. CASE AwaitReturns(t) BY <2>9 DEF AwaitReturns
  <2>10. CASE AwaitDeadline(t) BY <2>10 DEF AwaitDeadline
  <2>11. CASE CheckResume(t) BY <2>11 DEF CheckResume
  <2> QED BY <2>1, <2>2, <2>3, <2>4, <2>5, <2>6, <2>7, <2>8, <2>9, <2>10, <2>11 DEF WorkerStep
<1>2. \A x \in Tasks, pc \in {"list", "delete", "evict"} : At(x, pc)' <=> At(x, pc)
  BY <1>0, <1>1 DEF At, IInv, TypeOK
<1>3. state' = state \/ \E s \in Active : state[t] \in Active /\ state' = [state EXCEPT ![t] = s]
  BY DEF WorkerStep, WorkerTake, MarkRunning, WorkerSnapshot, WorkerSave, WorkerSaveFails, PublishStarted,
     WorkerPublish, EnterAwait, AwaitReturns, AwaitDeadline, CheckResume, Resolve, Active
<1>4. /\ \A u \in Tasks : Past(u) => Past(u)'
      /\ \A u \in Tasks : state'[u] \in Terminal => state[u] \in Terminal
  BY <1>0, <1>3 DEF Past, Active, Terminal, IInv, TypeOK
<1> QED BY <1>0, <1>2, <1>4, QuietKeeps

\* The script, and its end.
LEMMA ScriptDates ==
  ASSUME IInv, RInv, IInv', NEW t \in Tasks, ScriptStep(t)
  PROVE  RInv'
<1> USE DEF WorkerGoes
<1>0. UNCHANGED <<result, looked, chosen, starter, timer>> BY DEF ScriptStep, Emit, RequestInput, Finish
<1>1. worker[t] = "script" /\ \E to \in {"emit", "snapAsk", "done", "complete"} : worker' = [worker EXCEPT ![t] = to]
  BY DEF ScriptStep, Emit, RequestInput, Finish
<1>2. \A x \in Tasks, pc \in {"list", "delete", "evict"} : At(x, pc)' <=> At(x, pc)
  BY <1>0, <1>1 DEF At, IInv, TypeOK
<1>3. ASSUME NEW succeeded \in BOOLEAN, Finish(t, succeeded), state[t] \notin Terminal PROVE RInv'
  <2>1. FinalState(t, succeeded) \in Terminal BY DEF FinalState, Terminal
  <2>2. Decide(t, FinalState(t, succeeded)) BY <1>3 DEF Finish
  <2>3. state[t] \in Active BY <1>1, <1>3 DEF IInv, TypeOK, TaskInv, Known, Unknown, TaskState
  <2> QED BY <1>0, <1>2, <2>1, <2>2, <2>3, DecideKeeps
<1>4. CASE Emit(t) \/ RequestInput(t) \/ (state[t] \in Terminal /\ \E succeeded \in BOOLEAN : Finish(t, succeeded))
  <2>1. UNCHANGED <<endedAt, clock>> BY <1>4 DEF Emit, RequestInput, Finish
  <2>2. state' = state \/ (state[t] \in Active /\ state' = [state EXCEPT ![t] = "PENDING_INPUT"])
    BY <1>4 DEF Emit, RequestInput, Finish, Active
  <2>3. /\ \A u \in Tasks : Past(u) => Past(u)'
        /\ \A u \in Tasks : state'[u] \in Terminal => state[u] \in Terminal
    BY <1>0, <2>1, <2>2 DEF Past, Active, Terminal, IInv, TypeOK
  <2> QED BY <1>0, <1>2, <2>1, <2>3, QuietKeeps
<1> QED BY <1>3, <1>4 DEF ScriptStep

\* The timeout.
LEMMA TimerDates ==
  ASSUME IInv, RInv, IInv', NEW t \in Tasks, TimerFires(t)
  PROVE  RInv'
<1>0. UNCHANGED <<result, looked, chosen, starter>> /\ timer[t] = "armed" BY DEF TimerFires
<1>1. /\ \E to \in {"done", "complete"} : timer' = [timer EXCEPT ![t] = to]
      /\ worker' = worker \/ (worker[t] = "queued" /\ worker' = [worker EXCEPT ![t] = "discarded"])
  BY DEF TimerFires, CancelFuture
<1>2. \A x \in Tasks, pc \in {"list", "delete", "evict"} : At(x, pc)' <=> At(x, pc)
  BY <1>0, <1>1 DEF At, IInv, TypeOK
<1>3. CASE state[t] \in Terminal
  <2>1. UNCHANGED <<state, endedAt, clock>> BY <1>3 DEF TimerFires
  <2> QED BY <1>0, <1>2, <2>1, QuietKeeps DEF Past
<1>4. CASE state[t] \notin Terminal
  <2>1. Decide(t, "TIMED_OUT") /\ "TIMED_OUT" \in Terminal BY <1>4 DEF TimerFires, Terminal
  <2>2. state[t] \in Active BY <1>0, <1>4 DEF IInv, TypeOK, TaskInv, Known, Unknown, TaskState
  <2> QED BY <1>0, <1>2, <2>1, <2>2, DecideKeeps
<1> QED BY <1>3, <1>4

\* Clients.
LEMMA ClientDates ==
  ASSUME IInv, RInv, IInv', NEW t \in Tasks, ClientStep(t)
  PROVE  RInv'
<1>0. UNCHANGED <<result, endedAt, clock, looked, chosen, starter, timer>>
  BY DEF ClientStep, Cancel, Answer, AnswerSnapshot, AnswerSave
<1>1. worker' = worker \/ (worker[t] = "queued" /\ worker' = [worker EXCEPT ![t] = "discarded"])
  BY DEF ClientStep, Cancel, Answer, AnswerSnapshot, AnswerSave, CancelFuture
<1>2. \A x \in Tasks, pc \in {"list", "delete", "evict"} : At(x, pc)' <=> At(x, pc)
  BY <1>0, <1>1 DEF At, IInv, TypeOK
<1>3. state' = state \/ (state[t] \in Active /\ \E s \in Active : state' = [state EXCEPT ![t] = s])
  <2>1. CASE Cancel(t)
    <3>1. t \in tasks /\ state[t] \notin Terminal BY <2>1 DEF Cancel
    <3>2. state[t] \in Active BY <3>1 DEF IInv, TypeOK, TaskInv, Known, Unknown, TaskState
    <3> QED BY <2>1, <3>2 DEF Cancel, Active
  <2>2. CASE Answer(t) BY <2>2 DEF Answer, Resolve, Active
  <2>3. CASE AnswerSnapshot(t) \/ AnswerSave(t) BY <2>3 DEF AnswerSnapshot, AnswerSave
  <2> QED BY <2>1, <2>2, <2>3 DEF ClientStep
<1>4. /\ \A u \in Tasks : Past(u) => Past(u)'
      /\ \A u \in Tasks : state'[u] \in Terminal => state[u] \in Terminal
  BY <1>0, <1>3 DEF Past, Active, Terminal, IInv, TypeOK
<1> QED BY <1>0, <1>2, <1>4, QuietKeeps

\* While the process does not serve there is no pass.
LEMMA NoPassWhenDown ==
  ASSUME IInv, phase # "up", NEW x \in Tasks
  PROVE  ~At(x, "list") /\ ~At(x, "delete") /\ ~At(x, "evict")
BY DEF IInv, TaskInv, Known, Unknown, At

\* Eviction on a read, crashes and recovery, which dates what it interrupts.
LEMMA ProcessDates ==
  ASSUME IInv, RInv, IInv', GetTask \/ Crash \/ RecoveryStep
  PROVE  RInv'
<1>0. endedAt \in [Tasks -> Nat] /\ clock \in Nat BY DEF IInv, TypeOK
<1>1. CASE GetTask
  <2>1. UNCHANGED <<result, endedAt, clock, looked, chosen, starter, timer, worker, state>> BY <1>1 DEF GetTask
  <2> QED BY <2>1, QuietKeeps DEF Past, At
<1>2. CASE Crash
  <2>1. /\ looked' = [x \in Tasks |-> {}] /\ chosen' = [x \in Tasks |-> {}]
        /\ worker' = [x \in Tasks |-> "none"] /\ timer' = [x \in Tasks |-> "off"]
        /\ state' = [x \in Tasks |-> "ABSENT"] /\ UNCHANGED <<result, endedAt, clock>>
    BY <1>2 DEF Crash
  <2>2. \A x \in Tasks : Pass(x)' BY <2>1 DEF Pass, At
  <2>3. \A x \in Tasks : Dated(x)' BY <2>1 DEF RInv, Dated, Terminal
  <2> QED BY <2>2, <2>3 DEF RInv
<1>3. CASE Restart \/ Open
  <2>1. phase # "up" /\ UNCHANGED <<result, endedAt, looked, chosen, worker, timer, state>> /\ clock' = clock + 1
    BY <1>3 DEF Restart, Open
  <2>2. \A x \in Tasks : Pass(x)' BY <2>1, NoPassWhenDown DEF RInv, Pass, At
  <2>3. \A x \in Tasks : Dated(x)' BY <1>0, <2>1 DEF RInv, Dated
  <2> QED BY <2>2, <2>3 DEF RInv
<1>4. ASSUME NEW t \in Tasks, RecoverResult(t) PROVE RInv'
  <2>1. /\ phase = "recovering" /\ UNCHANGED <<looked, chosen, worker, timer, state>>
        /\ result' = [result EXCEPT ![t] = "INTERRUPTED"]
        /\ endedAt' = [endedAt EXCEPT ![t] = clock] /\ clock' = clock + 1
    BY <1>4 DEF RecoverResult
  <2>2. \A x \in Tasks : Pass(x)' BY <2>1, NoPassWhenDown DEF RInv, Pass, At
  <2>3. \A x \in Tasks : Dated(x) BY DEF RInv
  <2>4. \A x \in Tasks : endedAt'[x] < clock' /\ (x # t => endedAt'[x] = endedAt[x] /\ result'[x] = result[x])
    BY <1>0, <2>1, <2>3 DEF Dated, IInv, TypeOK
  <2>5. endedAt'[t] = clock /\ clock > 0 BY <1>0, <2>1, <2>3 DEF Dated
  <2>6. \A x \in Tasks : Dated(x)'
    <3> SUFFICES ASSUME NEW x \in Tasks PROVE Dated(x)' OBVIOUS
    <3>1. result'[x] # "ABSENT" \/ state'[x] \in Terminal => endedAt'[x] # 0
      BY <1>0, <2>1, <2>3, <2>4, <2>5 DEF Dated
    <3>2. ASSUME NEW v \in Tasks, endedAt'[x] = endedAt'[v], endedAt'[x] # 0 PROVE x = v
      <4>1. endedAt[x] < clock /\ endedAt[v] < clock BY <2>3 DEF Dated
      <4>2. CASE x # t /\ v # t BY <2>3, <2>4, <3>2, <4>2 DEF Dated
      <4>3. CASE x = t \/ v = t BY <1>0, <2>4, <2>5, <3>2, <4>1, <4>3
      <4> QED BY <4>2, <4>3
    <3> QED BY <2>4, <3>1, <3>2 DEF Dated
  <2> QED BY <2>2, <2>6 DEF RInv
<1>5. ASSUME NEW t \in Tasks, RecoverRecord(t) PROVE RInv'
  <2>1. UNCHANGED <<result, endedAt, clock, looked, chosen, starter, timer, worker, state>>
    BY <1>5 DEF RecoverRecord
  <2> QED BY <2>1, QuietKeeps DEF Past, At
<1> QED BY <1>1, <1>2, <1>3, <1>4, <1>5 DEF RecoveryStep

\* A step of the thread a that completes t leaves the other threads' passes
\* where they are.
LEMMA OtherPasses ==
  ASSUME IInv, NEW t \in Tasks, NEW a \in OutcomeThread, NEW from \in Completing, NEW to \in Completing \cup {"done"},
         OutcomeGoes(t, a, from, to)
  PROVE  /\ \A pc \in {"list", "delete", "evict"} : At(t, pc) <=> pc = from
         /\ \A pc \in {"list", "delete", "evict"} : At(t, pc)' <=> pc = to
         /\ \A x \in Tasks \ {t}, pc \in {"list", "delete", "evict"} : At(x, pc)' <=> At(x, pc)
<1>1. ~(worker[t] \in Completing /\ timer[t] \in Completing) BY DEF IInv, TaskInv, Settled
<1>2. worker \in [Tasks -> WorkerPC] /\ timer \in [Tasks -> TimerPC] BY DEF IInv, TypeOK
<1> QED BY <1>1, <1>2 DEF OutcomeGoes, OutcomeThread, At, Completing

\* What a step of one pass that deletes nothing leaves of the others.
LEMMA OthersKeep ==
  ASSUME IInv, RInv, NEW t \in Tasks, UNCHANGED <<endedAt, clock, starter, state>>,
         Stored \subseteq Stored',
         \A x \in Tasks : result'[x] # "ABSENT" => result[x] # "ABSENT" \/ state[x] \in Terminal,
         \A x \in Tasks \ {t}, pc \in {"list", "delete", "evict"} : At(x, pc)' <=> At(x, pc),
         \A x \in Tasks \ {t} : looked'[x] = looked[x] /\ chosen'[x] = chosen[x],
         Pass(t)'
  PROVE  RInv'
<1>1. \A u \in Tasks : Past(u) => Past(u)' BY DEF Past
<1>2. \A u \in Tasks : Past(u) /\ Replaceable(u) => Replaceable(u)' BY ReplaceableStays
<1>3. \A x \in Tasks \ {t} : Pass(x)' BY <1>1, <1>2, PassStaysTrue DEF IInv, TypeOK
<1>4. \A x \in Tasks : Dated(x)' BY DEF RInv, Dated
<1> QED BY <1>3, <1>4 DEF RInv

\* The steps of a pass: it lists what is stored, chooses what is replaceable,
\* deletes it, whatever others delete meanwhile, and then evicts.
LEMMA OutcomeDates ==
  ASSUME IInv, RInv, IInv', NEW t \in Tasks, OutcomeStep(t)
  PROVE  RInv'
<1> PICK a \in OutcomeThread : Complete(t, a) \/ SaveResult(t, a) \/ SaveTerminalRecord(t, a)
                               \/ SaveFails(t, a) \/ RetentionStep(t, a)
  BY DEF OutcomeStep, RetentionStep
<1> USE DEF Completing
<1>0. /\ looked \in [Tasks -> SUBSET Tasks] /\ chosen \in [Tasks -> SUBSET Tasks]
      /\ result \in [Tasks -> Terminal \cup {"ABSENT"}] /\ Pass(t)
  BY DEF IInv, TypeOK, RInv
<1>1. CASE Complete(t, a)
  <2>1. /\ UNCHANGED <<result, endedAt, clock, looked, chosen, starter, state>>
        /\ OutcomeGoes(t, a, "complete", "done") \/ OutcomeGoes(t, a, "complete", "saveResult")
    BY <1>1 DEF Complete
  <2>2. \A x \in Tasks, pc \in {"list", "delete", "evict"} : At(x, pc)' <=> At(x, pc)
    BY <2>1, OtherPasses
  <2> QED BY <2>1, <2>2, QuietKeeps DEF Past
<1>2. CASE SaveResult(t, a)
  <2>1. /\ UNCHANGED <<endedAt, clock, looked, chosen, starter, state>>
        /\ OutcomeGoes(t, a, "saveResult", "saveRecord") /\ result' = [result EXCEPT ![t] = Held(t, a)]
    BY <1>2 DEF SaveResult
  <2>2. state[t] \in Terminal /\ Held(t, a) = state[t]
    BY <2>1 DEF OutcomeGoes, OutcomeThread, Held, IInv, TaskInv, HoldsOutcome
  <2>3. Stored \subseteq Stored' BY <1>0, <2>1, <2>2 DEF Stored, Terminal
  <2>4. \A x \in Tasks : result'[x] # "ABSENT" => result[x] # "ABSENT" \/ state[x] \in Terminal
    BY <1>0, <2>1, <2>2
  <2>5. /\ ~At(t, "list") /\ ~At(t, "delete") /\ ~At(t, "evict")
        /\ ~At(t, "list")' /\ ~At(t, "delete")' /\ ~At(t, "evict")'
        /\ \A x \in Tasks \ {t}, pc \in {"list", "delete", "evict"} : At(x, pc)' <=> At(x, pc)
    BY <2>1, OtherPasses
  <2>6. Pass(t)' BY <1>0, <2>1, <2>5 DEF Pass
  <2> QED BY <2>1, <2>3, <2>4, <2>5, <2>6, OthersKeep
<1>3. CASE SaveTerminalRecord(t, a)
  <2>1. /\ UNCHANGED <<result, endedAt, clock, looked, chosen, starter, state>>
        /\ OutcomeGoes(t, a, "saveRecord", "list")
    BY <1>3 DEF SaveTerminalRecord
  <2>2. /\ ~At(t, "list") /\ ~At(t, "delete") /\ ~At(t, "evict") /\ ~At(t, "delete")'
        /\ \A x \in Tasks \ {t}, pc \in {"list", "delete", "evict"} : At(x, pc)' <=> At(x, pc)
    BY <2>1, OtherPasses
  <2>3. looked[t] = {} /\ chosen[t] = {} BY <1>0, <2>2 DEF Pass
  <2>4. Pass(t)' BY <2>1, <2>2, <2>3 DEF Pass
  <2> QED BY <2>1, <2>2, <2>4, OthersKeep DEF Stored
<1>4. CASE SaveFails(t, a)
  <2>1. /\ UNCHANGED <<result, endedAt, clock, starter, state>>
        /\ looked' = [looked EXCEPT ![t] = {}] /\ chosen' = [chosen EXCEPT ![t] = {}]
        /\ \E pc \in {"saveResult", "saveRecord", "list", "delete"} : OutcomeGoes(t, a, pc, "done")
    BY <1>4 DEF SaveFails
  <2>2. /\ ~At(t, "list")' /\ ~At(t, "delete")' /\ ~At(t, "evict")'
        /\ \A x \in Tasks \ {t}, pc \in {"list", "delete", "evict"} : At(x, pc)' <=> At(x, pc)
    BY <2>1, OtherPasses
  <2>3. Pass(t)' BY <1>0, <2>1, <2>2 DEF Pass
  <2> QED BY <1>0, <2>1, <2>2, <2>3, OthersKeep DEF Stored
<1>5. CASE ListNext(t, a)
  <2>1. /\ UNCHANGED <<result, endedAt, clock, starter, state>> /\ OutcomeGoes(t, a, "list", "list")
    BY <1>5 DEF ListNext, PassStays
  <2>2. PICK u \in Tasks : /\ looked' = [looked EXCEPT ![t] = @ \cup {u}]
                           /\ chosen' = [chosen EXCEPT ![t] = @ \cup ({u} \cap Stored)]
    BY <1>5 DEF ListNext
  <2>3. /\ At(t, "list") /\ At(t, "list")' /\ ~At(t, "delete")' /\ ~At(t, "evict")'
        /\ \A x \in Tasks \ {t}, pc \in {"list", "delete", "evict"} : At(x, pc)' <=> At(x, pc)
    BY <2>1, OtherPasses
  <2>4. Stored' = Stored /\ \A x : Replaceable(x)' <=> Replaceable(x)
    BY <2>1 DEF Stored, Replaceable, Newer
  <2>5. \A x \in chosen[t] \cup ({u} \cap Stored) : Past(x) /\ (x \in Stored \/ Replaceable(x))
    BY <1>0, <2>3, StoredIsPast DEF Pass
  <2>6. chosen'[t] = chosen[t] \cup ({u} \cap Stored) BY <1>0, <2>2
  <2>7. Pass(t)' BY <2>1, <2>3, <2>4, <2>5, <2>6 DEF Pass, Past
  <2> QED BY <1>0, <2>1, <2>2, <2>3, <2>4, <2>7, OthersKeep DEF Stored
<1>6. CASE Choose(t, a)
  <2>1. /\ UNCHANGED <<result, endedAt, clock, starter, state>> /\ OutcomeGoes(t, a, "list", "delete")
        /\ looked' = [looked EXCEPT ![t] = {}]
    BY <1>6 DEF Choose, PassStays
  <2>2. PICK D \in ToDelete(chosen[t]) : chosen' = [chosen EXCEPT ![t] = D] BY <1>6 DEF Choose
  <2>3. /\ At(t, "list") /\ At(t, "delete")' /\ ~At(t, "list")' /\ ~At(t, "evict")'
        /\ \A x \in Tasks \ {t}, pc \in {"list", "delete", "evict"} : At(x, pc)' <=> At(x, pc)
    BY <2>1, OtherPasses
  <2>4. chosen[t] \in SUBSET Tasks /\ \A k \in chosen[t] : Past(k) /\ (k \in Stored \/ Replaceable(k))
    BY <1>0, <2>3 DEF Pass
  <2>5. \A u \in D : Replaceable(u) BY <2>4, ChosenIsReplaceable
  <2>6. D \subseteq chosen[t] BY <2>4, DeletedSubset
  <2>7. chosen'[t] = D BY <1>0, <2>2
  <2>8. \A x : Replaceable(x)' <=> Replaceable(x) BY <2>1 DEF Stored, Replaceable, Newer
  <2>9. looked'[t] = {} BY <1>0, <2>1
  <2>10. Pass(t)' BY <2>1, <2>3, <2>4, <2>5, <2>6, <2>7, <2>8, <2>9 DEF Pass, Past
  <2> QED BY <1>0, <2>1, <2>2, <2>3, <2>10, OthersKeep DEF Stored
<1>7. CASE Delete(t, a)
  <2>1. /\ UNCHANGED <<endedAt, clock, looked, starter, state>> /\ OutcomeGoes(t, a, "delete", "delete")
    BY <1>7 DEF Delete
  <2>2. PICK d \in chosen[t] : result' = [result EXCEPT ![d] = "ABSENT"] /\ chosen' = [chosen EXCEPT ![t] = @ \ {d}]
    BY <1>7 DEF Delete
  <2>3. \A x \in Tasks, pc \in {"list", "delete", "evict"} : At(x, pc)' <=> At(x, pc)
    BY <2>1, OtherPasses
  <2>4. At(t, "delete") /\ ~At(t, "list") /\ ~At(t, "evict") BY <2>1, OtherPasses
  <2>5. d \in Tasks /\ Replaceable(d) BY <1>0, <2>2, <2>4 DEF Pass
  <2>6. \A u \in Tasks : Replaceable(u) => Replaceable(u)' BY <2>1, <2>2, <2>5, DeleteLeavesReplaceable
  <2>7. \A u \in Stored : u \in Stored' \/ Replaceable(u)' BY <1>0, <2>2, <2>5, <2>6 DEF Stored
  <2>8. \A u \in Tasks : Past(u) => Past(u)' BY <2>1 DEF Past
  <2>9. \A x \in Tasks \ {t} : Pass(x)'
    <3> SUFFICES ASSUME NEW x \in Tasks \ {t} PROVE Pass(x)' OBVIOUS
    <3>1. chosen'[x] = chosen[x] /\ chosen[x] \in SUBSET Tasks /\ looked'[x] = looked[x] BY <1>0, <2>1, <2>2
    <3> QED BY <2>3, <2>6, <2>7, <2>8, <3>1, PassStaysTrue
  <2>10. Pass(t)'
    <3>1. chosen'[t] \subseteq chosen[t] BY <1>0, <2>2
    <3>2. \A u \in chosen[t] : u \in Tasks /\ Past(u) /\ Replaceable(u) BY <1>0, <2>4 DEF Pass
    <3>3. \A u \in chosen'[t] : Past(u)' /\ Replaceable(u)' BY <2>6, <2>8, <3>1, <3>2
    <3>4. looked'[t] = {} BY <1>0, <2>1, <2>4 DEF Pass
    <3> QED BY <2>3, <2>4, <3>3, <3>4 DEF Pass
  <2>11. \A x \in Tasks : Dated(x)'
    <3>1. \A x \in Tasks : result'[x] # "ABSENT" => result[x] # "ABSENT" BY <1>0, <2>2
    <3> QED BY <2>1, <3>1 DEF RInv, Dated
  <2> QED BY <2>9, <2>10, <2>11 DEF RInv
<1>8. CASE ChooseEvicted(t, a) \/ EvictNext(t, a)
  <2>1. /\ UNCHANGED <<result, endedAt, clock, looked, starter, state>>
        /\ \E from \in {"delete", "evict"} : OutcomeGoes(t, a, from, "evict")
        /\ \A x \in Tasks \ {t} : chosen'[x] = chosen[x]
    BY <1>0, <1>8 DEF ChooseEvicted, EvictNext, PassStays
  <2>2. /\ ~At(t, "list") /\ At(t, "evict")' /\ ~At(t, "list")' /\ ~At(t, "delete")'
        /\ \A x \in Tasks \ {t}, pc \in {"list", "delete", "evict"} : At(x, pc)' <=> At(x, pc)
    BY <2>1, OtherPasses
  <2>3. Pass(t)' BY <1>0, <2>1, <2>2 DEF Pass
  <2> QED BY <2>1, <2>2, <2>3, OthersKeep DEF Stored
<1>9. CASE Finished(t, a)
  <2>1. /\ UNCHANGED <<result, endedAt, clock, looked, chosen, starter, state>>
        /\ OutcomeGoes(t, a, "evict", "done") /\ chosen[t] = {}
    BY <1>9 DEF Finished, PassStays
  <2>2. /\ At(t, "evict") /\ ~At(t, "list") /\ ~At(t, "list")' /\ ~At(t, "delete")' /\ ~At(t, "evict")'
        /\ \A x \in Tasks \ {t}, pc \in {"list", "delete", "evict"} : At(x, pc)' <=> At(x, pc)
    BY <2>1, OtherPasses
  <2>3. Pass(t)' BY <1>0, <2>1, <2>2 DEF Pass
  <2> QED BY <2>1, <2>2, <2>3, OthersKeep DEF Stored
<1> QED BY <1>1, <1>2, <1>3, <1>4, <1>5, <1>6, <1>7, <1>8, <1>9 DEF RetentionStep

\* Both invariants hold in every state of every execution.
LEMMA RetentionInductive == SafetySpec => [](IInv /\ RInv)
<1>1. Init => IInv /\ RInv
  <2>1. Init => RInv BY DEF Init, RInv, Pass, Dated, At, Terminal
  <2> QED BY <2>1, InitKeeps
<1>2. IInv /\ RInv /\ [Next]_vars => IInv' /\ RInv'
  <2> SUFFICES ASSUME IInv, RInv, [Next]_vars PROVE IInv' /\ RInv' OBVIOUS
  <2>1. IInv' BY NextKeeps, StutterKeeps
  <2>2. CASE UNCHANGED vars BY <2>1, <2>2, QuietKeeps DEF vars, Past, At
  <2>3. CASE GetTask \/ Crash \/ RecoveryStep BY <2>1, <2>3, ProcessDates
  <2>4. ASSUME NEW t \in Tasks,
               StartStep(t) \/ ScriptStep(t) \/ WorkerStep(t) \/ TimerFires(t) \/ OutcomeStep(t) \/ ClientStep(t)
        PROVE  RInv'
    BY <2>1, <2>4, StartDates, ScriptDates, WorkerDates, TimerDates, OutcomeDates, ClientDates
  <2> QED BY <2>1, <2>2, <2>3, <2>4 DEF Next
<1> QED BY <1>1, <1>2, PTL DEF SafetySpec

\* Only a delete of retention takes a result off the disk.
LEMMA OnlyDeletes ==
  ASSUME IInv, Next, NEW u \in Tasks, result[u] # "ABSENT", result'[u] = "ABSENT"
  PROVE  \E t \in Tasks, a \in OutcomeThread : u \in chosen[t] /\ Delete(t, a)
<1>0. result \in [Tasks -> Terminal \cup {"ABSENT"}] BY DEF IInv, TypeOK
<1>1. ASSUME NEW t \in Tasks, StartStep(t) \/ ScriptStep(t) \/ WorkerStep(t) \/ TimerFires(t) \/ ClientStep(t)
      PROVE  FALSE
  BY <1>0, <1>1, StartImplements, ScriptImplements, WorkerImplements, TimerImplements, ClientImplements
     DEF Contract!Move, Same
<1>2. ASSUME GetTask \/ Crash \/ RecoveryStep PROVE FALSE
  BY <1>0, <1>2, ProcessImplements DEF Contract!Die, Contract!Interrupt, Same
<1>3. PICK t \in Tasks : OutcomeStep(t) BY <1>1, <1>2 DEF Next
<1>4. PICK a \in OutcomeThread : Complete(t, a) \/ SaveResult(t, a) \/ SaveTerminalRecord(t, a)
                               \/ SaveFails(t, a) \/ RetentionStep(t, a)
  BY <1>3 DEF OutcomeStep, RetentionStep
<1>5. ~(Complete(t, a) \/ SaveTerminalRecord(t, a) \/ SaveFails(t, a))
  BY DEF Complete, SaveTerminalRecord, SaveFails
<1>6. ~SaveResult(t, a)
  <2>1. SaveResult(t, a) => Held(t, a) \in Terminal
    BY DEF SaveResult, OutcomeGoes, OutcomeThread, Held, IInv, TaskInv, HoldsOutcome, Completing
  <2> QED BY <1>0, <2>1 DEF SaveResult, Terminal
<1>7. Delete(t, a) BY <1>4, <1>5, <1>6
  DEF RetentionStep, ListNext, Choose, ChooseEvicted, EvictNext, Finished, PassStays
<1>8. u \in chosen[t] BY <1>0, <1>7 DEF Delete
<1> QED BY <1>7, <1>8

\* A result is deleted only while MaxResults newer ones are kept, whatever
\* other threads store and delete between the listing and the delete.
THEOREM RecentResultsKept == SafetySpec => RetentionKeepsRecent
<1>1. IInv /\ RInv /\ [Next]_vars
      => [\A t \in Tasks : result[t] # "ABSENT" /\ result'[t] = "ABSENT" =>
            Cardinality({u \in Tasks : result'[u] # "ABSENT" /\ endedAt[u] > endedAt[t]}) >= MaxResults]_vars
  <2> SUFFICES ASSUME IInv, RInv, Next, NEW t \in Tasks, result[t] # "ABSENT", result'[t] = "ABSENT"
               PROVE  Cardinality({u \in Tasks : result'[u] # "ABSENT" /\ endedAt[u] > endedAt[t]}) >= MaxResults
    OBVIOUS
  <2>0. result \in [Tasks -> Terminal \cup {"ABSENT"}] /\ endedAt \in [Tasks -> Nat] BY DEF IInv, TypeOK
  <2>1. PICK x \in Tasks, a \in OutcomeThread : t \in chosen[x] /\ Delete(x, a) BY OnlyDeletes
  <2>2. At(x, "delete") BY <2>1 DEF Delete, OutcomeGoes, OutcomeThread, At
  <2>3. Replaceable(t) BY <2>1, <2>2 DEF RInv, Pass
  <2>4. \E d : result' = [result EXCEPT ![d] = "ABSENT"] BY <2>1 DEF Delete
  <2>5. Newer(t) = {u \in Tasks : result'[u] # "ABSENT" /\ endedAt[u] > endedAt[t]}
    <3>1. result' = [result EXCEPT ![t] = "ABSENT"] BY <2>0, <2>4
    <3> QED BY <2>0, <3>1 DEF Newer, Stored
  <2> QED BY <2>3, <2>5 DEF Replaceable
<1> QED BY <1>1, RetentionInductive, PTL DEF SafetySpec, RetentionKeepsRecent
=============================================================================
