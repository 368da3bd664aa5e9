----------------------------- MODULE ScriptTasks -----------------------------
(***************************************************************************)
(* The life of script tasks in the script runner: the application service  *)
(* DefaultScriptRunnerService, the synchronized RunningScriptTask, the     *)
(* lifecycle effects and what the two file stores keep across a restart.   *)
(*                                                                         *)
(* Up to four threads act on one task and each step below is one critical  *)
(* section or one store call of one of them:                               *)
(*   starter  the HTTP thread inside start()                               *)
(*   worker   the pool thread inside execute(), which runs the script      *)
(*   timer    the single scheduler thread inside timeout()                 *)
(*   answer   an HTTP thread inside submitInput()                          *)
(* cancel() holds the task monitor from its first to its last effect, so   *)
(* it is one step.  A thread that took a snapshot and has not saved it yet *)
(* holds it in workerHolds / answerHolds; a thread that completed the task *)
(* holds the outcome in workerHolds / timerHolds.                          *)
(*                                                                         *)
(* Data left out: progress values, log lines, series points, names and     *)
(* sources.  A script is any finite or infinite sequence of emitted events *)
(* and input requests that ends, if it ends, in success or in failure.     *)
(***************************************************************************)
EXTENDS Naturals, FiniteSets

CONSTANTS
  Tasks,          \* task identifiers; start() never reuses one
  PoolSize,       \* psu.scripts.executors.execution-pool-size
  QueueCapacity,  \* psu.scripts.executors.execution-queue-capacity
  MaxResults,     \* RecentScriptRetentionPolicy.MAX_RESULTS
  ListLimit,      \* ScriptResultQuery.DEFAULT_LIMIT
  MaxCompleted,   \* psu.scripts.runtime.maximum-completed-tasks
  MaxInputs,      \* bound: input() calls of one script
  MaxCrashes,     \* bound: process crashes
  MaxFaults       \* bound: store calls that fail with an I/O error

ASSUME TasksAssumption == IsFiniteSet(Tasks)
ASSUME LimitsAssumption ==
  /\ PoolSize \in Nat \ {0}
  /\ QueueCapacity \in Nat \ {0}   \* ArrayBlockingQueue
  /\ MaxResults \in Nat \ {0}
  /\ ListLimit \in Nat \ {0}
  /\ MaxCompleted \in Nat
ASSUME BoundsAssumption ==
  MaxInputs \in Nat /\ MaxCrashes \in Nat /\ MaxFaults \in Nat

VARIABLES
  \* What is on disk.
  record,           \* task.json of each task: its state, or "ABSENT"
  result,           \* result.json of each task: its final status, or "ABSENT"
  retired,          \* tasks whose directory retention has deleted
  \* The process and its in-memory tasks.
  phase,            \* "up", "down" or "recovering" (@PostConstruct)
  tasks,            \* keys of DefaultScriptRunnerService.tasks
  state,            \* RunningScriptTask.state, or "ABSENT"
  cancelRequested,  \* tasks with cancellationRequested set
  futureSet,        \* tasks whose future field start() has set
  inputs,           \* number of input requests the task has made
  openInput,        \* the request inputWait holds, 0 for null
  response,         \* the latest request's future: "none", "value", "cancelled"
  assembled,        \* tasks whose result assembler is completed
  stream,           \* the live-event stream: "none", "open", "ended"
  endedAt,          \* when the outcome was decided, 0 for never
  clock,            \* the next value of endedAt
  \* The threads.
  starter, worker, timer, answer,
  workerHolds, timerHolds, answerHolds,
  looked,           \* of the thread that completed a task: directories it has listed
  chosen,           \* what it has found there, then what it deletes, then what it evicts
  recovering,       \* tasks whose INTERRUPTED result is saved, record not yet
  crashes, faults

disk     == <<record, result, retired>>
inputVars == <<inputs, openInput, response>>
timeVars == <<endedAt, clock>>
taskVars == <<tasks, state, cancelRequested, futureSet, inputVars, assembled, stream, timeVars>>
passVars == <<looked, chosen>>
holdVars == <<workerHolds, timerHolds, answerHolds, passVars>>
pcVars   == <<starter, worker, timer, answer>>
boundVars == <<crashes, faults>>
vars == <<disk, phase, taskVars, pcVars, holdVars, recovering, boundVars>>

Active    == {"QUEUED", "RUNNING", "PENDING_INPUT", "CANCELLING"}
Terminal  == {"COMPLETED", "FAILED", "CANCELLED", "TIMED_OUT", "INTERRUPTED"}
TaskState == Active \cup Terminal \cup {"ABSENT"}

\* Steps of a thread that took the outcome out of the task: the effects of
\* complete(), then the two saves of saveResult(), the listing and the deletes
\* of retention, and eviction.
Completing == {"complete", "saveResult", "saveRecord", "list", "delete", "evict"}

StarterPC == {"new", "put", "submit", "setFuture", "schedule", "returned", "refused", "gone"}
ScriptPC  == {"script", "emit", "snapAsk", "saveAsk", "publishAsk", "enterAwait",
              "await", "checkResume", "snapResume", "saveResume", "publishResume"}
WorkerPC  == {"none", "queued", "discarded", "taken", "snapRunning", "saveRunning",
              "publishStarted", "done"} \cup ScriptPC \cup Completing
TimerPC   == {"off", "armed", "done"} \cup Completing
AnswerPC  == {"idle", "snap", "save"}

TypeOK ==
  /\ record \in [Tasks -> TaskState]
  /\ result \in [Tasks -> Terminal \cup {"ABSENT"}]
  /\ retired \subseteq Tasks
  /\ phase \in {"up", "down", "recovering"}
  /\ tasks \subseteq Tasks
  /\ state \in [Tasks -> TaskState]
  /\ cancelRequested \subseteq Tasks
  /\ futureSet \subseteq Tasks
  /\ inputs \in [Tasks -> 0..MaxInputs]
  /\ openInput \in [Tasks -> 0..MaxInputs]
  /\ response \in [Tasks -> {"none", "value", "cancelled"}]
  /\ assembled \subseteq Tasks
  /\ stream \in [Tasks -> {"none", "open", "ended"}]
  /\ endedAt \in [Tasks -> Nat]
  /\ clock \in Nat
  /\ starter \in [Tasks -> StarterPC]
  /\ worker \in [Tasks -> WorkerPC]
  /\ timer \in [Tasks -> TimerPC]
  /\ answer \in [Tasks -> AnswerPC]
  /\ workerHolds \in [Tasks -> TaskState]
  /\ timerHolds \in [Tasks -> TaskState]
  /\ answerHolds \in [Tasks -> TaskState]
  /\ looked \in [Tasks -> SUBSET Tasks]
  /\ chosen \in [Tasks -> SUBSET Tasks]
  /\ recovering \subseteq Tasks
  /\ crashes \in 0..MaxCrashes
  /\ faults \in 0..MaxFaults

Init ==
  /\ record = [t \in Tasks |-> "ABSENT"]
  /\ result = [t \in Tasks |-> "ABSENT"]
  /\ retired = {}
  /\ phase = "up"
  /\ tasks = {}
  /\ state = [t \in Tasks |-> "ABSENT"]
  /\ cancelRequested = {}
  /\ futureSet = {}
  /\ inputs = [t \in Tasks |-> 0]
  /\ openInput = [t \in Tasks |-> 0]
  /\ response = [t \in Tasks |-> "none"]
  /\ assembled = {}
  /\ stream = [t \in Tasks |-> "none"]
  /\ endedAt = [t \in Tasks |-> 0]
  /\ clock = 1
  /\ starter = [t \in Tasks |-> "new"]
  /\ worker = [t \in Tasks |-> "none"]
  /\ timer = [t \in Tasks |-> "off"]
  /\ answer = [t \in Tasks |-> "idle"]
  /\ workerHolds = [t \in Tasks |-> "ABSENT"]
  /\ timerHolds = [t \in Tasks |-> "ABSENT"]
  /\ answerHolds = [t \in Tasks |-> "ABSENT"]
  /\ looked = [t \in Tasks |-> {}]
  /\ chosen = [t \in Tasks |-> {}]
  /\ recovering = {}
  /\ crashes = 0
  /\ faults = 0

-----------------------------------------------------------------------------
(* Shared pieces.                                                          *)

\* Any store call may fail with an I/O error, at most MaxFaults times.
Fault == faults < MaxFaults /\ faults' = faults + 1

SaveRecord(t, s) == record' = [record EXCEPT ![t] = s]

\* ScriptLiveEventPublisher.publish: a stream is created on demand, a terminal
\* event ends it, and publishing to an ended stream throws.
Publishable(t) == stream[t] # "ended"
Publish(t) == stream' = [stream EXCEPT ![t] = "open"]
PublishTerminal(t) == stream' = [stream EXCEPT ![t] = "ended"]

\* RunningScriptTask.cancelFuture: a future cancelled before a worker took it
\* never runs; it keeps its place in the executor queue until it is polled.
CancelFuture(t) ==
  worker' = IF t \in futureSet /\ worker[t] = "queued"
            THEN [worker EXCEPT ![t] = "discarded"] ELSE worker

\* RunningScriptTask.cancelInputWait: completes the waiting future exceptionally.
CancelInputWait(t) ==
  /\ response' = IF openInput[t] # 0 THEN [response EXCEPT ![t] = "cancelled"] ELSE response
  /\ openInput' = [openInput EXCEPT ![t] = 0]
  /\ UNCHANGED inputs

\* RunningScriptTask.complete.
Decide(t, outcome) ==
  /\ state' = [state EXCEPT ![t] = outcome]
  /\ endedAt' = [endedAt EXCEPT ![t] = clock]
  /\ clock' = clock + 1
  /\ CancelInputWait(t)

\* The oldest members of S beyond the newest n, by endedAt; equal times are
\* cut in any order.
Oldest(S, n) ==
  {D \in SUBSET S : /\ \A d \in D, k \in S \ D : endedAt[d] <= endedAt[k]
                    /\ D = {} \/ Cardinality(S \ D) = n
                    /\ Cardinality(S \ D) <= n}

Stored == {t \in Tasks : result[t] # "ABSENT"}

\* taskIdsToDelete of a listing of S, which shows its newest ListLimit results.
ToDelete(S) == {D \ unseen : D \in Oldest(S, MaxResults), unseen \in Oldest(S, ListLimit)}

\* evictCompletedTasks: the age limit can cut anywhere below the capacity.
Completed == {t \in tasks : state[t] \in Terminal}
Evictable == UNION {Oldest(Completed, n) : n \in 0..MaxCompleted}
Evict(t) ==
  /\ tasks' = tasks \ {t}
  /\ stream' = [stream EXCEPT ![t] = "none"]

-----------------------------------------------------------------------------
(* start(): open the log, save the QUEUED record, publish the task in the  *)
(* map, submit it to the pool, remember its future, schedule its timeout.  *)

StarterGoes(t, from, to) ==
  /\ phase = "up"
  /\ starter[t] = from
  /\ starter' = [starter EXCEPT ![t] = to]

StartSave(t) ==
  /\ StarterGoes(t, "new", "put")
  /\ state' = [state EXCEPT ![t] = "QUEUED"]
  /\ SaveRecord(t, "QUEUED")
  /\ UNCHANGED <<result, retired, phase, tasks, cancelRequested, futureSet, inputVars, assembled,
                 stream, timeVars, worker, timer, answer, holdVars, recovering, boundVars>>

StartSaveFails(t) ==
  /\ StarterGoes(t, "new", "refused")
  /\ Fault
  /\ UNCHANGED <<disk, phase, taskVars, worker, timer, answer, holdVars, recovering, crashes>>

StartPut(t) ==
  /\ StarterGoes(t, "put", "submit")
  /\ tasks' = tasks \cup {t}
  /\ UNCHANGED <<disk, phase, state, cancelRequested, futureSet, inputVars, assembled, stream,
                 timeVars, worker, timer, answer, holdVars, recovering, boundVars>>

\* The pool holds PoolSize running jobs and QueueCapacity waiting ones; a
\* cancelled future still occupies its place in the queue.
Outstanding == {t \in Tasks : worker[t] \notin {"none", "done"}}
Busy == {t \in Tasks : worker[t] \notin {"none", "queued", "discarded", "done"}}

StartSubmit(t) ==
  /\ StarterGoes(t, "submit", "setFuture")
  /\ Cardinality(Outstanding) < PoolSize + QueueCapacity
  /\ worker' = [worker EXCEPT ![t] = "queued"]
  /\ UNCHANGED <<disk, phase, taskVars, timer, answer, holdVars, recovering, boundVars>>

\* RejectedExecutionException: the task leaves the map, its QUEUED record stays.
StartRejected(t) ==
  /\ StarterGoes(t, "submit", "refused")
  /\ Cardinality(Outstanding) >= PoolSize + QueueCapacity
  /\ tasks' = tasks \ {t}
  /\ UNCHANGED <<disk, phase, state, cancelRequested, futureSet, inputVars, assembled, stream,
                 timeVars, worker, timer, answer, holdVars, recovering, boundVars>>

StartSetFuture(t) ==
  /\ StarterGoes(t, "setFuture", "schedule")
  /\ futureSet' = futureSet \cup {t}
  /\ UNCHANGED <<disk, phase, tasks, state, cancelRequested, inputVars, assembled, stream,
                 timeVars, worker, timer, answer, holdVars, recovering, boundVars>>

StartSchedule(t) ==
  /\ StarterGoes(t, "schedule", "returned")
  /\ timer' = [timer EXCEPT ![t] = "armed"]
  /\ UNCHANGED <<disk, phase, taskVars, worker, answer, holdVars, recovering, boundVars>>

-----------------------------------------------------------------------------
(* execute(): the worker.                                                  *)

WorkerGoes(t, from, to) ==
  /\ phase = "up"
  /\ worker[t] = from
  /\ worker' = [worker EXCEPT ![t] = to]

\* A pool thread polls the queue; a cancelled future returns at once.
WorkerTake(t) ==
  /\ Cardinality(Busy) < PoolSize
  /\ \/ WorkerGoes(t, "queued", "taken")
     \/ WorkerGoes(t, "discarded", "done")
  /\ UNCHANGED <<disk, phase, taskVars, starter, timer, answer, holdVars, recovering, boundVars>>

MarkRunning(t) ==
  /\ phase = "up"
  /\ worker[t] = "taken"
  /\ IF state[t] = "QUEUED"
     THEN /\ state' = [state EXCEPT ![t] = "RUNNING"]
          /\ worker' = [worker EXCEPT ![t] = "snapRunning"]
     ELSE /\ worker' = [worker EXCEPT ![t] = "script"]
          /\ UNCHANGED state
  /\ UNCHANGED <<disk, phase, tasks, cancelRequested, futureSet, inputVars, assembled, stream,
                 timeVars, starter, timer, answer, holdVars, recovering, boundVars>>

\* taskStore.save(ScriptTaskRecord.from(task.snapshot())): the snapshot is
\* taken under the monitor, the save is not.
AfterSnapshot == [snapRunning |-> "saveRunning", snapAsk |-> "saveAsk", snapResume |-> "saveResume"]
AfterSave == [saveRunning |-> "publishStarted", saveAsk |-> "publishAsk", saveResume |-> "publishResume"]

WorkerSnapshot(t) ==
  /\ \E pc \in DOMAIN AfterSnapshot : WorkerGoes(t, pc, AfterSnapshot[pc])
  /\ workerHolds' = [workerHolds EXCEPT ![t] = state[t]]
  /\ UNCHANGED <<disk, phase, taskVars, starter, timer, answer, timerHolds, answerHolds,
                 recovering, boundVars, passVars>>

WorkerSave(t) ==
  /\ \E pc \in DOMAIN AfterSave : WorkerGoes(t, pc, AfterSave[pc])
  /\ SaveRecord(t, workerHolds[t])
  /\ workerHolds' = [workerHolds EXCEPT ![t] = "ABSENT"]
  /\ UNCHANGED <<result, retired, phase, taskVars, starter, timer, answer, timerHolds, answerHolds,
                 recovering, boundVars, passVars>>

\* A failed save leaves execute() before the script has run; inside input()
\* the script sees the exception.
WorkerSaveFails(t) ==
  /\ \/ WorkerGoes(t, "saveRunning", "done")
     \/ \E pc \in {"saveAsk", "saveResume"} : WorkerGoes(t, pc, "script")
  /\ workerHolds' = [workerHolds EXCEPT ![t] = "ABSENT"]
  /\ Fault
  /\ UNCHANGED <<disk, phase, taskVars, starter, timer, answer, timerHolds, answerHolds, recovering,
                 crashes, passVars>>

\* lifecycleEffects.started: the assembler or the publisher throws once the
\* timeout has completed the task, and execute() ends without running it.
PublishStarted(t) ==
  IF t \in assembled \/ ~Publishable(t)
  THEN /\ WorkerGoes(t, "publishStarted", "done")
       /\ UNCHANGED <<disk, phase, taskVars, starter, timer, answer, holdVars, recovering, boundVars>>
  ELSE /\ WorkerGoes(t, "publishStarted", "script")
       /\ Publish(t)
       /\ UNCHANGED <<disk, phase, tasks, state, cancelRequested, futureSet, inputVars, assembled,
                      timeVars, starter, timer, answer, holdVars, recovering, boundVars>>

\* log(), record() or progress(): the event is captured while the log and the
\* assembler are open, or the task not terminal, and published afterwards.
Emit(t) ==
  /\ \/ t \notin assembled
     \/ t \notin cancelRequested /\ state[t] \notin Terminal
  /\ WorkerGoes(t, "script", "emit")
  /\ UNCHANGED <<disk, phase, taskVars, starter, timer, answer, holdVars, recovering, boundVars>>

AfterPublish == [emit |-> "script", publishAsk |-> "enterAwait", publishResume |-> "script"]

WorkerPublish(t) ==
  \E pc \in DOMAIN AfterPublish :
    IF Publishable(t)
    THEN /\ WorkerGoes(t, pc, AfterPublish[pc])
         /\ Publish(t)
         /\ UNCHANGED <<disk, phase, tasks, state, cancelRequested, futureSet, inputVars, assembled,
                        timeVars, starter, timer, answer, holdVars, recovering, boundVars>>
    ELSE /\ WorkerGoes(t, pc, "script")
         /\ UNCHANGED <<disk, phase, taskVars, starter, timer, answer, holdVars, recovering,
                        boundVars>>

\* input(): the request is registered first and awaited after it is public.
RequestInput(t) ==
  /\ WorkerGoes(t, "script", "snapAsk")
  /\ t \notin cancelRequested
  /\ state[t] = "RUNNING"
  /\ inputs[t] < MaxInputs
  /\ state' = [state EXCEPT ![t] = "PENDING_INPUT"]
  /\ inputs' = [inputs EXCEPT ![t] = @ + 1]
  /\ openInput' = [openInput EXCEPT ![t] = inputs[t] + 1]
  /\ response' = [response EXCEPT ![t] = "none"]
  /\ UNCHANGED <<disk, phase, tasks, cancelRequested, futureSet, assembled, stream, timeVars,
                 starter, timer, answer, holdVars, recovering, boundVars>>

\* awaitInput() reads inputWait again; a request that is already closed makes
\* it throw into the script.
EnterAwait(t) ==
  /\ WorkerGoes(t, "enterAwait", IF openInput[t] = inputs[t] THEN "await" ELSE "script")
  /\ UNCHANGED <<disk, phase, taskVars, starter, timer, answer, holdVars, recovering, boundVars>>

\* Mutant: the waiting future is never completed.
ResolveSilently(t) ==
  /\ state[t] = "PENDING_INPUT"
  /\ openInput[t] = inputs[t]
  /\ state' = [state EXCEPT ![t] = "RUNNING"]
  /\ openInput' = [openInput EXCEPT ![t] = 0]
  /\ UNCHANGED <<inputs, response>>

\* The wait ends with the answer, with the cancellation, or at the request's
\* deadline with the default answer.
Resolve(t) ==
  /\ state[t] = "PENDING_INPUT"
  /\ openInput[t] = inputs[t]
  /\ state' = [state EXCEPT ![t] = "RUNNING"]
  /\ openInput' = [openInput EXCEPT ![t] = 0]
  /\ response' = [response EXCEPT ![t] = "value"]
  /\ UNCHANGED inputs

AwaitReturns(t) ==
  /\ \/ response[t] = "value" /\ WorkerGoes(t, "await", "checkResume")
     \/ /\ response[t] = "cancelled" \/ t \in cancelRequested \cap futureSet
        /\ WorkerGoes(t, "await", "script")
  /\ UNCHANGED <<disk, phase, taskVars, starter, timer, answer, holdVars, recovering, boundVars>>

AwaitDeadline(t) ==
  /\ WorkerGoes(t, "await", "checkResume")
  /\ Resolve(t)
  /\ UNCHANGED <<disk, phase, tasks, cancelRequested, futureSet, assembled, stream, timeVars,
                 starter, timer, answer, holdVars, recovering, boundVars>>

CheckResume(t) ==
  /\ WorkerGoes(t, "checkResume", IF state[t] = "RUNNING" THEN "snapResume" ELSE "script")
  /\ UNCHANGED <<disk, phase, taskVars, starter, timer, answer, holdVars, recovering, boundVars>>

\* The script ends and task.finish() decides: a cancelled script is CANCELLED
\* whatever it returned, and a task already terminal keeps its outcome.
FinalState(t, succeeded) ==
  IF t \in cancelRequested THEN "CANCELLED" ELSE IF succeeded THEN "COMPLETED" ELSE "FAILED"

\* Mutant: completes a task the timeout has already completed.
FinishAgain(t, succeeded) ==
  /\ WorkerGoes(t, "script", "complete")
  /\ Decide(t, FinalState(t, succeeded))
  /\ workerHolds' = [workerHolds EXCEPT ![t] = FinalState(t, succeeded)]
  /\ UNCHANGED <<disk, phase, tasks, cancelRequested, futureSet, assembled, stream, starter,
                 timer, answer, timerHolds, answerHolds, recovering, boundVars, passVars>>

Finish(t, succeeded) ==
  IF state[t] \in Terminal
  THEN /\ WorkerGoes(t, "script", "done")
       /\ UNCHANGED <<disk, phase, taskVars, starter, timer, answer, holdVars, recovering, boundVars>>
  ELSE /\ WorkerGoes(t, "script", "complete")
       /\ Decide(t, FinalState(t, succeeded))
       /\ workerHolds' = [workerHolds EXCEPT ![t] = FinalState(t, succeeded)]
       /\ UNCHANGED <<disk, phase, tasks, cancelRequested, futureSet, assembled, stream, starter,
                      timer, answer, timerHolds, answerHolds, recovering, boundVars, passVars>>

-----------------------------------------------------------------------------
(* timeout(): one scheduler thread serves the deadlines of all tasks.      *)

TimerFree == \A t \in Tasks : timer[t] \notin Completing

\* Mutant: times out a task that has already ended.
TimerFiresAlways(t) ==
  /\ phase = "up"
  /\ timer[t] = "armed"
  /\ TimerFree
  /\ timer' = [timer EXCEPT ![t] = "complete"]
  /\ cancelRequested' = cancelRequested \cup {t}
  /\ CancelFuture(t)
  /\ Decide(t, "TIMED_OUT")
  /\ timerHolds' = [timerHolds EXCEPT ![t] = "TIMED_OUT"]
  /\ UNCHANGED <<disk, phase, tasks, futureSet, assembled, stream, starter, answer, workerHolds,
                 answerHolds, recovering, boundVars, passVars>>

\* Mutant: leaves a task that is being cancelled to its worker.
TimerIgnoresCancelling(t) ==
  /\ TimerFiresAlways(t)
  /\ state[t] \notin Terminal \cup {"CANCELLING"}

TimerFires(t) ==
  /\ phase = "up"
  /\ timer[t] = "armed"
  /\ TimerFree
  /\ IF state[t] \in Terminal
     THEN /\ timer' = [timer EXCEPT ![t] = "done"]
          /\ UNCHANGED <<state, timeVars, inputVars, cancelRequested, worker, timerHolds>>
     ELSE /\ timer' = [timer EXCEPT ![t] = "complete"]
          /\ cancelRequested' = cancelRequested \cup {t}
          /\ CancelFuture(t)
          /\ Decide(t, "TIMED_OUT")
          /\ timerHolds' = [timerHolds EXCEPT ![t] = "TIMED_OUT"]
  /\ UNCHANGED <<disk, phase, tasks, futureSet, assembled, stream, starter, answer, workerHolds,
                 answerHolds, recovering, boundVars, passVars>>

-----------------------------------------------------------------------------
(* The thread a that holds an outcome: lifecycleEffects.complete(), then    *)
(* saveResult().                                                           *)

OutcomeThread == {"worker", "timer"}

OutcomeGoes(t, a, from, to) ==
  /\ phase = "up"
  /\ a = "worker" => worker[t] = from
  /\ a = "timer" => timer[t] = from
  /\ worker' = IF a = "worker" THEN [worker EXCEPT ![t] = to] ELSE worker
  /\ timer' = IF a = "timer" THEN [timer EXCEPT ![t] = to] ELSE timer

\* Mutant: the timer stores what the worker last held.
HeldByWorker(t, a) == workerHolds[t]

Held(t, a) == IF a = "worker" THEN workerHolds[t] ELSE timerHolds[t]

Complete(t, a) ==
  IF t \in assembled \/ ~Publishable(t)
  THEN /\ OutcomeGoes(t, a, "complete", "done")
       /\ UNCHANGED <<disk, phase, taskVars, starter, answer, holdVars, recovering, boundVars>>
  ELSE /\ OutcomeGoes(t, a, "complete", "saveResult")
       /\ assembled' = assembled \cup {t}
       /\ PublishTerminal(t)
       /\ UNCHANGED <<disk, phase, tasks, state, cancelRequested, futureSet, inputVars, timeVars,
                      starter, answer, holdVars, recovering, boundVars>>

SaveResult(t, a) ==
  /\ OutcomeGoes(t, a, "saveResult", "saveRecord")
  /\ result' = [result EXCEPT ![t] = Held(t, a)]
  /\ UNCHANGED <<record, retired, phase, taskVars, starter, answer, holdVars, recovering, boundVars>>

\* Mutant: the catalogue is not told of the outcome.
SaveRecordForgotten(t, a) ==
  /\ OutcomeGoes(t, a, "saveRecord", "list")
  /\ UNCHANGED <<disk, phase, taskVars, starter, answer, holdVars, recovering, boundVars>>

SaveTerminalRecord(t, a) ==
  /\ OutcomeGoes(t, a, "saveRecord", "list")
  /\ SaveRecord(t, Held(t, a))
  /\ UNCHANGED <<result, retired, phase, taskVars, starter, answer, holdVars, recovering, boundVars>>

SaveFails(t, a) ==
  /\ \E pc \in {"saveResult", "saveRecord", "list", "delete"} : OutcomeGoes(t, a, pc, "done")
  /\ Fault
  /\ looked' = [looked EXCEPT ![t] = {}] /\ chosen' = [chosen EXCEPT ![t] = {}]
  /\ UNCHANGED <<disk, phase, taskVars, starter, answer, workerHolds, timerHolds, answerHolds, recovering, crashes>>

\* Retention lists the results directory by directory while other threads
\* store and delete, then deletes whole directories one by one, the newest of
\* its choice first, whatever has happened since it listed them.
PassStays == UNCHANGED <<record, result, retired, phase, state, cancelRequested, futureSet, inputVars, assembled,
                         timeVars, starter, answer, workerHolds, timerHolds, answerHolds, recovering, boundVars>>

ListNext(t, a) ==
  /\ OutcomeGoes(t, a, "list", "list")
  /\ \E u \in Tasks \ looked[t] :
       /\ looked' = [looked EXCEPT ![t] = @ \cup {u}]
       /\ chosen' = [chosen EXCEPT ![t] = @ \cup ({u} \cap Stored)]
  /\ UNCHANGED <<tasks, stream>> /\ PassStays

Choose(t, a) ==
  /\ OutcomeGoes(t, a, "list", "delete")
  /\ looked[t] = Tasks
  /\ looked' = [looked EXCEPT ![t] = {}]
  /\ \E D \in ToDelete(chosen[t]) : chosen' = [chosen EXCEPT ![t] = D]
  /\ UNCHANGED <<tasks, stream>> /\ PassStays

\* Mutant: takes as many as it chose from what is the oldest by then.
DeleteOldestNow(t, a) ==
  /\ OutcomeGoes(t, a, "delete", "delete")
  /\ \E u \in chosen[t], v \in Stored :
       /\ \A k \in Stored : endedAt[v] <= endedAt[k]
       /\ result' = [result EXCEPT ![v] = "ABSENT"]
       /\ record' = [record EXCEPT ![v] = "ABSENT"]
       /\ retired' = retired \cup {v}
       /\ chosen' = [chosen EXCEPT ![t] = @ \ {u}]
  /\ UNCHANGED <<phase, taskVars, starter, answer, workerHolds, timerHolds, answerHolds, looked, recovering,
                 boundVars>>

Delete(t, a) ==
  /\ OutcomeGoes(t, a, "delete", "delete")
  /\ \E u \in chosen[t] :
       /\ \A v \in chosen[t] : endedAt[v] <= endedAt[u]
       /\ result' = [result EXCEPT ![u] = "ABSENT"]
       /\ record' = [record EXCEPT ![u] = "ABSENT"]
       /\ retired' = retired \cup {u}
       /\ chosen' = [chosen EXCEPT ![t] = @ \ {u}]
  /\ UNCHANGED <<phase, taskVars, starter, answer, workerHolds, timerHolds, answerHolds, looked, recovering,
                 boundVars>>

\* evictCompletedTasks picks from the map, then removes one task after the
\* other, unless another thread has; what has ended stays ended.
ChooseEvicted(t, a) ==
  /\ OutcomeGoes(t, a, "delete", "evict")
  /\ chosen[t] = {}
  /\ \E E \in Evictable : chosen' = [chosen EXCEPT ![t] = E]
  /\ UNCHANGED <<tasks, stream, looked>> /\ PassStays

EvictNext(t, a) ==
  /\ OutcomeGoes(t, a, "evict", "evict")
  /\ \E u \in chosen[t] :
       /\ IF u \in Completed THEN Evict(u) ELSE UNCHANGED <<tasks, stream>>
       /\ chosen' = [chosen EXCEPT ![t] = @ \ {u}]
  /\ UNCHANGED looked /\ PassStays

Finished(t, a) ==
  /\ OutcomeGoes(t, a, "evict", "done")
  /\ chosen[t] = {}
  /\ UNCHANGED <<tasks, stream, passVars>> /\ PassStays

-----------------------------------------------------------------------------
(* Requests of clients.                                                    *)

\* Mutant: reports the end of execution when it is only requested.
CancelAtOnce(t) ==
  /\ phase = "up"
  /\ t \in tasks
  /\ state[t] \notin Terminal
  /\ cancelRequested' = cancelRequested \cup {t}
  /\ state' = [state EXCEPT ![t] = "CANCELLED"]
  /\ CancelInputWait(t)
  /\ CancelFuture(t)
  /\ SaveRecord(t, "CANCELLED") /\ Publish(t)
  /\ UNCHANGED <<result, retired, phase, tasks, futureSet, assembled, timeVars, starter, timer,
                 answer, holdVars, recovering, boundVars>>

\* cancel(): transition, record and event inside the task monitor.
Cancel(t) ==
  /\ phase = "up"
  /\ t \in tasks
  /\ state[t] \notin Terminal \cup {"CANCELLING"}
  /\ cancelRequested' = cancelRequested \cup {t}
  /\ state' = [state EXCEPT ![t] = "CANCELLING"]
  /\ CancelInputWait(t)
  /\ CancelFuture(t)
  /\ \/ SaveRecord(t, "CANCELLING") /\ Publish(t) /\ UNCHANGED faults
     \/ Fault /\ UNCHANGED <<record, stream>>
  /\ UNCHANGED <<result, retired, phase, tasks, futureSet, assembled, timeVars, starter, timer,
                 answer, holdVars, recovering, crashes>>

\* submitInput() for the request in progress; any other request id is refused.
Answer(t) ==
  /\ phase = "up"
  /\ t \in tasks
  /\ answer[t] = "idle"
  /\ Resolve(t)
  /\ answer' = [answer EXCEPT ![t] = "snap"]
  /\ UNCHANGED <<disk, phase, tasks, cancelRequested, futureSet, assembled, stream, timeVars,
                 starter, worker, timer, holdVars, recovering, boundVars>>

AnswerSnapshot(t) ==
  /\ phase = "up"
  /\ answer[t] = "snap"
  /\ answer' = [answer EXCEPT ![t] = "save"]
  /\ answerHolds' = [answerHolds EXCEPT ![t] = state[t]]
  /\ UNCHANGED <<disk, phase, taskVars, starter, worker, timer, workerHolds, timerHolds,
                 recovering, boundVars, passVars>>

AnswerSave(t) ==
  /\ phase = "up"
  /\ answer[t] = "save"
  /\ answer' = [answer EXCEPT ![t] = "idle"]
  /\ \/ SaveRecord(t, answerHolds[t]) /\ UNCHANGED faults
     \/ Fault /\ UNCHANGED record
  /\ answerHolds' = [answerHolds EXCEPT ![t] = "ABSENT"]
  /\ UNCHANGED <<result, retired, phase, taskVars, starter, worker, timer, workerHolds, timerHolds,
                 recovering, crashes, passVars>>

\* getTask() evicts before it looks the task up: a removal of its pass, which
\* may be of any completed task, as any may have expired.
GetTask ==
  /\ phase = "up"
  /\ \E t \in Completed : Evict(t)
  /\ UNCHANGED <<disk, phase, state, cancelRequested, futureSet, inputVars, assembled, timeVars,
                 pcVars, holdVars, recovering, boundVars>>

-----------------------------------------------------------------------------
(* The process stops at any point and comes back.                          *)

Crash ==
  /\ phase # "down"
  /\ crashes < MaxCrashes
  /\ crashes' = crashes + 1
  /\ phase' = "down"
  /\ tasks' = {}
  /\ state' = [t \in Tasks |-> "ABSENT"]
  /\ cancelRequested' = {}
  /\ futureSet' = {}
  /\ inputs' = [t \in Tasks |-> 0]
  /\ openInput' = [t \in Tasks |-> 0]
  /\ response' = [t \in Tasks |-> "none"]
  /\ assembled' = {}
  /\ stream' = [t \in Tasks |-> "none"]
  /\ starter' = [t \in Tasks |-> IF starter[t] = "new" THEN "new" ELSE "gone"]
  /\ worker' = [t \in Tasks |-> "none"]
  /\ timer' = [t \in Tasks |-> "off"]
  /\ answer' = [t \in Tasks |-> "idle"]
  /\ workerHolds' = [t \in Tasks |-> "ABSENT"]
  /\ timerHolds' = [t \in Tasks |-> "ABSENT"]
  /\ answerHolds' = [t \in Tasks |-> "ABSENT"]
  /\ looked' = [t \in Tasks |-> {}]
  /\ chosen' = [t \in Tasks |-> {}]
  /\ recovering' = {}
  /\ UNCHANGED <<disk, timeVars, faults>>

Restart ==
  /\ phase = "down"
  /\ phase' = "recovering"
  /\ clock' = clock + 1
  /\ UNCHANGED <<disk, tasks, state, cancelRequested, futureSet, inputVars, assembled, stream,
                 endedAt, pcVars, holdVars, recovering, boundVars>>

\* recoverInterruptedTasks(): for each non-terminal record a result, then the
\* record.  All get one instant: listings sort equal instants in the order of
\* the directory, which is the same for all of them, so here later ones are newer.
RecoverResult(t) ==
  /\ phase = "recovering"
  /\ record[t] \in Active
  /\ t \notin recovering
  /\ result' = [result EXCEPT ![t] = "INTERRUPTED"]
  /\ endedAt' = [endedAt EXCEPT ![t] = clock]
  /\ clock' = clock + 1
  /\ recovering' = recovering \cup {t}
  /\ UNCHANGED <<record, retired, phase, tasks, state, cancelRequested, futureSet, inputVars,
                 assembled, stream, pcVars, holdVars, boundVars>>

\* Mutant: what was interrupted is listed as failed.
RecoverRecordFailed(t) ==
  /\ phase = "recovering"
  /\ t \in recovering
  /\ SaveRecord(t, "FAILED")
  /\ recovering' = recovering \ {t}
  /\ UNCHANGED <<result, retired, phase, taskVars, pcVars, holdVars, boundVars>>

RecoverRecord(t) ==
  /\ phase = "recovering"
  /\ t \in recovering
  /\ SaveRecord(t, "INTERRUPTED")
  /\ recovering' = recovering \ {t}
  /\ UNCHANGED <<result, retired, phase, taskVars, pcVars, holdVars, boundVars>>

\* Mutant: only RUNNING work counts as interrupted.
OpenAfterRunning ==
  /\ phase = "recovering"
  /\ \A t \in Tasks : record[t] # "RUNNING"
  /\ phase' = "up"
  /\ clock' = clock + 1
  /\ recovering' = {}
  /\ UNCHANGED <<disk, tasks, state, cancelRequested, futureSet, inputVars, assembled, stream,
                 endedAt, pcVars, holdVars, boundVars>>

Open ==
  /\ phase = "recovering"
  /\ \A t \in Tasks : record[t] \notin Active
  /\ phase' = "up"
  /\ clock' = clock + 1
  /\ UNCHANGED <<disk, tasks, state, cancelRequested, futureSet, inputVars, assembled, stream,
                 endedAt, pcVars, holdVars, recovering, boundVars>>

-----------------------------------------------------------------------------
StartStep(t) ==
  \/ StartSave(t) \/ StartSaveFails(t) \/ StartPut(t) \/ StartSubmit(t)
  \/ StartRejected(t) \/ StartSetFuture(t) \/ StartSchedule(t)

ScriptStep(t) == Emit(t) \/ RequestInput(t) \/ \E succeeded \in BOOLEAN : Finish(t, succeeded)

WorkerStep(t) ==
  \/ WorkerTake(t) \/ MarkRunning(t) \/ WorkerSnapshot(t) \/ WorkerSave(t) \/ WorkerSaveFails(t)
  \/ PublishStarted(t) \/ WorkerPublish(t) \/ EnterAwait(t) \/ AwaitReturns(t)
  \/ AwaitDeadline(t) \/ CheckResume(t)

OutcomeStep(t) ==
  \E a \in OutcomeThread :
    Complete(t, a) \/ SaveResult(t, a) \/ SaveTerminalRecord(t, a) \/ SaveFails(t, a)
    \/ ListNext(t, a) \/ Choose(t, a) \/ Delete(t, a) \/ ChooseEvicted(t, a) \/ EvictNext(t, a) \/ Finished(t, a)

ClientStep(t) == Cancel(t) \/ Answer(t) \/ AnswerSnapshot(t) \/ AnswerSave(t)

RecoveryStep == Restart \/ Open \/ \E t \in Tasks : RecoverResult(t) \/ RecoverRecord(t)

Next ==
  \/ \E t \in Tasks :
       \/ StartStep(t) \/ ScriptStep(t) \/ WorkerStep(t) \/ TimerFires(t)
       \/ OutcomeStep(t) \/ ClientStep(t)
  \/ GetTask
  \/ Crash
  \/ RecoveryStep

\* Fairness: threads that hold a runnable step take it, the scheduler serves
\* deadlines, a stopped process is started again.  Nothing is assumed of the
\* script (it may loop), of clients, of crashes and of I/O errors.
Fairness ==
  /\ \A t \in Tasks :
       /\ WF_vars(StartStep(t) /\ starter[t] # "new")
       /\ WF_vars(WorkerStep(t))
       /\ WF_vars(OutcomeStep(t))
  /\ WF_vars(\E t \in Tasks : TimerFires(t))
  /\ WF_vars(RecoveryStep)

SafetySpec == Init /\ [][Next]_vars
Spec == SafetySpec /\ Fairness

-----------------------------------------------------------------------------
(* Safety.                                                                 *)

\* "Terminal transitions return immutable data for a lifecycle collaborator to
\* process exactly once" (RunningScriptTask): the worker and the timer never
\* both hold the outcome of one task.
OneCompletion == \A t \in Tasks : ~(worker[t] \in Completing /\ timer[t] \in Completing)

\* What result.json says of a task of this process is what its clients were
\* told in memory and over the event stream.
ResultIsOutcome ==
  \A t \in Tasks : state[t] # "ABSENT" /\ result[t] # "ABSENT" => result[t] = state[t]

\* A task of this process that is terminal and that no thread is completing
\* has its result stored, unless retention took it or a save failed.
SettledOutcome ==
  \A t \in Tasks :
    state[t] \in Terminal /\ worker[t] \notin Completing /\ timer[t] \notin Completing
      => result[t] = state[t] \/ t \in retired \/ faults > 0

\* "A task becomes CANCELLED only after execution exits" (README).
CancelledAfterExit ==
  \A t \in Tasks : state[t] = "CANCELLED" => worker[t] \in Completing \cup {"done"}

\* ScriptTaskSnapshot refuses a PENDING_INPUT task without a request and a
\* request on any other task, so every snapshot() depends on this.
SnapshotValid == \A t \in Tasks : state[t] = "PENDING_INPUT" <=> openInput[t] # 0

\* A worker blocked on operator input can always be answered or has been
\* released: no transition forgets it.
WaiterReleased ==
  \A t \in Tasks : worker[t] = "await" =>
    (state[t] = "PENDING_INPUT" /\ openInput[t] = inputs[t]) \/ response[t] # "none"

\* Whom an active record is of.  One of a task that has ended is about to be
\* replaced, or a save failed, or a thread that did not end the task saved what
\* it had seen earlier: a worker the timeout overtook, or a resumed input.
OfLiveTask(t) == t \in tasks /\ state[t] \notin Terminal
OfStart(t) == starter[t] = "put"
OfRefusal(t) == starter[t] = "refused" /\ record[t] \in {"QUEUED", "CANCELLING"}
SavingRecord(t) == {worker[t], timer[t]} \cap {"complete", "saveResult", "saveRecord"} # {}
OfEndedTask(t) ==
  state[t] \in Terminal /\ (SavingRecord(t) \/ faults > 0 \/ state[t] = "TIMED_OUT" \/ inputs[t] > 0)

\* While the process serves, an active record is of a task it runs, and that
\* will end; or it stays until the next restart because its submission was
\* refused or because a thread saved late.  There is none of an earlier process
\* and none of a task that ended by itself without ever asking for input.
ActiveRecordIsExplained ==
  phase = "up" =>
    \A t \in Tasks : record[t] \in Active => OfLiveTask(t) \/ OfStart(t) \/ OfRefusal(t) \/ OfEndedTask(t)

\* A task ends once, with the outcome its clients are told and its directory
\* keeps, and as CANCELLED only when nothing of it runs any more.
EndsOnce == OneCompletion /\ CancelledAfterExit
OutcomeIsKept == ResultIsOutcome /\ SettledOutcome

\* Operator input never gets stuck: a task that asks has a request to answer
\* and a worker that waits has one, or has its answer.
InputIsSound == SnapshotValid /\ WaiterReleased

-----------------------------------------------------------------------------
(* The promise.                                                            *)

Contract == INSTANCE TaskContract WITH life <- state, stored <- result

\* Every thread interleaving, crash and restart of ScriptTasks is a behaviour
\* of TaskContract.
RunnerKeepsContract == Contract!Spec

-----------------------------------------------------------------------------
(* Steps.                                                                  *)

\* While the process runs a terminal state is final.
TerminalIsFinal ==
  [][\A t \in Tasks : state[t] \in Terminal => state'[t] \in {state[t], "ABSENT"}]_vars

\* A result is deleted only while MaxResults newer ones are kept, also by a
\* thread that listed them before other threads stored and deleted.
RetentionKeepsRecent ==
  [][\A t \in Tasks : result[t] # "ABSENT" /\ result'[t] = "ABSENT" =>
       Cardinality({u \in Tasks : result'[u] # "ABSENT" /\ endedAt[u] > endedAt[t]}) >= MaxResults]_vars

-----------------------------------------------------------------------------
(* What the repository states and the code does not keep.                  *)

\* FileScriptTaskStore.save: racing saves of one task would end "corrupting or
\* losing the write" and are serialized against it.  A terminal record is not
\* overwritten by an older, non-terminal one.
TerminalRecordKept ==
  [][\A t \in Tasks : record[t] \in Terminal => record'[t] \notin Active]_vars

-----------------------------------------------------------------------------
(* Progress.                                                               *)

\* Every accepted task ends, also when its script never does, when it was
\* cancelled in the queue and when its worker gave up, unless the process dies.
AcceptedTaskEnds ==
  \A t \in Tasks : starter[t] = "returned" ~> state[t] \in Terminal \/ phase = "down"

\* Work a crash interrupted gets an INTERRUPTED record after the restart.
InterruptedTaskRecovered ==
  \A t \in Tasks : phase = "down" /\ record[t] \in Active ~> record[t] = "INTERRUPTED"
=============================================================================
