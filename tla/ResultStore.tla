----------------------------- MODULE ResultStore -----------------------------
(***************************************************************************)
(* The directory of a task: its record (task.json), its result and the     *)
(* index of the result (summary.json), and the captured series.  Threads   *)
(* that complete tasks save there and delete the directories of old tasks, *)
(* requests list it, and a crash may come between any two file operations. *)
(* A file is written under a temporary name and moved into place, so what  *)
(* is read is one version of it; the files of a directory have no lock.    *)
(***************************************************************************)
EXTENDS Naturals, Sequences, FiniteSets

CONSTANTS
  Tasks, MaxResults,
  ListLimit,                \* the entries of a listing that no limit is asked for
  MaxLists, MaxCrashes      \* bounds: requests that list, crashes

VARIABLES dir,          \* what is on disk for each task
          thread,       \* the thread completing each task
          order,        \* the tasks by the time they ended
          reader,       \* a request that lists tasks, at the directory it looks at
          recover,      \* the tasks recovery still has to end, and its step
          touched,      \* directories written to again while they were being deleted
          left
vars == <<dir, thread, order, reader, recover, touched, left>>

Nothing == [there |-> FALSE, temp |-> FALSE, task |-> "none", summary |-> "none", result |-> "none", series |-> FALSE]
Active == [Nothing EXCEPT !.there = TRUE, !.task = "active", !.series = TRUE]
Regular(d) == d.result # "none" /\ d.summary # "none"     \* readSummary lists it
Listed == {t \in Tasks : Regular(dir[t])}
NotReading == [at |-> "idle", task |-> "none", found |-> "none"]
NotRecovering == [at |-> "idle", rest |-> {}, task |-> "none"]
Up == recover.at = "idle"
Over == [at |-> "done", victims |-> <<>>, files |-> {}]

Put(t, d) == dir' = [dir EXCEPT ![t] = d]
Go(t, step) == thread' = [thread EXCEPT ![t].at = step]
Victims == UNION {{thread[t].victims[i] : i \in DOMAIN thread[t].victims} : t \in Tasks}

-----------------------------------------------------------------------------
(* saveResult of one task that has ended: its index, its result, then the  *)
(* captured points it was written from are deleted, then the record.       *)
End(t) ==
  /\ Up /\ thread[t].at = "run" /\ Go(t, "summary")
  /\ order' = Append(order, t)
  /\ UNCHANGED <<dir, reader, recover, touched, left>>

SaveSummary(t) ==
  /\ thread[t].at = "summary" /\ Go(t, "result")
  /\ Put(t, [dir[t] EXCEPT !.there = TRUE, !.summary = "own"])
  /\ UNCHANGED <<order, reader, recover, touched, left>>
SaveResult(t) ==
  /\ thread[t].at = "result" /\ Go(t, "record")
  /\ Put(t, [dir[t] EXCEPT !.result = "own", !.series = FALSE])
  /\ UNCHANGED <<order, reader, recover, touched, left>>
SaveRecord(t) ==
  /\ thread[t].at = "record" /\ Go(t, "retain")
  /\ Put(t, [dir[t] EXCEPT !.there = TRUE, !.task = "own"])
  /\ touched' = IF t \in Victims \/ ~dir[t].there THEN touched \union {t} ELSE touched
  /\ UNCHANGED <<order, reader, recover, left>>

(* What is listed now, the most recent first and no more than the limit;   *)
(* taskIdsToDelete skips the results to keep and takes the others.         *)
After(t, u) == \E i, j \in DOMAIN order : i > j /\ order[i] = t /\ order[j] = u
Recent(ts) == {s \in [1..Cardinality(ts) -> ts] :
                 /\ \A t \in ts : \E i \in DOMAIN s : s[i] = t
                 /\ \A i, j \in DOMAIN s : i < j => After(s[i], s[j])}
Retain(t) ==
  /\ thread[t].at = "retain"
  /\ \E s \in Recent(Listed) :
       LET shown == IF Len(s) > ListLimit THEN ListLimit ELSE Len(s) IN
       thread' = [thread EXCEPT ![t] =
         [at |-> "walk", victims |-> SubSeq(s, MaxResults + 1, shown), files |-> {}]]
  /\ UNCHANGED <<dir, order, reader, recover, touched, left>>

(* delete: the paths the walk found, in reverse order of their names, and  *)
(* so the directory last.                                                  *)
Holds(d) == {f \in {"task", "summary", "result"} : d[f] # "none"}
            \union {f \in {"temp", "series"} : d[f]}
Place == [dir |-> 0, series |-> 1, result |-> 2, summary |-> 3, task |-> 4, temp |-> 5]
Walk(t) ==
  /\ thread[t].at = "walk" /\ thread[t].victims # <<>>
  /\ LET v == Head(thread[t].victims) IN
       IF dir[v].there
       THEN thread' = [thread EXCEPT ![t].at = "delete", ![t].files = Holds(dir[v]) \union {"dir"}]
       ELSE thread' = [thread EXCEPT ![t].victims = Tail(@)]
  /\ UNCHANGED <<dir, order, reader, recover, touched, left>>
IsEmpty(d) == Holds(d) = {}
Without(d, f) ==
  CASE f = "dir" -> IF IsEmpty(d) THEN Nothing ELSE d
    [] f \in {"temp", "series"} -> [d EXCEPT ![f] = FALSE]
    [] OTHER -> [d EXCEPT ![f] = "none"]
DeleteFile(t) ==
  /\ thread[t].at = "delete"
  /\ LET v == Head(thread[t].victims) IN
     \E f \in thread[t].files :
       /\ \A g \in thread[t].files : Place[g] <= Place[f]
       /\ Put(v, Without(dir[v], f))
       /\ thread' = [thread EXCEPT ![t] =
            IF f # "dir" THEN [at |-> "delete", victims |-> @.victims, files |-> @.files \ {f}]
            ELSE IF IsEmpty(dir[v]) THEN [at |-> "walk", victims |-> Tail(@.victims), files |-> {}]
            ELSE Over]
  /\ UNCHANGED <<order, reader, recover, touched, left>>
Retained(t) ==
  /\ thread[t].at = "walk" /\ thread[t].victims = <<>> /\ Go(t, "done")
  /\ UNCHANGED <<dir, order, reader, recover, touched, left>>

-----------------------------------------------------------------------------
(* readOrMigrate: a directory without a record that has a result is taken  *)
(* for one of an older release, and gets a record made from the result.    *)
Look(t) ==
  /\ Up /\ reader.at = "idle" /\ left.lists > 0 /\ left' = [left EXCEPT !.lists = @ - 1]
  /\ dir[t].task = "none" /\ reader' = [at |-> "legacy", task |-> t, found |-> "none"]
  /\ UNCHANGED <<dir, thread, order, recover, touched>>
ReadLegacy ==
  /\ reader.at = "legacy"
  /\ reader' = IF dir[reader.task].result = "none" THEN NotReading
               ELSE [reader EXCEPT !.at = "write", !.found = dir[reader.task].result]
  /\ UNCHANGED <<dir, thread, order, recover, touched, left>>
WriteMigrated ==
  /\ reader.at = "write" /\ reader' = [reader EXCEPT !.at = "move"]
  /\ Put(reader.task, [dir[reader.task] EXCEPT !.there = TRUE, !.temp = TRUE])
  /\ touched' = touched \union {reader.task}
  /\ UNCHANGED <<thread, order, recover, left>>
MoveMigrated ==
  /\ reader.at = "move" /\ reader' = NotReading
  /\ IF dir[reader.task].temp       \* it is gone if a deletion has found it
     THEN Put(reader.task, [dir[reader.task] EXCEPT !.temp = FALSE, !.task = reader.found])
     ELSE UNCHANGED dir
  /\ UNCHANGED <<thread, order, recover, touched, left>>

-----------------------------------------------------------------------------
(* A crash, and recoverInterruptedTasks before any request is served: each *)
(* task whose record is not terminal gets a result, and then its record.   *)
Crash ==
  /\ left.crashes > 0 /\ left' = [left EXCEPT !.crashes = @ - 1]
  /\ thread' = [t \in Tasks |-> Over]
  /\ touched' = touched \union Victims \union (IF reader.at = "move" THEN {reader.task} ELSE {})
  /\ reader' = NotReading
  /\ recover' = [at |-> "next", rest |-> {t \in Tasks : dir[t].task = "active"}, task |-> "none"]
  /\ UNCHANGED <<dir, order>>
RecoverNext(t) ==
  /\ recover.at = "next" /\ t \in recover.rest
  /\ recover' = [at |-> "summary", rest |-> recover.rest \ {t}, task |-> t]
  /\ UNCHANGED <<dir, thread, order, reader, touched, left>>
RecoverSummary ==
  /\ recover.at = "summary" /\ recover' = [recover EXCEPT !.at = "result"]
  /\ Put(recover.task, [dir[recover.task] EXCEPT !.summary = "interrupted"])
  /\ UNCHANGED <<thread, order, reader, touched, left>>
RecoverRecordFirst ==           \* mutant: the record is saved before the result
  /\ recover.at = "result" /\ recover' = [recover EXCEPT !.at = "record"]
  /\ Put(recover.task, [dir[recover.task] EXCEPT !.task = "interrupted"])
  /\ UNCHANGED <<thread, order, reader, touched, left>>
RecoverResult ==
  /\ recover.at = "result" /\ recover' = [recover EXCEPT !.at = "record"]
  /\ Put(recover.task, [dir[recover.task] EXCEPT !.result = "interrupted", !.series = FALSE])
  /\ UNCHANGED <<thread, order, reader, touched, left>>
RecoverRecord ==
  /\ recover.at = "record" /\ recover' = [recover EXCEPT !.at = "next"]
  /\ Put(recover.task, [dir[recover.task] EXCEPT !.task = "interrupted"])
  /\ order' = Append(SelectSeq(order, LAMBDA t : t # recover.task), recover.task)
  /\ UNCHANGED <<thread, reader, touched, left>>
Recovered ==
  /\ recover.at = "next" /\ recover.rest = {} /\ recover' = NotRecovering
  /\ UNCHANGED <<dir, thread, order, reader, touched, left>>

Init ==
  /\ dir = [t \in Tasks |-> Active] /\ order = <<>> /\ touched = {}
  /\ thread = [t \in Tasks |-> [Over EXCEPT !.at = "run"]]
  /\ reader = NotReading /\ recover = NotRecovering
  /\ left = [lists |-> MaxLists, crashes |-> MaxCrashes]
Next ==
  \/ \E t \in Tasks : \/ End(t) \/ SaveSummary(t) \/ SaveResult(t) \/ SaveRecord(t) \/ Retain(t) \/ Walk(t)
                      \/ DeleteFile(t) \/ Retained(t) \/ Look(t) \/ RecoverNext(t)
  \/ ReadLegacy \/ WriteMigrated \/ MoveMigrated
  \/ Crash \/ RecoverSummary \/ RecoverResult \/ RecoverRecord \/ Recovered
Spec == Init /\ [][Next]_vars

-----------------------------------------------------------------------------
(* Whatever crashes come, also during recovery: a task whose record says   *)
(* it has ended has the index, the result and the record of one outcome    *)
(* whenever all three can be read.  And once every completion is over,     *)
(* each task is either whole or gone, unless a request, its own completion *)
(* or a crash came between the steps of its deletion, and no more results  *)
(* are kept than the policy allows, unless that happened to any task or a  *)
(* listing could not show them all.                                        *)
ResultsAreWhole ==
  /\ \A t \in Listed : dir[t].task \notin {"active", "none"} =>
       dir[t].summary = dir[t].result /\ dir[t].task = dir[t].result
  /\ (\A t \in Tasks : thread[t].at = "done") /\ Up /\ left.crashes = MaxCrashes =>
       /\ touched = {} /\ Cardinality(Tasks) <= ListLimit => Cardinality(Listed) <= MaxResults
       /\ \A t \in Tasks \ touched : dir[t] = Nothing \/ (Regular(dir[t]) /\ dir[t].task = "own" /\ ~dir[t].series)
=============================================================================
