------------------------ MODULE UserScriptCatalogue ------------------------
(***************************************************************************)
(* User scripts on disk: one directory each, holding source.js and         *)
(* definition.json.  A new version is written to a temporary directory and *)
(* moved into place; a directory cannot be moved over one with files in    *)
(* it, so the old version is set aside under a fixed name first.  Writers  *)
(* hold a lock that keeps readers out; a crash drops it between any two    *)
(* file operations, and nothing is repaired when the process starts again. *)
(***************************************************************************)
EXTENDS Naturals

CONSTANTS Scripts, MaxVersion, MaxFaults, MaxCrashes

VARIABLES target, backup,     \* each script's directories
          temp,               \* the temporary directory of the operation in progress
          op,                 \* the operation holding the write lock
          acked,              \* the version each script's clients were told is stored; 0: none
          hurt,               \* scripts with an operation cut off by a crash or a failed repair
          left
vars == <<target, backup, temp, op, acked, hurt, left>>

Absent == [there |-> FALSE, source |-> 0, definition |-> 0]
Files(v) == [there |-> TRUE, source |-> v, definition |-> v]
Empty(d) == d.source = 0 /\ d.definition = 0
Readable(d) == d.there /\ d.source # 0 /\ d.definition # 0

Free == [at |-> "free", kind |-> "none", id |-> "none"]
At(step) == op.at = step
Goto(step) == op' = [op EXCEPT !.at = step]
s == op.id
Version == MaxVersion - left.versions       \* the one being written

(* The operation ends; its temporary directory is deleted if it failed.    *)
Done(version) == op' = Free /\ temp' = Absent /\ acked' = [acked EXCEPT ![s] = version]
Fails == op' = Free /\ temp' = Absent /\ UNCHANGED acked
Fault == left.faults > 0 /\ left' = [left EXCEPT !.faults = @ - 1]

Begin(kind, id, step) ==
  /\ op = Free
  /\ op' = [at |-> step, kind |-> kind, id |-> id]
  /\ UNCHANGED <<target, backup, temp, acked, hurt>>
NewVersion == left.versions > 0 /\ left' = [left EXCEPT !.versions = @ - 1]
Create(id) == ~target[id].there /\ acked[id] = 0 /\ id \notin hurt /\ NewVersion /\ Begin("create", id, "source")
Replace(id) == Readable(target[id]) /\ NewVersion /\ Begin("replace", id, "source")
Delete(id) == target[id].there /\ UNCHANGED left /\ Begin("delete", id, "remove")

(* writeDefinition: an error on the way ends the operation.                *)
WriteSource ==
  /\ At("source") /\ temp' = [Absent EXCEPT !.there = TRUE, !.source = Version] /\ Goto("definition")
  /\ UNCHANGED <<target, backup, acked, hurt, left>>
WriteMetadata ==
  /\ At("definition") /\ temp' = [temp EXCEPT !.definition = Version]
  /\ Goto(IF op.kind = "create" THEN "publish" ELSE "setAside")
  /\ UNCHANGED <<target, backup, acked, hurt, left>>
WriteFails ==
  /\ op.at \in {"source", "definition", "setAside"} /\ Fault /\ Fails
  /\ UNCHANGED <<target, backup, hurt>>

SetAside ==
  /\ At("setAside")
  /\ IF Empty(backup[s])
     THEN /\ backup' = [backup EXCEPT ![s] = target[s]] /\ target' = [target EXCEPT ![s] = Absent]
          /\ Goto("publish") /\ UNCHANGED <<temp, acked>>
     ELSE Fails /\ UNCHANGED <<target, backup>>
  /\ UNCHANGED <<hurt, left>>
Publish ==
  /\ At("publish")
  /\ target' = [target EXCEPT ![s] = temp]
  /\ IF op.kind = "create" THEN Done(Version) ELSE Goto("discard") /\ temp' = Absent /\ UNCHANGED acked
  /\ UNCHANGED <<backup, hurt, left>>

PublishFails ==
  /\ At("publish") /\ Fault
  /\ IF op.kind = "create" THEN Fails ELSE Goto("restore") /\ UNCHANGED <<temp, acked>>
  /\ UNCHANGED <<target, backup, hurt>>
Restore ==
  /\ At("restore") /\ Fails
  /\ target' = [target EXCEPT ![s] = backup[s]] /\ backup' = [backup EXCEPT ![s] = Absent]
  /\ UNCHANGED <<hurt, left>>
RestoreFails ==
  /\ At("restore") /\ Fault /\ Fails /\ hurt' = hurt \union {s}
  /\ UNCHANGED <<target, backup>>

(* deleteDirectory: source.js, definition.json and then the directory.     *)
Removed(d) == IF d.source # 0 THEN [d EXCEPT !.source = 0]
              ELSE IF d.definition # 0 THEN [d EXCEPT !.definition = 0] ELSE Absent
Discard ==
  /\ At("discard") /\ backup' = [backup EXCEPT ![s] = Removed(@)]
  /\ IF Removed(backup[s]).there THEN UNCHANGED <<op, temp, acked>> ELSE Done(Version)
  /\ UNCHANGED <<target, hurt, left>>
DiscardFails ==                 \* deleteQuietly: the replacement has succeeded
  /\ At("discard") /\ Fault /\ Done(Version) /\ hurt' = hurt \union {s}
  /\ UNCHANGED <<target, backup>>
Remove ==
  /\ At("remove") /\ target' = [target EXCEPT ![s] = Removed(@)]
  /\ IF Removed(target[s]).there THEN UNCHANGED <<op, temp, acked>> ELSE Done(0)
  /\ UNCHANGED <<backup, hurt, left>>
RemoveFails ==
  /\ At("remove") /\ Fault /\ Fails
  /\ hurt' = IF Readable(target[s]) THEN hurt ELSE hurt \union {s}
  /\ UNCHANGED <<target, backup>>

Crash ==
  /\ op # Free /\ left.crashes > 0 /\ left' = [left EXCEPT !.crashes = @ - 1]
  /\ op' = Free /\ temp' = Absent
  /\ hurt' = IF op.at \in {"source", "definition", "setAside"} \/ (op.kind = "create")
             THEN hurt ELSE hurt \union {s}
  /\ UNCHANGED <<target, backup, acked>>

Init ==
  /\ target = [i \in Scripts |-> Absent] /\ backup = target /\ temp = Absent
  /\ op = Free /\ acked = [i \in Scripts |-> 0] /\ hurt = {}
  /\ left = [versions |-> MaxVersion, faults |-> MaxFaults, crashes |-> MaxCrashes]
Next ==
  \/ \E id \in Scripts : Create(id) \/ Replace(id) \/ Delete(id)
  \/ WriteSource \/ WriteMetadata \/ WriteFails \/ SetAside \/ Publish \/ PublishFails \/ Restore \/ RestoreFails
  \/ Discard \/ DiscardFails \/ Remove \/ RemoveFails \/ Crash
Spec == Init /\ [][Next]_vars

-----------------------------------------------------------------------------
(* What a reader can read of a script is the version its clients were told *)
(* of, and the script can be replaced, unless a crash or a failed repair   *)
(* met its own replacement or removal; and never, not even then, is the    *)
(* source of one version read with the description of another.             *)
CatalogueIsWhole ==
  /\ \A i \in Scripts : \A d \in {target[i], backup[i]} : Readable(d) => d.source = d.definition
  /\ op = Free => \A i \in Scripts \ hurt :
       /\ IF acked[i] = 0 THEN ~target[i].there ELSE target[i] = Files(acked[i])
       /\ Empty(backup[i])
=============================================================================
