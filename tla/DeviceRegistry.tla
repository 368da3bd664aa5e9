--------------------------- MODULE DeviceRegistry ---------------------------
(***************************************************************************)
(* The device registry and the transports opened from it.  devices.json is *)
(* shared by two processes: the proxy, whose clients edit it, and the      *)
(* Script Runner, which only reads it.  Inside the proxy the registry's    *)
(* methods exclude one another, and so do the connection manager's, but    *)
(* modify and delete are a call of each, with nothing around the two.  The *)
(* file is rewritten in place: until it is closed it cannot be parsed.     *)
(***************************************************************************)
EXTENDS Integers

CONSTANTS MaxId,        \* MAX_ID
          Texts,        \* names and references, in upper case
          Reads,        \* Reads[t] = Integer.parseInt(t), or -1 when t is no number
          Targets,      \* type and address, as sameTarget compares them
          Workers,      \* threads of the proxy that serve clients
          MaxEdits,     \* registry edits begun
          MaxCrashes    \* processes killed

VARIABLES file,         \* devices.json: its profiles, sorted by id, and whether it is whole
          open,         \* each process's transports, by id: the profile they were made for
          job,          \* the edit each worker is in
          raced,        \* ids reached by another client between the two calls of an edit
          misread,      \* ids changed by an edit whose reference named two devices
          left          \* edits and crashes still to come
vars == <<file, open, job, raced, misread, left>>

Ids == 0..MaxId
Processes == {"proxy", "runner"}
Profiles == [id : Ids, name : Texts, target : Targets]
NoProfile == [id |-> -1, name |-> "", target |-> ""]
Keep == ""              \* a field the patch does not have

Idle == [at |-> "idle", kind |-> "none", ref |-> "", id |-> -1, name |-> Keep, target |-> Keep]
DaoFree == \A w \in Workers : job[w].at # "save"
Whole == file.whole
Readable(p) == Whole /\ (p = "proxy" => DaoFree)

(* resolve: a number is an id, everything else a name.                     *)
Resolved(ref) == {d \in file.devices : IF Reads[ref] >= 0 THEN d.id = Reads[ref] ELSE d.name = ref}

(* indexOf: the first profile whose id or name it is.                      *)
Matching(ref) == {d \in file.devices : d.id = Reads[ref] \/ d.name = ref}
IndexOf(ref) == {d \in Matching(ref) : \A e \in Matching(ref) : d.id <= e.id}

NextId == {i \in Ids : /\ \A d \in file.devices : d.id # i
                       /\ \A j \in 0..(i - 1) : \E d \in file.devices : d.id = j}
EnsureUniqueName(name, allowed) == \A d \in file.devices : d.name = name => d.id = allowed
EnsureUniqueTarget(target, allowed) == \A d \in file.devices : d.id # allowed => d.target # target

-----------------------------------------------------------------------------
Begin == left.edits > 0 /\ left' = [left EXCEPT !.edits = @ - 1]
Save(w, devices) ==
  /\ file' = [whole |-> FALSE, devices |-> devices]
  /\ job' = [job EXCEPT ![w].at = "save"]

Add(w, name, target) ==
  /\ job[w].at = "idle" /\ Readable("proxy") /\ Begin
  /\ EnsureUniqueName(name, -1) /\ EnsureUniqueTarget(target, -1)
  /\ \E i \in NextId : Save(w, file.devices \union {[id |-> i, name |-> name, target |-> target]})
  /\ UNCHANGED <<open, raced, misread>>

(* modifyDevice and deleteDevice resolve the reference; the first changes  *)
(* the registry and then closes the transport, the second the reverse.     *)
Edit(w, kind, ref, name, target) ==
  /\ job[w].at = "idle" /\ Readable("proxy") /\ Begin
  /\ \E d \in Resolved(ref) :
       job' = [job EXCEPT ![w] = [at |-> IF kind = "modify" THEN "change" ELSE "close", kind |-> kind,
                                  ref |-> ref, id |-> d.id, name |-> name, target |-> target]]
  /\ UNCHANGED <<file, open, raced, misread>>

Patched(d, j) == [d EXCEPT !.name = IF j.name = Keep THEN @ ELSE j.name,
                           !.target = IF j.target = Keep THEN @ ELSE j.target]
Valid(d) == EnsureUniqueName(d.name, d.id) /\ EnsureUniqueTarget(d.target, d.id)

(* dao.modify, dao.delete: they resolve the reference once more.  If it is *)
(* the id of one device and the name of another, they may take the other   *)
(* one, and no second client is needed for that.                           *)
Modify(w, d) == Valid(Patched(d, job[w])) /\ Save(w, (file.devices \ {d}) \union {Patched(d, job[w])})
Delete(w, d) == Save(w, file.devices \ {d})
StillMeant(w) == \E e \in Matching(job[w].ref) : e.id = job[w].id
Change(w) ==
  /\ job[w].at = "change" /\ Readable("proxy")
  /\ \E d \in IndexOf(job[w].ref) :
       /\ IF job[w].kind = "modify" THEN Modify(w, d) ELSE Delete(w, d)
       /\ raced' = IF d.id # job[w].id /\ ~StillMeant(w) THEN raced \union {d.id} ELSE raced
       /\ misread' = IF d.id # job[w].id /\ StillMeant(w) THEN misread \union {d.id} ELSE misread
  /\ UNCHANGED <<open, left>>
ChangeFails(w) ==
  /\ job[w].at = "change" /\ DaoFree
  /\ Whole => \A d \in IndexOf(job[w].ref) : job[w].kind = "modify" /\ ~Valid(Patched(d, job[w]))
  /\ job' = [job EXCEPT ![w] = Idle]
  /\ UNCHANGED <<file, open, raced, misread, left>>

Saved(w) ==
  /\ job[w].at = "save"
  /\ file' = [file EXCEPT !.whole = TRUE]
  /\ job' = [job EXCEPT ![w] = IF @.kind = "modify" THEN [@ EXCEPT !.at = "close"] ELSE Idle]
  /\ UNCHANGED <<open, raced, misread, left>>

DisconnectIfConnected(w) ==
  /\ job[w].at = "close"
  /\ open' = [open EXCEPT !["proxy"][job[w].id] = NoProfile]
  /\ raced' = raced \ {job[w].id} /\ misread' = misread \ {job[w].id}
  /\ job' = [job EXCEPT ![w] = IF @.kind = "delete" THEN [@ EXCEPT !.at = "change"] ELSE Idle]
  /\ UNCHANGED <<file, left>>

-----------------------------------------------------------------------------
(* connect: a transport made for another profile of this id is replaced.   *)
KeepAnyTransport(t, d) == t   \* mutant: the profile a transport was made for is not compared
InvalidateChanged(t, d) == IF t = d THEN t ELSE NoProfile
ComputeIfAbsent(t, d) == IF t = NoProfile THEN d ELSE t

DeletePending(i) == \E w \in Workers : job[w].kind = "delete" /\ job[w].at = "change" /\ job[w].id = i
Connect(p, ref) ==
  /\ Readable(p)
  /\ \E d \in Resolved(ref) :
       /\ open' = [open EXCEPT ![p][d.id] = ComputeIfAbsent(InvalidateChanged(@, d), d)]
       /\ raced' = IF p = "runner" THEN raced
                   ELSE IF DeletePending(d.id) THEN raced \union {d.id} ELSE raced \ {d.id}
       /\ misread' = IF p = "runner" THEN misread ELSE misread \ {d.id}
  /\ UNCHANGED <<file, job, left>>

Disconnect(p, ref) ==
  /\ Readable(p)
  /\ \E d \in Resolved(ref) :
       /\ open[p][d.id] # NoProfile
       /\ open' = [open EXCEPT ![p][d.id] = NoProfile]
       /\ IF p = "runner" THEN UNCHANGED <<raced, misread>>
          ELSE raced' = raced \ {d.id} /\ misread' = misread \ {d.id}
  /\ UNCHANGED <<file, job, left>>

(* A process that is killed closes its ports; a write it was in stays      *)
(* where it was.                                                           *)
Crash(p) ==
  /\ left.crashes > 0 /\ left' = [left EXCEPT !.crashes = @ - 1]
  /\ open' = [open EXCEPT ![p] = [i \in Ids |-> NoProfile]]
  /\ IF p = "proxy" THEN job' = [w \in Workers |-> Idle] /\ raced' = {} /\ misread' = {}
     ELSE UNCHANGED <<job, raced, misread>>
  /\ UNCHANGED file

Init ==
  /\ file = [whole |-> TRUE, devices |-> {}]
  /\ open = [p \in Processes |-> [i \in Ids |-> NoProfile]]
  /\ job = [w \in Workers |-> Idle] /\ raced = {} /\ misread = {}
  /\ left = [edits |-> MaxEdits, crashes |-> MaxCrashes]

Next ==
  \/ \E w \in Workers :
       \/ \E name \in Texts, target \in Targets : Add(w, name, target)
       \/ \E ref \in Texts :
            \/ Edit(w, "delete", ref, Keep, Keep)
            \/ \E name \in Texts \union {Keep}, target \in Targets \union {Keep} : Edit(w, "modify", ref, name, target)
       \/ Change(w) \/ ChangeFails(w) \/ Saved(w) \/ DisconnectIfConnected(w)
  \/ \E p \in Processes : Crash(p) \/ \E ref \in Texts : Connect(p, ref) \/ Disconnect(p, ref)
Spec == Init /\ [][Next]_vars

-----------------------------------------------------------------------------
(* Names, ids and targets stay unique whatever edits overlap, an edit may  *)
(* resolve another profile than it was checked for, and ids are reused.    *)
UniqueProfiles ==
  \A d, e \in file.devices : d # e => d.id # e.id /\ d.name # e.name /\ d.target # e.target

(* The proxy talks to a device over a transport made for the profile that  *)
(* is stored, unless an edit is about to close it, or an edit closed the   *)
(* transport of one device and changed the profile of another.  That takes *)
(* another client between its two calls, who connected the device being    *)
(* deleted or gave the reference another meaning (raced); or a reference   *)
(* that is the id of one device and the name of another, for which a       *)
(* single client is enough (misread).                                      *)
ModifyPending(i) == \E w \in Workers : job[w].kind = "modify" /\ job[w].at \in {"save", "close"} /\ job[w].id = i
TransportsMatch ==
  \A i \in Ids :
    open["proxy"][i] # NoProfile /\ i \notin raced \union misread /\ ~ModifyPending(i) => open["proxy"][i] \in file.devices
=============================================================================
