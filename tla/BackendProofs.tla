---------------------------- MODULE BackendProofs ----------------------------
(***************************************************************************)
(* Theorems about Backend for every number of devices, clients, edits and  *)
(* crashes, every set of replies, scripts, tasks and releases.             *)
(***************************************************************************)
EXTENDS Backend, BuiltinScriptsProofs, FiniteSetTheorems, SequenceTheorems, TLAPS

-----------------------------------------------------------------------------
(* The device registry: its inductive invariant.                           *)

Jobs == [at : {"idle", "change", "save", "close"}, kind : {"none", "modify", "delete"},
         ref : Texts \union {""}, id : Registry!Ids \union {-1},
         name : Texts \union {""}, target : Targets \union {""}]

RegistryTypes ==
  /\ file \in [whole : BOOLEAN, devices : SUBSET Registry!Profiles]
  /\ open \in [Registry!Processes -> [Registry!Ids -> Registry!Profiles \union {Registry!NoProfile}]]
  /\ job \in [Workers -> Jobs]
  /\ raced \subseteq Registry!Ids /\ misread \subseteq Registry!Ids

\* A worker between the two calls of an edit knows the device it is about.
JobsKnow == \A w \in Workers :
  /\ job[w].at \in {"change", "close"} => job[w].kind \in {"modify", "delete"}
  /\ job[w].kind # "none" => job[w].at # "idle" /\ job[w].id \in Registry!Ids

OneSaver == \A v, w \in Workers : job[v].at = "save" /\ job[w].at = "save" => v = w

\* A transport is filed under the id of the profile it was made for.
OpenUnderId == \A p \in Registry!Processes, i \in Registry!Ids :
  open[p][i] # Registry!NoProfile => open[p][i].id = i

\* The transport of a device that is being deleted is closed, or has been
\* opened again by someone else.
DeletedIsClosed == \A i \in Registry!Ids :
  Registry!DeletePending(i) => open["proxy"][i] = Registry!NoProfile \/ i \in raced

RegistryInv ==
  /\ RegistryTypes /\ JobsKnow /\ OneSaver /\ OpenUnderId /\ DeletedIsClosed
  /\ Registry!UniqueProfiles /\ Registry!TransportsMatch

-----------------------------------------------------------------------------
LEMMA RegistryInit == ASSUME Registry!Init PROVE RegistryInv
  <1>1. RegistryTypes
    BY DEF Registry!Init, RegistryTypes, Registry!Idle, Jobs, Registry!Keep
  <1>2. JobsKnow /\ OneSaver
    BY DEF Registry!Init, JobsKnow, OneSaver, Registry!Idle
  <1>3. OpenUnderId /\ DeletedIsClosed /\ Registry!TransportsMatch
    BY DEF Registry!Init, OpenUnderId, DeletedIsClosed, Registry!TransportsMatch, Registry!Processes
  <1>4. Registry!UniqueProfiles
    BY DEF Registry!Init, Registry!UniqueProfiles
  <1> QED BY <1>1, <1>2, <1>3, <1>4 DEF RegistryInv

\* What the file says of d once it is registered beside, or instead of, others.
LEMMA UniqueOfValid ==
  ASSUME RegistryInv, NEW d \in Registry!Profiles, NEW D \in SUBSET file.devices, file'.devices = D \union {d},
         \A e \in D : e.id # d.id /\ e.name # d.name /\ e.target # d.target
  PROVE  Registry!UniqueProfiles'
  <1>1. Registry!UniqueProfiles
    BY DEF RegistryInv
  <1> QED BY <1>1 DEF Registry!UniqueProfiles

LEMMA RegistryAdd ==
  ASSUME RegistryInv, NEW w \in Workers, NEW name \in Texts, NEW target1 \in Targets,
         Registry!Add(w, name, target1)
  PROVE  RegistryInv'
  <1>0. RegistryTypes /\ JobsKnow /\ OneSaver /\ OpenUnderId /\ DeletedIsClosed /\ Registry!TransportsMatch
    BY DEF RegistryInv
  <1>1. /\ job[w].at = "idle" /\ Registry!DaoFree
        /\ job' = [job EXCEPT ![w].at = "save"] /\ open' = open /\ raced' = raced /\ misread' = misread
    BY DEF Registry!Add, Registry!Save, Registry!Readable
  <1>2. PICK i \in Registry!NextId :
          file' = [whole |-> FALSE, devices |-> file.devices \union {[id |-> i, name |-> name, target |-> target1]}]
    BY DEF Registry!Add, Registry!Save
  <1> DEFINE d == [id |-> i, name |-> name, target |-> target1]
  <1>3. d \in Registry!Profiles /\ \A e \in file.devices : e.id # i
    BY <1>2 DEF Registry!NextId, Registry!Profiles
  <1>4. \A e \in file.devices : e.name # name /\ e.target # target1
    BY <1>0, RegistryAssumption
    DEF Registry!Add, Registry!EnsureUniqueName, Registry!EnsureUniqueTarget, RegistryTypes, Registry!Profiles, Registry!Ids
  <1>5. Registry!UniqueProfiles'
    <2>1. file'.devices = file.devices \union {d}
      BY <1>2
    <2>2. d.id = i /\ d.name = name /\ d.target = target1
      OBVIOUS
    <2> HIDE DEF d
    <2> QED BY <1>3, <1>4, <2>1, <2>2, UniqueOfValid
  <1>6. RegistryTypes'
    <2>1. file' \in [whole : BOOLEAN, devices : SUBSET Registry!Profiles]
      BY <1>0, <1>2, <1>3 DEF RegistryTypes
    <2>2. job' \in [Workers -> Jobs]
      <3>1. job[w] \in Jobs
        BY <1>0 DEF RegistryTypes
      <3>2. [job[w] EXCEPT !.at = "save"] \in Jobs
        BY <3>1 DEF Jobs
      <3> QED BY <1>0, <1>1, <3>2 DEF RegistryTypes
    <2> QED BY <1>0, <1>1, <2>1, <2>2 DEF RegistryTypes
  <1>7. job \in [Workers -> Jobs]
    BY <1>0 DEF RegistryTypes
  <1>8. \A v \in Workers : /\ job'[v].at = (IF v = w THEN "save" ELSE job[v].at)
                           /\ job'[v].kind = job[v].kind /\ job'[v].id = job[v].id
    BY <1>1, <1>7 DEF Jobs
  <1>9. JobsKnow' /\ OneSaver'
    BY <1>0, <1>1, <1>8 DEF JobsKnow, OneSaver, Registry!DaoFree
  <1>10. OpenUnderId' /\ DeletedIsClosed'
    BY <1>0, <1>1, <1>8 DEF OpenUnderId, DeletedIsClosed, Registry!DeletePending
  <1>11. Registry!TransportsMatch'
    BY <1>0, <1>1, <1>2, <1>8 DEF Registry!TransportsMatch, Registry!ModifyPending
  <1> QED BY <1>5, <1>6, <1>9, <1>10, <1>11 DEF RegistryInv

LEMMA RegistryEdit ==
  ASSUME RegistryInv, NEW w \in Workers, NEW kind \in {"modify", "delete"}, NEW ref \in Texts,
         NEW name \in Texts \union {""}, NEW target1 \in Targets \union {""},
         Registry!Edit(w, kind, ref, name, target1)
  PROVE  RegistryInv'
  <1>0. RegistryTypes /\ JobsKnow /\ OneSaver /\ OpenUnderId /\ DeletedIsClosed
        /\ Registry!UniqueProfiles /\ Registry!TransportsMatch
    BY DEF RegistryInv
  <1>1. PICK d \in Registry!Resolved(ref) :
          job' = [job EXCEPT ![w] = [at |-> IF kind = "modify" THEN "change" ELSE "close", kind |-> kind,
                                     ref |-> ref, id |-> d.id, name |-> name, target |-> target1]]
    BY DEF Registry!Edit
  <1>2. job[w].at = "idle" /\ file' = file /\ open' = open /\ raced' = raced /\ misread' = misread
    BY DEF Registry!Edit
  <1> DEFINE new == [at |-> IF kind = "modify" THEN "change" ELSE "close", kind |-> kind,
                     ref |-> ref, id |-> d.id, name |-> name, target |-> target1]
  <1>3. d.id \in Registry!Ids
    BY <1>0, <1>1 DEF Registry!Resolved, RegistryTypes, Registry!Profiles
  <1>4. new \in Jobs
    BY <1>3 DEF Jobs
  <1>5. /\ new.kind = kind /\ new.id = d.id
        /\ kind = "modify" => new.at = "change"
        /\ kind = "delete" => new.at = "close"
    OBVIOUS
  <1>6. job' = [job EXCEPT ![w] = new] /\ job \in [Workers -> Jobs]
    BY <1>0, <1>1 DEF RegistryTypes
  <1> HIDE DEF new
  <1>7. RegistryTypes'
    BY <1>0, <1>2, <1>4, <1>6 DEF RegistryTypes
  <1>8. JobsKnow' /\ OneSaver'
    BY <1>0, <1>3, <1>5, <1>6 DEF JobsKnow, OneSaver
  <1>9. OpenUnderId' /\ DeletedIsClosed'
    BY <1>0, <1>2, <1>5, <1>6 DEF OpenUnderId, DeletedIsClosed, Registry!DeletePending
  <1>10. Registry!TransportsMatch' /\ Registry!UniqueProfiles'
    BY <1>0, <1>2, <1>5, <1>6 DEF Registry!TransportsMatch, Registry!ModifyPending, Registry!UniqueProfiles
  <1> QED BY <1>7, <1>8, <1>9, <1>10 DEF RegistryInv

LEMMA RegistryChange ==
  ASSUME RegistryInv, NEW w \in Workers, Registry!Change(w)
  PROVE  RegistryInv'
  <1>0. RegistryTypes /\ JobsKnow /\ OneSaver /\ OpenUnderId /\ DeletedIsClosed
        /\ Registry!UniqueProfiles /\ Registry!TransportsMatch
    BY DEF RegistryInv
  <1>1. PICK d \in Registry!IndexOf(job[w].ref) :
          /\ IF job[w].kind = "modify" THEN Registry!Modify(w, d) ELSE Registry!Delete(w, d)
          /\ raced' \in {raced, raced \union {d.id}} /\ misread' \in {misread, misread \union {d.id}}
          /\ d.id # job[w].id => d.id \in raced' \union misread'
    BY DEF Registry!Change
  <1>2. job[w].at = "change" /\ Registry!DaoFree /\ open' = open
    BY DEF Registry!Change, Registry!Readable
  <1>3. d \in file.devices /\ d \in Registry!Profiles
    BY <1>0, <1>1 DEF Registry!IndexOf, Registry!Matching, RegistryTypes
  <1>4. job[w] \in Jobs /\ job[w].id \in Registry!Ids /\ job[w].kind \in {"modify", "delete"}
    BY <1>0, <1>2 DEF RegistryTypes, JobsKnow
  <1>5. job' = [job EXCEPT ![w].at = "save"]
    BY <1>1 DEF Registry!Modify, Registry!Delete, Registry!Save
  <1>6. /\ job' \in [Workers -> Jobs]
        /\ \A v \in Workers : /\ job'[v].at = (IF v = w THEN "save" ELSE job[v].at)
                              /\ job'[v].kind = job[v].kind /\ job'[v].id = job[v].id
    <2>1. [job[w] EXCEPT !.at = "save"] \in Jobs
      BY <1>4 DEF Jobs
    <2>2. /\ [job[w] EXCEPT !.at = "save"].at = "save" /\ [job[w] EXCEPT !.at = "save"].kind = job[w].kind
          /\ [job[w] EXCEPT !.at = "save"].id = job[w].id
      BY <1>4 DEF Jobs
    <2>3. job \in [Workers -> Jobs]
      BY <1>0 DEF RegistryTypes
    <2> QED BY <1>5, <2>1, <2>2, <2>3
  <1>7. JobsKnow' /\ OneSaver'
    BY <1>0, <1>2, <1>4, <1>6 DEF JobsKnow, OneSaver, Registry!DaoFree
  <1>8. OpenUnderId' /\ DeletedIsClosed'
    <2>1. raced \subseteq raced'
      BY <1>1
    <2> QED BY <1>0, <1>2, <1>6, <2>1 DEF OpenUnderId, DeletedIsClosed, Registry!DeletePending
  <1>9. raced' \subseteq Registry!Ids /\ misread' \subseteq Registry!Ids
    BY <1>0, <1>1, <1>3 DEF RegistryTypes, Registry!Profiles
  <1>10. CASE job[w].kind = "modify"
    <2> DEFINE new == Registry!Patched(d, job[w])
    <2>1. Registry!Valid(new) /\ file' = [whole |-> FALSE, devices |-> (file.devices \ {d}) \union {new}]
      BY <1>1, <1>10 DEF Registry!Modify, Registry!Save
    <2>2. new \in Registry!Profiles /\ new.id = d.id
      <3>1. /\ (IF job[w].name = Registry!Keep THEN d.name ELSE job[w].name) \in Texts
            /\ (IF job[w].target = Registry!Keep THEN d.target ELSE job[w].target) \in Targets
        BY <1>3, <1>4 DEF Jobs, Registry!Profiles, Registry!Keep
      <3> QED BY <1>3, <3>1 DEF Registry!Patched, Registry!Profiles
    <2> HIDE DEF new
    <2>3. RegistryTypes'
      <3>1. file' \in [whole : BOOLEAN, devices : SUBSET Registry!Profiles]
        BY <1>0, <2>1, <2>2 DEF RegistryTypes
      <3> QED BY <1>0, <1>2, <1>6, <1>9, <3>1 DEF RegistryTypes
    <2>4. Registry!UniqueProfiles'
      <3>1. file'.devices = (file.devices \ {d}) \union {new}
        BY <2>1
      <3>2. \A e \in file.devices \ {d} : e.id # d.id
        BY <1>0, <1>3 DEF Registry!UniqueProfiles
      <3>3. \A e \in file.devices \ {d} : e.name # new.name /\ e.target # new.target
        BY <2>1, <2>2, <3>2 DEF Registry!Valid, Registry!EnsureUniqueName, Registry!EnsureUniqueTarget
      <3> DEFINE D == file.devices \ {d}
      <3>4. D \in SUBSET file.devices /\ file'.devices = D \union {new}
        BY <3>1
      <3>5. \A e \in D : e.id # new.id /\ e.name # new.name /\ e.target # new.target
        BY <2>2, <3>2, <3>3
      <3> HIDE DEF D
      <3> QED BY <2>2, <3>4, <3>5, UniqueOfValid
    <2>5. Registry!TransportsMatch'
      <3> SUFFICES ASSUME NEW i \in Registry!Ids, open["proxy"][i] # Registry!NoProfile,
                          i \notin (raced \union misread)', ~Registry!ModifyPending(i)'
                   PROVE  open["proxy"][i] \in file'.devices
        BY <1>2 DEF Registry!TransportsMatch
      <3>1. open["proxy"][i].id = i
        BY <1>0 DEF OpenUnderId, Registry!Processes
      <3>2. i # d.id
        BY <1>1, <1>6, <1>10 DEF Registry!ModifyPending
      <3>3. i \notin raced \union misread /\ ~Registry!ModifyPending(i)
        BY <1>1, <1>2, <1>6 DEF Registry!ModifyPending
      <3>4. open["proxy"][i] \in file.devices
        BY <1>0, <3>3 DEF Registry!TransportsMatch
      <3> QED BY <2>1, <3>1, <3>2, <3>4
    <2> QED BY <1>7, <1>8, <2>3, <2>4, <2>5 DEF RegistryInv
  <1>11. CASE job[w].kind = "delete"
    <2>1. file' = [whole |-> FALSE, devices |-> file.devices \ {d}]
      BY <1>1, <1>11 DEF Registry!Delete, Registry!Save
    <2>2. RegistryTypes'
      <3>1. file' \in [whole : BOOLEAN, devices : SUBSET Registry!Profiles]
        BY <1>0, <2>1 DEF RegistryTypes
      <3> QED BY <1>0, <1>2, <1>6, <1>9, <3>1 DEF RegistryTypes
    <2>3. Registry!UniqueProfiles'
      BY <1>0, <2>1 DEF Registry!UniqueProfiles
    <2>4. Registry!TransportsMatch'
      <3> SUFFICES ASSUME NEW i \in Registry!Ids, open["proxy"][i] # Registry!NoProfile,
                          i \notin (raced \union misread)', ~Registry!ModifyPending(i)'
                   PROVE  open["proxy"][i] \in file'.devices
        BY <1>2 DEF Registry!TransportsMatch
      <3>1. open["proxy"][i].id = i
        BY <1>0 DEF OpenUnderId, Registry!Processes
      <3>2. i \notin raced \union misread /\ ~Registry!ModifyPending(i)
        BY <1>1, <1>2, <1>6 DEF Registry!ModifyPending
      <3>3. Registry!DeletePending(job[w].id)
        BY <1>2, <1>11 DEF Registry!DeletePending
      <3>4. i # d.id
        BY <1>0, <1>1, <1>4, <3>2, <3>3 DEF DeletedIsClosed
      <3>5. open["proxy"][i] \in file.devices
        BY <1>0, <3>2 DEF Registry!TransportsMatch
      <3> QED BY <2>1, <3>1, <3>4, <3>5
    <2> QED BY <1>7, <1>8, <2>2, <2>3, <2>4 DEF RegistryInv
  <1> QED BY <1>4, <1>10, <1>11

\* A worker leaves its edit, or goes on with it, while the file's profiles stay.
LEMMA RegistryStep ==
  ASSUME RegistryInv, NEW w \in Workers, NEW new \in Jobs, job' = [job EXCEPT ![w] = new],
         new = Registry!Idle \/ (new = [job[w] EXCEPT !.at = "close"] /\ job[w].kind = "modify" /\ job[w].at = "save"),
         job[w].kind = "modify" => job[w].at = "change" \/ new.at = "close",
         file'.devices = file.devices, file' \in [whole : BOOLEAN, devices : SUBSET Registry!Profiles],
         open' = open, raced' = raced, misread' = misread
  PROVE  RegistryInv'
  <1>0. RegistryTypes /\ JobsKnow /\ OneSaver /\ OpenUnderId /\ DeletedIsClosed
        /\ Registry!UniqueProfiles /\ Registry!TransportsMatch
    BY DEF RegistryInv
  <1>1. job \in [Workers -> Jobs] /\ job[w] \in Jobs
    BY <1>0 DEF RegistryTypes
  <1>2. \/ new.at = "idle" /\ new.kind = "none"
        \/ new.at = "close" /\ new.kind = "modify" /\ new.id = job[w].id /\ job[w].kind = "modify" /\ job[w].at = "save"
    <2>1. Registry!Idle.at = "idle" /\ Registry!Idle.kind = "none"
      BY DEF Registry!Idle
    <2>2. [job[w] EXCEPT !.at = "close"].at = "close" /\ [job[w] EXCEPT !.at = "close"].kind = job[w].kind
          /\ [job[w] EXCEPT !.at = "close"].id = job[w].id
      BY <1>1 DEF Jobs
    <2> QED BY <2>1, <2>2
  <1>3. RegistryTypes'
    BY <1>0, <1>1 DEF RegistryTypes
  <1>4. JobsKnow' /\ OneSaver'
    BY <1>0, <1>1, <1>2 DEF JobsKnow, OneSaver
  <1>5. OpenUnderId' /\ DeletedIsClosed'
    BY <1>0, <1>1, <1>2 DEF OpenUnderId, DeletedIsClosed, Registry!DeletePending
  <1>6. Registry!TransportsMatch'
    <2>1. \A i \in Registry!Ids : Registry!ModifyPending(i) => Registry!ModifyPending(i)'
      BY <1>1, <1>2 DEF Registry!ModifyPending
    <2> QED BY <1>0, <2>1 DEF Registry!TransportsMatch
  <1>7. Registry!UniqueProfiles'
    BY <1>0 DEF Registry!UniqueProfiles
  <1> QED BY <1>3, <1>4, <1>5, <1>6, <1>7 DEF RegistryInv

LEMMA IdleJob == Registry!Idle \in Jobs
  BY DEF Registry!Idle, Registry!Keep, Jobs

LEMMA RegistryChangeFails ==
  ASSUME RegistryInv, NEW w \in Workers, Registry!ChangeFails(w)
  PROVE  RegistryInv'
  <1>1. job[w].at = "change" /\ job' = [job EXCEPT ![w] = Registry!Idle]
        /\ file' = file /\ open' = open /\ raced' = raced /\ misread' = misread
    BY DEF Registry!ChangeFails
  <1>2. file \in [whole : BOOLEAN, devices : SUBSET Registry!Profiles]
    BY DEF RegistryInv, RegistryTypes
  <1> QED BY <1>1, <1>2, IdleJob, RegistryStep

LEMMA RegistrySaved ==
  ASSUME RegistryInv, NEW w \in Workers, Registry!Saved(w)
  PROVE  RegistryInv'
  <1>1. /\ job[w].at = "save" /\ file' = [file EXCEPT !.whole = TRUE] /\ open' = open /\ raced' = raced /\ misread' = misread
        /\ job' = [job EXCEPT ![w] = IF job[w].kind = "modify" THEN [job[w] EXCEPT !.at = "close"] ELSE Registry!Idle]
    BY DEF Registry!Saved
  <1>2. file \in [whole : BOOLEAN, devices : SUBSET Registry!Profiles] /\ job[w] \in Jobs
    BY DEF RegistryInv, RegistryTypes
  <1>3. file' \in [whole : BOOLEAN, devices : SUBSET Registry!Profiles] /\ file'.devices = file.devices
    BY <1>1, <1>2
  <1>4. CASE job[w].kind = "modify"
    <2>1. [job[w] EXCEPT !.at = "close"] \in Jobs /\ [job[w] EXCEPT !.at = "close"].at = "close"
      BY <1>2 DEF Jobs
    <2> DEFINE new == [job[w] EXCEPT !.at = "close"]
    <2>2. new \in Jobs /\ new.at = "close" /\ job' = [job EXCEPT ![w] = new] /\ new = [job[w] EXCEPT !.at = "close"]
      BY <1>1, <1>4, <2>1
    <2> HIDE DEF new
    <2> QED BY <1>1, <1>3, <1>4, <2>2, RegistryStep
  <1>5. CASE job[w].kind # "modify"
    BY <1>1, <1>3, <1>5, IdleJob, RegistryStep
  <1> QED BY <1>4, <1>5

LEMMA RegistryDisconnectIfConnected ==
  ASSUME RegistryInv, NEW w \in Workers, Registry!DisconnectIfConnected(w)
  PROVE  RegistryInv'
  <1>0. RegistryTypes /\ JobsKnow /\ OneSaver /\ OpenUnderId /\ DeletedIsClosed
        /\ Registry!UniqueProfiles /\ Registry!TransportsMatch
    BY DEF RegistryInv
  <1> DEFINE new == IF job[w].kind = "delete" THEN [job[w] EXCEPT !.at = "change"] ELSE Registry!Idle
             i == job[w].id
  <1>1. /\ job[w].at = "close" /\ file' = file /\ job' = [job EXCEPT ![w] = new]
        /\ open' = [open EXCEPT !["proxy"][i] = Registry!NoProfile]
        /\ raced' = raced \ {i} /\ misread' = misread \ {i}
    BY DEF Registry!DisconnectIfConnected
  <1>2. job \in [Workers -> Jobs] /\ job[w] \in Jobs /\ i \in Registry!Ids /\ job[w].kind \in {"modify", "delete"}
    BY <1>0, <1>1 DEF RegistryTypes, JobsKnow
  <1>3. /\ new \in Jobs
        /\ \/ new.at = "change" /\ new.kind = "delete" /\ new.id = i
           \/ new.at = "idle" /\ new.kind = "none" /\ job[w].kind = "modify"
    <2>1. CASE job[w].kind = "delete"
      BY <1>2, <2>1 DEF Jobs
    <2>2. CASE job[w].kind # "delete"
      BY <1>2, <2>2, IdleJob DEF Registry!Idle
    <2> QED BY <2>1, <2>2
  <1> HIDE DEF new
  <1>4. /\ open'["proxy"][i] = Registry!NoProfile
        /\ \A p \in Registry!Processes, j \in Registry!Ids :
             open'[p][j] # Registry!NoProfile => open'[p][j] = open[p][j] /\ (p = "proxy" => j # i)
        /\ open' \in [Registry!Processes -> [Registry!Ids -> Registry!Profiles \union {Registry!NoProfile}]]
    BY <1>0, <1>1, <1>2 DEF RegistryTypes, Registry!Processes
  <1> HIDE DEF i
  <1>5. RegistryTypes'
    BY <1>0, <1>1, <1>2, <1>3, <1>4 DEF RegistryTypes
  <1>6. JobsKnow' /\ OneSaver'
    BY <1>0, <1>1, <1>2, <1>3 DEF JobsKnow, OneSaver
  <1>7. OpenUnderId'
    BY <1>0, <1>4 DEF OpenUnderId
  <1>8. DeletedIsClosed'
    <2>1. \A j \in Registry!Ids : j # i /\ Registry!DeletePending(j)' => Registry!DeletePending(j)
      BY <1>1, <1>2, <1>3 DEF Registry!DeletePending
    <2>2. \A j \in Registry!Ids : open["proxy"][j] = Registry!NoProfile => open'["proxy"][j] = Registry!NoProfile
      BY <1>4 DEF Registry!Processes
    <2> QED BY <1>0, <1>1, <1>4, <2>1, <2>2 DEF DeletedIsClosed
  <1>9. Registry!TransportsMatch'
    <2>1. \A j \in Registry!Ids : j # i /\ Registry!ModifyPending(j) => Registry!ModifyPending(j)'
      BY <1>1, <1>2, <1>3 DEF Registry!ModifyPending, i
    <2>2. \A j \in Registry!Ids : open'["proxy"][j] # Registry!NoProfile => open'["proxy"][j] = open["proxy"][j] /\ j # i
      BY <1>4 DEF Registry!Processes
    <2> QED BY <1>0, <1>1, <2>1, <2>2 DEF Registry!TransportsMatch
  <1>10. Registry!UniqueProfiles'
    BY <1>0, <1>1 DEF Registry!UniqueProfiles
  <1> QED BY <1>5, <1>6, <1>7, <1>8, <1>9, <1>10 DEF RegistryInv

LEMMA RegistryConnect ==
  ASSUME RegistryInv, NEW p \in Registry!Processes, NEW ref \in Texts, Registry!Connect(p, ref)
  PROVE  RegistryInv'
  <1>0. RegistryTypes /\ JobsKnow /\ OneSaver /\ OpenUnderId /\ DeletedIsClosed
        /\ Registry!UniqueProfiles /\ Registry!TransportsMatch
    BY DEF RegistryInv
  <1>1. PICK d \in Registry!Resolved(ref) :
          /\ open' = [open EXCEPT ![p][d.id] = Registry!ComputeIfAbsent(Registry!InvalidateChanged(open[p][d.id], d), d)]
          /\ raced' = IF p = "runner" THEN raced
                      ELSE IF Registry!DeletePending(d.id) THEN raced \union {d.id} ELSE raced \ {d.id}
          /\ misread' = IF p = "runner" THEN misread ELSE misread \ {d.id}
    BY DEF Registry!Connect
  <1>2. file' = file /\ job' = job
    BY DEF Registry!Connect
  <1>3. d \in file.devices /\ d \in Registry!Profiles /\ d.id \in Registry!Ids
    BY <1>0 DEF Registry!Resolved, RegistryTypes, Registry!Profiles
  <1>4. Registry!ComputeIfAbsent(Registry!InvalidateChanged(open[p][d.id], d), d) = d
    BY DEF Registry!ComputeIfAbsent, Registry!InvalidateChanged
  <1>5. /\ open' = [open EXCEPT ![p][d.id] = d]
        /\ open \in [Registry!Processes -> [Registry!Ids -> Registry!Profiles \union {Registry!NoProfile}]]
    BY <1>0, <1>1, <1>4 DEF RegistryTypes
  <1>6. /\ open' \in [Registry!Processes -> [Registry!Ids -> Registry!Profiles \union {Registry!NoProfile}]]
        /\ \A q \in Registry!Processes, i \in Registry!Ids :
             open'[q][i] = IF q = p /\ i = d.id THEN d ELSE open[q][i]
    BY <1>3, <1>5
  <1>7. RegistryTypes'
    BY <1>0, <1>1, <1>2, <1>3, <1>6 DEF RegistryTypes
  <1>8. JobsKnow' /\ OneSaver' /\ Registry!UniqueProfiles'
    BY <1>0, <1>2 DEF JobsKnow, OneSaver, Registry!UniqueProfiles
  <1>9. OpenUnderId'
    BY <1>0, <1>6 DEF OpenUnderId
  <1>10. DeletedIsClosed'
    BY <1>0, <1>1, <1>2, <1>6 DEF DeletedIsClosed, Registry!DeletePending, Registry!Processes
  <1>11. Registry!TransportsMatch'
    BY <1>0, <1>1, <1>2, <1>3, <1>6 DEF Registry!TransportsMatch, Registry!ModifyPending, Registry!Processes
  <1> QED BY <1>7, <1>8, <1>9, <1>10, <1>11 DEF RegistryInv

LEMMA RegistryDisconnect ==
  ASSUME RegistryInv, NEW p \in Registry!Processes, NEW ref \in Texts, Registry!Disconnect(p, ref)
  PROVE  RegistryInv'
  <1>0. RegistryTypes /\ JobsKnow /\ OneSaver /\ OpenUnderId /\ DeletedIsClosed
        /\ Registry!UniqueProfiles /\ Registry!TransportsMatch
    BY DEF RegistryInv
  <1>1. PICK d \in Registry!Resolved(ref) :
          /\ open' = [open EXCEPT ![p][d.id] = Registry!NoProfile]
          /\ raced' = IF p = "runner" THEN raced ELSE raced \ {d.id}
          /\ misread' = IF p = "runner" THEN misread ELSE misread \ {d.id}
    BY DEF Registry!Disconnect
  <1>2. file' = file /\ job' = job
    BY DEF Registry!Disconnect
  <1>3. d.id \in Registry!Ids
    BY <1>0 DEF Registry!Resolved, RegistryTypes, Registry!Profiles
  <1>4. /\ open' \in [Registry!Processes -> [Registry!Ids -> Registry!Profiles \union {Registry!NoProfile}]]
        /\ \A q \in Registry!Processes, i \in Registry!Ids :
             open'[q][i] = IF q = p /\ i = d.id THEN Registry!NoProfile ELSE open[q][i]
    BY <1>0, <1>1, <1>3 DEF RegistryTypes
  <1>5. RegistryTypes'
    BY <1>0, <1>1, <1>2, <1>4 DEF RegistryTypes
  <1>6. JobsKnow' /\ OneSaver' /\ Registry!UniqueProfiles'
    BY <1>0, <1>2 DEF JobsKnow, OneSaver, Registry!UniqueProfiles
  <1>7. OpenUnderId' /\ DeletedIsClosed'
    BY <1>0, <1>1, <1>2, <1>4 DEF OpenUnderId, DeletedIsClosed, Registry!DeletePending, Registry!Processes
  <1>8. Registry!TransportsMatch'
    BY <1>0, <1>1, <1>2, <1>4 DEF Registry!TransportsMatch, Registry!ModifyPending, Registry!Processes
  <1> QED BY <1>5, <1>6, <1>7, <1>8 DEF RegistryInv

LEMMA RegistryCrash ==
  ASSUME RegistryInv, NEW p \in Registry!Processes, Registry!Crash(p)
  PROVE  RegistryInv'
  <1>0. RegistryTypes /\ JobsKnow /\ OneSaver /\ OpenUnderId /\ DeletedIsClosed
        /\ Registry!UniqueProfiles /\ Registry!TransportsMatch
    BY DEF RegistryInv
  <1>1. /\ open' = [open EXCEPT ![p] = [i \in Registry!Ids |-> Registry!NoProfile]] /\ file' = file
        /\ IF p = "proxy" THEN job' = [w \in Workers |-> Registry!Idle] /\ raced' = {} /\ misread' = {}
           ELSE job' = job /\ raced' = raced /\ misread' = misread
    BY DEF Registry!Crash
  <1>2. /\ open' \in [Registry!Processes -> [Registry!Ids -> Registry!Profiles \union {Registry!NoProfile}]]
        /\ \A q \in Registry!Processes, i \in Registry!Ids :
             open'[q][i] = IF q = p THEN Registry!NoProfile ELSE open[q][i]
    BY <1>0, <1>1 DEF RegistryTypes
  <1>3. RegistryTypes'
    BY <1>0, <1>1, <1>2, IdleJob DEF RegistryTypes
  <1>4. \A w \in Workers : IF p = "proxy" THEN job'[w].at = "idle" /\ job'[w].kind = "none" ELSE job'[w] = job[w]
    <2>1. Registry!Idle.at = "idle" /\ Registry!Idle.kind = "none"
      BY DEF Registry!Idle
    <2> QED BY <1>1, <2>1
  <1>5. JobsKnow' /\ OneSaver' /\ Registry!UniqueProfiles'
    BY <1>0, <1>1, <1>4 DEF JobsKnow, OneSaver, Registry!UniqueProfiles
  <1>6. OpenUnderId' /\ DeletedIsClosed'
    BY <1>0, <1>1, <1>2, <1>4 DEF OpenUnderId, DeletedIsClosed, Registry!DeletePending, Registry!Processes
  <1>7. Registry!TransportsMatch'
    BY <1>0, <1>1, <1>2 DEF Registry!TransportsMatch, Registry!ModifyPending, Registry!Processes
  <1> QED BY <1>3, <1>5, <1>6, <1>7 DEF RegistryInv

LEMMA RegistryNext == ASSUME RegistryInv, Registry!Next PROVE RegistryInv'
  <1>1. CASE \E w \in Workers, name \in Texts, target1 \in Targets : Registry!Add(w, name, target1)
    BY <1>1, RegistryAdd
  <1>2. CASE \E w \in Workers, ref \in Texts : Registry!Edit(w, "delete", ref, Registry!Keep, Registry!Keep)
    BY <1>2, RegistryEdit DEF Registry!Keep
  <1>3. CASE \E w \in Workers, ref \in Texts, name \in Texts \union {Registry!Keep}, target1 \in Targets \union {Registry!Keep} :
               Registry!Edit(w, "modify", ref, name, target1)
    BY <1>3, RegistryEdit DEF Registry!Keep
  <1>4. CASE \E w \in Workers : Registry!Change(w) \/ Registry!ChangeFails(w) \/ Registry!Saved(w) \/ Registry!DisconnectIfConnected(w)
    BY <1>4, RegistryChange, RegistryChangeFails, RegistrySaved, RegistryDisconnectIfConnected
  <1>5. CASE \E p \in Registry!Processes : Registry!Crash(p) \/ \E ref \in Texts : Registry!Connect(p, ref) \/ Registry!Disconnect(p, ref)
    BY <1>5, RegistryCrash, RegistryConnect, RegistryDisconnect
  <1> QED BY <1>1, <1>2, <1>3, <1>4, <1>5 DEF Registry!Next

(* Names, ids and targets stay unique and the proxy's transports match the *)
(* stored profiles, however the calls of edits, connects, disconnects and  *)
(* crashes interleave (DeviceConnectionManager, JsonDeviceConnectionDao).  *)
THEOREM RegistryStaysSound == BackendSpec => []RegistryIsSound
  <1>1. BackendInit => RegistryInv
    BY RegistryInit DEF BackendInit
  <1>2. RegistryInv /\ [BackendNext]_backendVars => RegistryInv'
    <2> SUFFICES ASSUME RegistryInv, [BackendNext]_backendVars
                 PROVE  RegistryInv'
      OBVIOUS
    <2>1. CASE Registry!Next
      BY <2>1, RegistryNext
    <2>2. CASE UNCHANGED registryVars
      BY <2>2 DEF registryVars, RegistryInv, RegistryTypes, JobsKnow, OneSaver, OpenUnderId, DeletedIsClosed,
                  Registry!DeletePending, Registry!UniqueProfiles, Registry!TransportsMatch, Registry!ModifyPending
    <2>3. Registry!Next \/ UNCHANGED registryVars
      BY DEF BackendNext, backendVars
    <2> QED BY <2>1, <2>2, <2>3
  <1>3. RegistryInv => RegistryIsSound
    BY DEF RegistryInv, RegistryIsSound
  <1> QED BY <1>1, <1>2, <1>3, PTL DEF BackendSpec

-----------------------------------------------------------------------------
(* The byte stream: what a whole and a cut reply are taken for.            *)

LEMMA TextWhole == ASSUME NEW r \in Seq(0..255), IsText(r) PROVE Link!Deserialize(r) = Len(r)
  <1> DEFINE ends == {i \in DOMAIN r : r[i] = Link!Delimiter}
  <1>1. Len(r) \in DOMAIN r /\ ends = {Len(r)}
    BY DEF IsText
  <1>2. Link!TextLength(r) = Len(r)
    BY <1>1 DEF Link!TextLength
  <1> QED BY <1>2 DEF Link!Deserialize, IsText

LEMMA TextCut ==
  ASSUME NEW r \in Seq(0..255), IsText(r), NEW n \in 0..(Len(r) - 1)
  PROVE  Link!Deserialize(SubSeq(r, 1, n)) = Link!TimedOut
  <1> DEFINE q == SubSeq(r, 1, n)
  <1>1. Len(q) = n /\ \A i \in 1..n : q[i] = r[i]
    OBVIOUS
  <1>2. q # <<>> => q[1] # Link!Hash
    BY <1>1 DEF IsText
  <1>3. {i \in DOMAIN q : q[i] = Link!Delimiter} = {}
    BY <1>1 DEF IsText
  <1> HIDE DEF q
  <1>4. Link!TextLength(q) = Link!TimedOut
    BY <1>3 DEF Link!TextLength
  <1> QED BY <1>2, <1>4 DEF Link!Deserialize, q

LEMMA BlockWhole == ASSUME NEW r \in Seq(0..255), IsBlock(r) PROVE Link!Deserialize(r) = Len(r)
  <1> DEFINE v == Link!ValueOf(r[2])
             digits == SubSeq(r, 3, 2 + v)
             p == Link!ParsePayloadLength(digits)
  <1>1. /\ Len(r) >= 2 /\ r[1] = Link!Hash /\ r[2] \in Link!Digit \ {48}
        /\ \A i \in DOMAIN digits : digits[i] \in Link!Digit
        /\ p \in Nat /\ Len(r) = 2 + v + p
    BY DEF IsBlock
  <1>2. v \in 1..9
    BY <1>1 DEF Link!ValueOf, Link!Digit
  <1>3. Len(digits) = v
    <2> HIDE DEF p, v
    <2> QED BY <1>1, <1>2
  <1>4. Link!BlockLength(r) = IF Len(r) < 2 + Len(digits) + p THEN Link!TimedOut ELSE 2 + Len(digits) + p
    <2>1. ~(Len(r) < 2) /\ ~(r[2] \notin Link!Digit \ {48}) /\ ~(Len(r) < 2 + v) /\ ~(\E i \in DOMAIN digits : digits[i] \notin Link!Digit)
      <3> HIDE DEF p, v, digits
      <3> QED BY <1>1, <1>2
    <2> QED BY ONLY <2>1 DEF Link!BlockLength
  <1>5. Link!BlockLength(r) = Len(r)
    <2> HIDE DEF p, v, digits
    <2> QED BY <1>1, <1>2, <1>3, <1>4
  <1>6. r # <<>>
    BY <1>1
  <1> QED BY <1>1, <1>5, <1>6 DEF Link!Deserialize

LEMMA BlockCut ==
  ASSUME NEW r \in Seq(0..255), IsBlock(r), NEW n \in 0..(Len(r) - 1)
  PROVE  Link!Deserialize(SubSeq(r, 1, n)) = Link!TimedOut
  <1> DEFINE q == SubSeq(r, 1, n)
             v == Link!ValueOf(r[2])
             digits == SubSeq(r, 3, 2 + v)
             p == Link!ParsePayloadLength(digits)
  <1>1. /\ Len(r) >= 2 /\ r[1] = Link!Hash /\ r[2] \in Link!Digit \ {48}
        /\ \A i \in DOMAIN digits : digits[i] \in Link!Digit
        /\ p \in Nat /\ Len(r) = 2 + v + p
    BY DEF IsBlock
  <1>2. v \in 1..9
    BY <1>1 DEF Link!ValueOf, Link!Digit
  <1>3. q \in Seq(0..255) /\ Len(q) = n /\ \A i \in 1..n : q[i] = r[i]
    <2>1. \A i \in 1..n : r[i] \in 0..255
      <3>1. \A i \in 1..Len(r) : r[i] \in 0..255
        BY ElementOfSeq
      <3> QED BY <3>1
    <2> QED BY <2>1, SubSeqProperties
  <1>4. CASE n = 0
    <2>1. q = <<>>
      BY <1>4
    <2> QED BY <2>1 DEF Link!Deserialize
  <1>5. CASE n > 0
    <2>1. q # <<>> /\ q[1] = Link!Hash
      <3>1. q[1] = r[1] /\ Len(q) # 0
        BY <1>3, <1>5
      <3> QED BY <1>1, <3>1
    <2>2. CASE n < 2 + v
      <3>1. n >= 2 => q[2] = r[2]
        BY <1>3
      <3>2. Link!BlockLength(q) = Link!TimedOut
        <4>1. CASE n < 2
          BY <1>3, <4>1 DEF Link!BlockLength
        <4>2. CASE n >= 2
          <5>1. ~(Len(q) < 2) /\ ~(q[2] \notin Link!Digit \ {48}) /\ Len(q) < 2 + Link!ValueOf(q[2])
            <6> HIDE DEF p, digits
            <6> QED BY <1>1, <1>3, <2>2, <3>1, <4>2
          <5> QED BY ONLY <5>1 DEF Link!BlockLength
        <4> QED BY <4>1, <4>2
      <3> QED BY <2>1, <3>2 DEF Link!Deserialize
    <2>3. CASE n >= 2 + v
      <3>1. q[2] = r[2]
        BY <1>2, <1>3, <2>3
      <3>2. SubSeq(q, 3, 2 + v) = digits
        <4> HIDE DEF p, v
        <4> QED BY <1>1, <1>2, <1>3, <2>3, SubSeqOfSubSeq
      <3>3. Len(digits) = v
        <4> HIDE DEF p, v
        <4> QED BY <1>1, <1>2, <1>3, <2>3
      <3>4. Link!BlockLength(q) = IF Len(q) < 2 + Len(digits) + p THEN Link!TimedOut ELSE 2 + Len(digits) + p
        <4>1. ~(Len(q) < 2) /\ ~(q[2] \notin Link!Digit \ {48}) /\ ~(Len(q) < 2 + Link!ValueOf(q[2]))
              /\ ~(\E i \in DOMAIN digits : digits[i] \notin Link!Digit)
              /\ SubSeq(q, 3, 2 + Link!ValueOf(q[2])) = digits
          <5>1. Link!ValueOf(q[2]) = v
            BY <3>1
          <5> HIDE DEF p, v, digits
          <5> QED BY <1>1, <1>2, <1>3, <2>3, <3>1, <3>2, <5>1
        <4> QED BY ONLY <4>1 DEF Link!BlockLength
      <3>5. Link!BlockLength(q) = Link!TimedOut
        <4> HIDE DEF p, v, digits
        <4> QED BY <1>1, <1>2, <1>3, <3>3, <3>4
      <3> QED BY <2>1, <3>5 DEF Link!Deserialize
    <2>4. v \in Int /\ n \in Int
      BY <1>2
    <2> HIDE DEF v
    <2> QED BY <2>2, <2>3, <2>4
  <1> QED BY <1>4, <1>5

LEMMA ReplyWhole == ASSUME NEW r \in Replies PROVE Link!Deserialize(r) = Len(r)
BY RepliesAssumption, TextWhole, BlockWhole

LEMMA ReplyCut ==
  ASSUME NEW r \in Replies, NEW n \in 0..(Len(r) - 1)
  PROVE  Link!Deserialize(SubSeq(r, 1, n)) = Link!TimedOut
BY RepliesAssumption, TextCut, BlockCut

LinkTypes == connected \in BOOLEAN /\ intact \in BOOLEAN /\ timeouts \in Nat
LastOwn == last.intact => last.delivered = last.answered
NothingLate == intact => pipe = <<>> /\ coming = <<>>
TimeoutsCounted == timeouts < Threshold /\ (timeouts > 0 => connected)
LinkInv == LinkTypes /\ LastOwn /\ NothingLate /\ TimeoutsCounted

LEMMA LinkInit == ASSUME Link!Init PROVE LinkInv
  <1>1. connected \in BOOLEAN /\ intact \in BOOLEAN /\ timeouts = 0
    BY DEF Link!Init
  <1>2. LastOwn /\ NothingLate
    BY DEF Link!Init, LastOwn, NothingLate
  <1>3. TimeoutsCounted
    BY <1>1, LinkAssumption DEF TimeoutsCounted
  <1> QED BY <1>1, <1>2, <1>3 DEF LinkInv, LinkTypes

LEMMA LastKept == ASSUME LinkInv, last' = last PROVE LastOwn'
BY DEF LinkInv, LastOwn

LEMMA LinkClosed ==
  ASSUME LinkInv, Link!Close, intact' = FALSE, last' = last
  PROVE  LinkInv'
  <1>1. connected' \in BOOLEAN /\ intact' \in BOOLEAN /\ ~intact' /\ timeouts' = 0
    BY DEF Link!Close
  <1>2. TimeoutsCounted'
    BY <1>1, LinkAssumption DEF TimeoutsCounted
  <1> QED BY <1>1, <1>2, LastKept DEF LinkInv, LinkTypes, NothingLate

LEMMA LinkTimedOut ==
  ASSUME LinkInv, connected, NEW before \in Nat, Link!RecordTimeout(before)
  PROVE  LinkInv'
  <1>1. CASE before + 1 >= Threshold
    BY <1>1, LinkClosed DEF Link!RecordTimeout
  <1>2. CASE ~(before + 1 >= Threshold)
    <2>1. timeouts' = before + 1 /\ connected' = connected /\ intact' \in BOOLEAN /\ ~intact' /\ last' = last
      BY <1>2 DEF Link!RecordTimeout
    <2>2. timeouts' \in Nat /\ TimeoutsCounted'
      BY <1>2, <2>1, LinkAssumption DEF TimeoutsCounted
    <2> QED BY <2>1, <2>2, LastKept DEF LinkInv, LinkTypes, NothingLate
  <1> QED BY <1>1, <1>2

LEMMA LinkQuery ==
  ASSUME LinkInv, NEW r \in Replies, Link!Query(r)
  PROVE  LinkInv'
  <1>1. PICK n \in 0..Len(coming \o r) :
          LET due == coming \o r
              q == pipe \o SubSeq(due, 1, n)
              end == Link!Deserialize(q)
          IN /\ coming' = SubSeq(due, n + 1, Len(due))
             /\ IF end = Link!TimedOut THEN Link!RecordTimeout(timeouts)
                ELSE IF end = Link!Invalid THEN Link!Lost ELSE Link!Delivered(q, end, r)
    BY DEF Link!Query
  <1> DEFINE due == coming \o r
             q == pipe \o SubSeq(due, 1, n)
             end == Link!Deserialize(q)
  <1>2. connected /\ timeouts \in Nat
    BY DEF Link!Query, LinkInv, LinkTypes
  <1>3. CASE end = Link!TimedOut
    BY <1>1, <1>2, <1>3, LinkTimedOut
  <1>4. CASE end = Link!Invalid
    <2>1. Link!Lost
      BY <1>1, <1>4 DEF Link!Invalid, Link!TimedOut
    <2> QED BY <2>1, LinkClosed DEF Link!Lost
  <1>5. CASE end # Link!TimedOut /\ end # Link!Invalid
    <2>1. coming' = SubSeq(due, n + 1, Len(due)) /\ Link!Delivered(q, end, r)
      BY <1>1, <1>5
    <2>2. LinkTypes' /\ intact' = intact /\ connected' = connected /\ timeouts' = 0
      BY <2>1 DEF Link!Delivered, LinkInv, LinkTypes
    <2>3. CASE ~intact
      <3>1. NothingLate' /\ TimeoutsCounted'
        BY <2>2, <2>3, LinkAssumption DEF NothingLate, TimeoutsCounted
      <3>2. last'.intact = FALSE
        BY <2>1, <2>3 DEF Link!Delivered, LinkInv, LinkTypes
      <3> QED BY <2>2, <3>1, <3>2 DEF LinkInv, LastOwn
    <2>4. CASE intact
      <3>1. r \in Seq(0..255)
        BY RepliesAssumption
      <3>2. due = r /\ pipe = <<>>
        BY <2>4, <3>1 DEF LinkInv, NothingLate
      <3>3. n \in 0..Len(r)
        BY <3>2
      <3>4. q = SubSeq(r, 1, n)
        BY <3>1, <3>2, <3>3
      <3>5. n = Len(r)
        <4> SUFFICES ASSUME n # Len(r) PROVE FALSE
          OBVIOUS
        <4>1. n \in 0..(Len(r) - 1)
          BY <3>1, <3>3
        <4>2. Link!Deserialize(SubSeq(r, 1, n)) = Link!TimedOut
          BY <4>1, ReplyCut
        <4> QED BY <1>5, <3>4, <4>2
      <3>6. q = r /\ end = Len(r)
        BY <3>1, <3>4, <3>5, ReplyWhole, SubSeqFull
      <3>7. SubSeq(r, 1, Len(r)) = r /\ SubSeq(r, Len(r) + 1, Len(r)) = <<>>
        BY <3>1, SubSeqFull, SubSeqEmpty
      <3>8. coming' = <<>> /\ pipe' = <<>> /\ last'.answered = r /\ last'.delivered = r
        <4> HIDE DEF due, q, end
        <4> QED BY <2>1, <3>2, <3>5, <3>6, <3>7 DEF Link!Delivered
      <3>9. NothingLate' /\ TimeoutsCounted'
        BY <2>2, <3>8, LinkAssumption DEF NothingLate, TimeoutsCounted
      <3> QED BY <2>2, <3>8, <3>9 DEF LinkInv, LastOwn
    <2> QED BY <2>3, <2>4
  <1> QED BY <1>3, <1>4, <1>5

LEMMA LinkUnexpected ==
  ASSUME LinkInv, Link!ReadUnexpectedWriteResponse
  PROVE  LinkInv'
  <1>1. PICK n \in 0..Len(coming) :
          LET q == pipe \o SubSeq(coming, 1, n)
              end == Link!Deserialize(q)
          IN /\ coming' = SubSeq(coming, n + 1, Len(coming))
             /\ IF q = <<>> THEN timeouts' = 0 /\ UNCHANGED <<connected, pipe, intact, last>>
                ELSE IF end = Link!TimedOut THEN Link!RecordTimeout(0)
                ELSE IF end = Link!Invalid THEN Link!Lost
                ELSE pipe' = SubSeq(q, end + 1, Len(q)) /\ timeouts' = 0 /\ UNCHANGED <<connected, intact, last>>
    BY DEF Link!ReadUnexpectedWriteResponse
  <1> DEFINE q == pipe \o SubSeq(coming, 1, n)
             end == Link!Deserialize(q)
  <1>2. connected
    BY DEF Link!ReadUnexpectedWriteResponse
  <1>3. intact => pipe = <<>> /\ coming = <<>> /\ q = <<>> /\ coming' = <<>>
    <2> SUFFICES ASSUME intact PROVE pipe = <<>> /\ coming = <<>> /\ q = <<>> /\ coming' = <<>>
      OBVIOUS
    <2>1. pipe = <<>> /\ coming = <<>>
      BY DEF LinkInv, NothingLate
    <2>2. n = 0
      BY <2>1
    <2> QED BY <1>1, <2>1, <2>2
  <1>4. CASE q = <<>>
    <2>1. timeouts' = 0 /\ UNCHANGED <<connected, pipe, intact, last>>
      BY <1>1, <1>4
    <2>2. LinkTypes' /\ NothingLate' /\ TimeoutsCounted'
      BY <1>3, <2>1, LinkAssumption DEF LinkInv, LinkTypes, NothingLate, TimeoutsCounted
    <2> QED BY <2>1, <2>2, LastKept DEF LinkInv
  <1>5. CASE q # <<>> /\ end = Link!TimedOut
    BY <1>1, <1>2, <1>5, LinkTimedOut
  <1>6. CASE q # <<>> /\ end = Link!Invalid
    <2>1. Link!Lost
      BY <1>1, <1>6 DEF Link!Invalid, Link!TimedOut
    <2> QED BY <2>1, LinkClosed DEF Link!Lost
  <1>7. CASE q # <<>> /\ end # Link!TimedOut /\ end # Link!Invalid
    <2>1. timeouts' = 0 /\ UNCHANGED <<connected, intact, last>> /\ ~intact
      BY <1>1, <1>3, <1>7
    <2>2. LinkTypes' /\ NothingLate' /\ TimeoutsCounted'
      BY <2>1, LinkAssumption DEF LinkInv, LinkTypes, NothingLate, TimeoutsCounted
    <2> QED BY <2>1, <2>2, LastKept DEF LinkInv
  <1> QED BY <1>4, <1>5, <1>6, <1>7

LEMMA LinkNext == ASSUME LinkInv, Link!Next PROVE LinkInv'
  <1>1. CASE Link!Connect
    <2>1. connected' = TRUE /\ timeouts' = 0 /\ pipe' = <<>> /\ intact' = (coming' = <<>>) /\ last' = last
      BY <1>1 DEF Link!Connect
    <2>2. TimeoutsCounted'
      BY <2>1, LinkAssumption DEF TimeoutsCounted
    <2>3. LinkTypes' /\ NothingLate'
      BY <2>1 DEF LinkTypes, NothingLate
    <2> QED BY <2>1, <2>2, <2>3, LastKept DEF LinkInv
  <1>2. CASE Link!ConnectAgain
    <2>1. LinkTypes' /\ NothingLate' /\ TimeoutsCounted'
      BY <1>2, LinkAssumption DEF Link!ConnectAgain, LinkInv, LinkTypes, NothingLate, TimeoutsCounted
    <2> QED BY <1>2, <2>1, LastKept DEF Link!ConnectAgain, LinkInv
  <1>3. CASE Link!Disconnect
    BY <1>3, LinkClosed DEF Link!Disconnect
  <1> QED BY <1>1, <1>2, <1>3, LinkQuery, LinkUnexpected DEF Link!Next

(* A query is given its own whole reply, whatever bytes a block holds and   *)
(* however the reply is cut into reads, until a read times out; timeouts in *)
(* a row close the port (UsbScpiTransport, ScpiResponseDeserializer).       *)
THEOREM RepliesStayOwn == BackendSpec => []RepliesAreOwn
  <1>1. BackendInit => LinkInv
    BY LinkInit DEF BackendInit
  <1>2. LinkInv /\ [BackendNext]_backendVars => LinkInv'
    <2> SUFFICES ASSUME LinkInv, [BackendNext]_backendVars
                 PROVE  LinkInv'
      OBVIOUS
    <2>1. CASE UNCHANGED linkVars
      BY <2>1 DEF linkVars, LinkInv, LinkTypes, LastOwn, NothingLate, TimeoutsCounted
    <2>2. Link!Next \/ UNCHANGED linkVars
      BY DEF BackendNext, backendVars
    <2> QED BY <2>1, <2>2, LinkNext
  <1>3. LinkInv => RepliesAreOwn
    BY DEF LinkInv, LastOwn, NothingLate, TimeoutsCounted, RepliesAreOwn, Link!RepliesAreOwn
  <1> QED BY <1>1, <1>2, <1>3, PTL DEF BackendSpec

-----------------------------------------------------------------------------
(* User scripts: the inductive invariant of their directories.             *)

Directories == [there : BOOLEAN, source : Nat, definition : Nat]
Operations == [at : {"free", "source", "definition", "setAside", "publish", "restore", "discard", "remove"},
               kind : {"none", "create", "replace", "delete"}, id : StoredScripts \union {"none"}]

Supply == [versions : 0..MaxVersion, faults : Int, crashes : Int]

CatalogueTypes ==
  /\ target \in [StoredScripts -> Directories] /\ backup \in [StoredScripts -> Directories] /\ temp \in Directories
  /\ op \in Operations /\ (op.at = "free" => op = Catalogue!Free) /\ (op.at # "free" => op.id \in StoredScripts)
  /\ acked \in [StoredScripts -> Nat] /\ hurt \subseteq StoredScripts
  /\ catalogueLeft \in Supply

\* The source and the description that can be read are of one version, and a
\* directory that is gone holds nothing.
OneVersion(d) == /\ Catalogue!Readable(d) => d.source = d.definition
                 /\ ~d.there => d = Catalogue!Absent
DirectoriesWhole == \A i \in StoredScripts : OneVersion(target[i]) /\ OneVersion(backup[i])

\* What the steps of an operation rely on.
OperationFits ==
  /\ op.at \in {"source", "definition"} => op.kind \in {"create", "replace"}
  /\ op.at = "publish" => op.kind \in {"create", "replace"} /\ temp = Catalogue!Files(Catalogue!Version)
  /\ op.at \in {"setAside", "restore", "discard"} => op.kind = "replace"
  /\ op.at = "setAside" => temp = Catalogue!Files(Catalogue!Version)
  /\ op.at = "definition" => temp = [there |-> TRUE, source |-> Catalogue!Version, definition |-> 0]
  /\ op.at \notin {"free", "remove"} => Catalogue!Version # 0
  /\ op.kind = "create" => op.at # "remove" /\ op.id \notin hurt /\ acked[op.id] = 0
  /\ op.kind = "replace" /\ op.at \in {"source", "definition", "setAside"} => Catalogue!Readable(target[op.id])

\* A script no operation is in, or one whose operation has touched nothing.
Settled(i) ==
  /\ IF acked[i] = 0 THEN ~target[i].there ELSE target[i] = Catalogue!Files(acked[i])
  /\ Catalogue!Empty(backup[i])
SetAsideOf(i) == acked[i] # 0 /\ backup[i] = Catalogue!Files(acked[i])
Untouched == op.at \in {"free", "source", "definition", "setAside"} \/ op.kind = "create"

ScriptsKept == \A i \in StoredScripts \ hurt :
  /\ Untouched \/ op.id # i => Settled(i)
  /\ op.id = i /\ op.kind = "replace" /\ op.at \in {"publish", "restore"} => SetAsideOf(i)
  /\ op.id = i /\ op.at = "discard" => target[i] = Catalogue!Files(Catalogue!Version)
  /\ op.id = i /\ op.at = "remove" =>
       Catalogue!Empty(backup[i]) /\ (Catalogue!Readable(target[i]) => acked[i] # 0 /\ target[i] = Catalogue!Files(acked[i]))

CatalogueInv == CatalogueTypes /\ DirectoriesWhole /\ OperationFits /\ ScriptsKept

-----------------------------------------------------------------------------
LEMMA FilesOf == \A v \in Nat :
  /\ Catalogue!Files(v) \in Directories /\ OneVersion(Catalogue!Files(v))
  /\ v # 0 => Catalogue!Readable(Catalogue!Files(v))
BY DEF Catalogue!Files, Catalogue!Readable, OneVersion, Directories

LEMMA AbsentDirectory ==
  /\ Catalogue!Absent \in Directories /\ OneVersion(Catalogue!Absent) /\ ~Catalogue!Absent.there
  /\ Catalogue!Empty(Catalogue!Absent)
BY DEF Catalogue!Absent, Catalogue!Empty, Catalogue!Readable, OneVersion, Directories

LEMMA FreeOperation ==
  /\ Catalogue!Free \in Operations /\ Catalogue!Free.at = "free" /\ Catalogue!Free.kind = "none"
BY DEF Catalogue!Free, Operations

LEMMA VersionType == ASSUME CatalogueTypes PROVE Catalogue!Version \in Nat
BY CatalogueAssumption DEF CatalogueTypes, Supply, Catalogue!Version

LEMMA CatalogueInit == ASSUME Catalogue!Init PROVE CatalogueInv
  <1>1. /\ \A i \in StoredScripts : target[i] = Catalogue!Absent /\ backup[i] = Catalogue!Absent /\ acked[i] = 0
        /\ op = Catalogue!Free /\ hurt = {} /\ temp = Catalogue!Absent
    BY DEF Catalogue!Init
  <1>2. CatalogueTypes
    <2>1. catalogueLeft \in Supply
      BY CatalogueAssumption DEF Catalogue!Init, Supply
    <2>2. target \in [StoredScripts -> Directories] /\ backup \in [StoredScripts -> Directories] /\ acked \in [StoredScripts -> Nat]
      BY AbsentDirectory DEF Catalogue!Init
    <2> QED BY <1>1, <2>1, <2>2, AbsentDirectory, FreeOperation DEF CatalogueTypes
  <1>3. DirectoriesWhole /\ OperationFits
    BY <1>1, AbsentDirectory, FreeOperation DEF DirectoriesWhole, OperationFits
  <1>4. ScriptsKept
    BY <1>1, AbsentDirectory, FreeOperation DEF ScriptsKept, Settled
  <1> QED BY <1>2, <1>3, <1>4 DEF CatalogueInv

\* An operation that has touched nothing ends, or one whose script is hurt.
LEMMA OperationFails ==
  ASSUME CatalogueInv, op' = Catalogue!Free, temp' = Catalogue!Absent, acked' = acked,
         UNCHANGED <<target, backup>>, hurt \subseteq hurt', hurt' \subseteq StoredScripts,
         catalogueLeft' \in Supply, catalogueLeft'.versions = catalogueLeft.versions, Untouched \/ op.id \in hurt' \/ Settled(op.id)
  PROVE  CatalogueInv'
  <1>1. CatalogueTypes'
    BY AbsentDirectory, FreeOperation DEF CatalogueInv, CatalogueTypes
  <1>2. DirectoriesWhole' /\ OperationFits'
    BY FreeOperation DEF CatalogueInv, DirectoriesWhole, OperationFits
  <1>3. ScriptsKept'
    BY FreeOperation DEF CatalogueInv, ScriptsKept, Settled
  <1> QED BY <1>1, <1>2, <1>3 DEF CatalogueInv

LEMMA CatalogueBegin ==
  ASSUME CatalogueInv, NEW id \in StoredScripts, NEW step \in {"source", "remove"},
         NEW kind \in {"create", "replace", "delete"}, Catalogue!Begin(kind, id, step),
         (kind = "delete") = (step = "remove"),
         IF step = "remove" THEN catalogueLeft' = catalogueLeft /\ target[id].there ELSE Catalogue!NewVersion,
         kind = "create" => acked[id] = 0 /\ id \notin hurt,
         kind = "replace" => Catalogue!Readable(target[id])
  PROVE  CatalogueInv'
  <1>1. /\ op = Catalogue!Free /\ op' = [at |-> step, kind |-> kind, id |-> id]
        /\ UNCHANGED <<target, backup, temp, acked, hurt>>
    BY DEF Catalogue!Begin
  <1>2. op'.at = step /\ op'.kind = kind /\ op'.id = id /\ op' \in Operations
    BY <1>1 DEF Operations
  <1>3. /\ catalogueLeft' \in Supply
        /\ step = "source" => Catalogue!Version' # 0
    <2>1. CASE step = "remove"
      BY <2>1 DEF CatalogueInv, CatalogueTypes
    <2>2. CASE step = "source"
      <3>1. Catalogue!NewVersion
        BY <2>2
      <3>2. catalogueLeft.versions > 0 /\ catalogueLeft \in Supply
        BY <3>1 DEF Catalogue!NewVersion, CatalogueInv, CatalogueTypes
      <3>3. catalogueLeft' \in Supply /\ catalogueLeft'.versions = catalogueLeft.versions - 1
        BY <3>1, <3>2, CatalogueAssumption DEF Catalogue!NewVersion, Supply
      <3> QED BY <2>2, <3>2, <3>3, CatalogueAssumption DEF Catalogue!Version, Supply
    <2> QED BY <2>1, <2>2
  <1>4. CatalogueTypes'
    BY <1>1, <1>2, <1>3 DEF CatalogueInv, CatalogueTypes
  <1>5. DirectoriesWhole' /\ OperationFits'
    BY <1>1, <1>2, <1>3 DEF CatalogueInv, DirectoriesWhole, OperationFits
  <1>6. ScriptsKept'
    <2>1. \A i \in StoredScripts \ hurt : Settled(i) /\ Settled(i)'
      BY <1>1, FreeOperation DEF CatalogueInv, ScriptsKept, Settled, Untouched
    <2>2. \A i \in StoredScripts \ hurt : Catalogue!Readable(target[i]) => acked[i] # 0 /\ target[i] = Catalogue!Files(acked[i])
      BY <2>1 DEF Settled, Catalogue!Readable
    <2> QED BY <1>1, <1>2, <2>1, <2>2 DEF ScriptsKept, Settled
  <1> QED BY <1>4, <1>5, <1>6 DEF CatalogueInv

LEMMA FaultTaken ==
  ASSUME CatalogueInv, Catalogue!Fault
  PROVE  catalogueLeft' \in Supply /\ catalogueLeft'.versions = catalogueLeft.versions
BY DEF CatalogueInv, CatalogueTypes, Supply, Catalogue!Fault

LEMMA CatalogueWrites ==
  ASSUME CatalogueInv, Catalogue!WriteSource \/ Catalogue!WriteMetadata
  PROVE  CatalogueInv'
  <1> DEFINE step == IF op.at = "source" THEN "definition" ELSE IF op.kind = "create" THEN "publish" ELSE "setAside"
  <1>1. op.at \in {"source", "definition"} /\ op' = [op EXCEPT !.at = step]
        /\ UNCHANGED <<target, backup, acked, hurt, catalogueLeft>>
    BY DEF Catalogue!WriteSource, Catalogue!WriteMetadata, Catalogue!At, Catalogue!Goto
  <1>2. Catalogue!Version \in Nat /\ Catalogue!Version # 0 /\ op.kind \in {"create", "replace"}
    BY <1>1, VersionType DEF CatalogueInv, OperationFits
  <1>3. temp' = [there |-> TRUE, source |-> Catalogue!Version, definition |-> IF op.at = "source" THEN 0 ELSE Catalogue!Version]
    <2>1. CASE op.at = "source"
      BY <2>1 DEF Catalogue!WriteSource, Catalogue!WriteMetadata, Catalogue!At, Catalogue!Absent
    <2>2. CASE op.at = "definition"
      <3>1. temp = [there |-> TRUE, source |-> Catalogue!Version, definition |-> 0]
        BY <2>2 DEF CatalogueInv, OperationFits
      <3>2. temp' = [temp EXCEPT !.definition = Catalogue!Version]
        BY <2>2 DEF Catalogue!WriteSource, Catalogue!WriteMetadata, Catalogue!At
      <3> QED BY <2>2, <3>1, <3>2
    <2> QED BY <1>1, <2>1, <2>2
  <1>4. op' \in Operations /\ op'.at = step /\ op'.kind = op.kind /\ op'.id = op.id
    BY <1>1 DEF CatalogueInv, CatalogueTypes, Operations
  <1>5. Catalogue!Version' = Catalogue!Version
    BY <1>1 DEF Catalogue!Version
  <1>6. /\ temp' \in Directories
        /\ op'.at = "definition" => temp' = [there |-> TRUE, source |-> Catalogue!Version, definition |-> 0]
        /\ op'.at # "definition" => temp' = Catalogue!Files(Catalogue!Version)
        /\ op'.at \in {"definition", "publish", "setAside"} /\ (op'.at = "publish" => op.kind = "create")
        /\ (op'.at = "setAside" => op.kind = "replace")
    <2>1. CASE op.at = "source"
      BY <1>2, <1>3, <1>4, <2>1 DEF Directories
    <2>2. CASE op.at = "definition"
      <3>1. temp' = Catalogue!Files(Catalogue!Version)
        BY <1>3, <2>2 DEF Catalogue!Files
      <3> QED BY <1>2, <1>4, <2>2, <3>1, FilesOf
    <2> QED BY <1>1, <2>1, <2>2
  <1> HIDE DEF step
  <1>7. CatalogueTypes'
    BY <1>1, <1>4, <1>6 DEF CatalogueInv, CatalogueTypes
  <1>8. DirectoriesWhole' /\ OperationFits'
    BY <1>1, <1>2, <1>4, <1>5, <1>6 DEF CatalogueInv, DirectoriesWhole, OperationFits
  <1>9. ScriptsKept'
    BY <1>1, <1>4, <1>6 DEF CatalogueInv, ScriptsKept, Settled, SetAsideOf, Untouched
  <1> QED BY <1>7, <1>8, <1>9 DEF CatalogueInv

LEMMA CatalogueSetAside ==
  ASSUME CatalogueInv, Catalogue!SetAside
  PROVE  CatalogueInv'
  <1>0. PICK i \in StoredScripts : i = op.id
    BY DEF CatalogueInv, CatalogueTypes, Catalogue!SetAside, Catalogue!At
  <1>1. op.at = "setAside" /\ op.kind = "replace" /\ UNCHANGED <<hurt, catalogueLeft>>
    BY DEF CatalogueInv, CatalogueTypes, OperationFits, Catalogue!SetAside, Catalogue!At
  <1>2. CASE Catalogue!Empty(backup[i])
    <2>1. /\ backup' = [backup EXCEPT ![i] = target[i]] /\ target' = [target EXCEPT ![i] = Catalogue!Absent]
          /\ op' = [op EXCEPT !.at = "publish"] /\ UNCHANGED <<temp, acked>>
      BY <1>0, <1>2 DEF Catalogue!SetAside, Catalogue!Goto, Catalogue!s
    <2>2. op' \in Operations /\ op'.at = "publish" /\ op'.kind = op.kind /\ op'.id = i
      BY <1>0, <2>1 DEF CatalogueInv, CatalogueTypes, Operations
    <2>3. /\ target' \in [StoredScripts -> Directories] /\ backup' \in [StoredScripts -> Directories]
          /\ target'[i] = Catalogue!Absent /\ backup'[i] = target[i]
          /\ \A j \in StoredScripts : j # i => target'[j] = target[j] /\ backup'[j] = backup[j]
      BY <1>1, <2>1, AbsentDirectory DEF CatalogueInv, CatalogueTypes
    <2>4. Catalogue!Version' = Catalogue!Version
      BY <1>1 DEF Catalogue!Version
    <2>5. CatalogueTypes'
      BY <1>1, <2>1, <2>2, <2>3 DEF CatalogueInv, CatalogueTypes
    <2>6. DirectoriesWhole'
      BY <1>1, <2>3, AbsentDirectory DEF CatalogueInv, DirectoriesWhole
    <2>7. OperationFits'
      BY <1>1, <2>1, <2>2, <2>4 DEF CatalogueInv, OperationFits
    <2>8. ScriptsKept'
      <3>1. i \notin hurt => SetAsideOf(i)'
        <4> SUFFICES ASSUME i \notin hurt PROVE SetAsideOf(i)'
          OBVIOUS
        <4>1. Settled(i) /\ Catalogue!Readable(target[i])
          BY <1>0, <1>1 DEF CatalogueInv, ScriptsKept, Untouched, OperationFits
        <4> QED BY <2>1, <2>3, <4>1 DEF Settled, SetAsideOf, Catalogue!Readable
      <3>2. \A j \in StoredScripts \ hurt : j # i => Settled(j)'
        <4>1. \A j \in StoredScripts \ hurt : Settled(j)
          BY <1>1 DEF CatalogueInv, ScriptsKept, Untouched
        <4> QED BY <2>1, <2>3, <4>1 DEF Settled
      <3> QED BY <1>1, <2>2, <3>1, <3>2 DEF ScriptsKept, Untouched
    <2> QED BY <2>5, <2>6, <2>7, <2>8 DEF CatalogueInv
  <1>3. CASE ~Catalogue!Empty(backup[i])
    <2>1. op' = Catalogue!Free /\ temp' = Catalogue!Absent /\ UNCHANGED <<acked, target, backup>>
      BY <1>0, <1>3 DEF Catalogue!SetAside, Catalogue!Fails, Catalogue!s
    <2>2. Untouched /\ catalogueLeft' \in Supply /\ catalogueLeft'.versions = catalogueLeft.versions
          /\ hurt \subseteq hurt' /\ hurt' \subseteq StoredScripts
      BY <1>1 DEF CatalogueInv, CatalogueTypes, Untouched
    <2> QED BY <2>1, <2>2, OperationFails
  <1> QED BY <1>2, <1>3

\* An operation ends with a script of which one version is in place.
LEMMA OperationDone ==
  ASSUME CatalogueInv, op' = Catalogue!Free, temp' = Catalogue!Absent, NEW v \in Nat, NEW i \in StoredScripts, i = op.id,
         acked' = [acked EXCEPT ![i] = v], catalogueLeft' \in Supply, hurt \subseteq hurt', hurt' \subseteq StoredScripts,
         target' \in [StoredScripts -> Directories], backup' \in [StoredScripts -> Directories],
         \A j \in StoredScripts : j # i => target'[j] = target[j] /\ backup'[j] = backup[j],
         OneVersion(target'[i]), OneVersion(backup'[i]), i \notin hurt' => Settled(i)'
  PROVE  CatalogueInv'
  <1>1. CatalogueTypes'
    BY AbsentDirectory, FreeOperation DEF CatalogueInv, CatalogueTypes
  <1>2. DirectoriesWhole' /\ OperationFits'
    BY FreeOperation DEF CatalogueInv, DirectoriesWhole, OperationFits
  <1>3. \A j \in StoredScripts : j # i => acked'[j] = acked[j]
    BY DEF CatalogueInv, CatalogueTypes
  <1>4. \A j \in StoredScripts \ hurt : j # i => Settled(j)'
    BY <1>3 DEF CatalogueInv, ScriptsKept, Settled
  <1>5. ScriptsKept'
    BY <1>4, FreeOperation DEF ScriptsKept
  <1> QED BY <1>1, <1>2, <1>5 DEF CatalogueInv

\* An operation goes on to another step, having changed its own directories.
LEMMA OperationGoesOn ==
  ASSUME CatalogueInv, NEW i \in StoredScripts, i = op.id, op' \in Operations, op'.id = i, op'.kind = op.kind,
         op'.at # "free", UNCHANGED <<acked, hurt>>, catalogueLeft' \in Supply, temp' \in Directories,
         target' \in [StoredScripts -> Directories], backup' \in [StoredScripts -> Directories],
         \A j \in StoredScripts : j # i => target'[j] = target[j] /\ backup'[j] = backup[j],
         OneVersion(target'[i]), OneVersion(backup'[i]), OperationFits', op.kind # "create", ~Untouched',
         i \notin hurt =>
           /\ op'.at \in {"publish", "restore"} => SetAsideOf(i)'
           /\ op'.at = "discard" => target'[i] = Catalogue!Files(Catalogue!Version)'
           /\ op'.at = "remove" => Catalogue!Empty(backup'[i])
                 /\ (Catalogue!Readable(target'[i]) => acked[i] # 0 /\ target'[i] = Catalogue!Files(acked[i]))
  PROVE  CatalogueInv'
  <1>1. CatalogueTypes'
    BY DEF CatalogueInv, CatalogueTypes
  <1>2. DirectoriesWhole'
    BY DEF CatalogueInv, DirectoriesWhole
  <1>3. \A j \in StoredScripts \ hurt : j # i => Settled(j)'
    BY DEF CatalogueInv, ScriptsKept, Settled
  <1>4. ScriptsKept'
    BY <1>3 DEF ScriptsKept
  <1> QED BY <1>1, <1>2, <1>4 DEF CatalogueInv

LEMMA CataloguePublish ==
  ASSUME CatalogueInv, Catalogue!Publish
  PROVE  CatalogueInv'
  <1>0. PICK i \in StoredScripts, v \in Nat : i = op.id /\ v = Catalogue!Version
    BY VersionType DEF CatalogueInv, CatalogueTypes, Catalogue!Publish, Catalogue!At
  <1>1. /\ op.at = "publish" /\ op.kind \in {"create", "replace"} /\ UNCHANGED <<backup, hurt, catalogueLeft>>
        /\ temp = Catalogue!Files(v) /\ v # 0
    BY <1>0 DEF CatalogueInv, CatalogueTypes, OperationFits, Catalogue!Publish, Catalogue!At
  <1>2. Catalogue!Version' = v
    BY <1>0, <1>1 DEF Catalogue!Version
  <1>3. target' = [target EXCEPT ![i] = Catalogue!Files(v)]
    BY <1>0, <1>1 DEF Catalogue!Publish, Catalogue!s
  <1>4. /\ target' \in [StoredScripts -> Directories] /\ backup' \in [StoredScripts -> Directories]
        /\ \A j \in StoredScripts : j # i => target'[j] = target[j] /\ backup'[j] = backup[j]
        /\ target'[i] = Catalogue!Files(v) /\ OneVersion(target'[i]) /\ OneVersion(backup'[i])
    BY <1>1, <1>2, <1>3, FilesOf DEF CatalogueInv, CatalogueTypes, DirectoriesWhole
  <1>5. CASE op.kind = "create"
    <2>1. op' = Catalogue!Free /\ temp' = Catalogue!Absent /\ acked' = [acked EXCEPT ![i] = v]
      BY <1>0, <1>5 DEF Catalogue!Publish, Catalogue!Done, Catalogue!s
    <2>2. catalogueLeft' \in Supply /\ hurt \subseteq hurt' /\ hurt' \subseteq StoredScripts /\ acked \in [StoredScripts -> Nat]
      BY <1>1 DEF CatalogueInv, CatalogueTypes
    <2>3. i \notin hurt' => Settled(i)'
      <3>1. i \notin hurt => Catalogue!Empty(backup[i])
        BY <1>1, <1>5 DEF CatalogueInv, ScriptsKept, Untouched, Settled
      <3> QED BY <1>1, <1>4, <2>1, <2>2, <3>1 DEF Settled
    <2> QED BY <1>0, <1>1, <1>4, <2>1, <2>2, <2>3, OperationDone
  <1>6. CASE op.kind = "replace"
    <2>1. op' = [op EXCEPT !.at = "discard"] /\ temp' = Catalogue!Absent /\ acked' = acked
      BY <1>6 DEF Catalogue!Publish, Catalogue!Goto
    <2>2. op' \in Operations /\ op'.at = "discard" /\ op'.kind = op.kind /\ op'.id = i
      BY <1>0, <2>1 DEF CatalogueInv, CatalogueTypes, Operations
    <2>3. OperationFits' /\ ~Untouched'
      BY <1>0, <1>1, <1>2, <1>6, <2>2 DEF OperationFits, Untouched
    <2>4. catalogueLeft' \in Supply /\ temp' \in Directories
      BY <1>1, <2>1, AbsentDirectory DEF CatalogueInv, CatalogueTypes
    <2>5. Catalogue!Files(Catalogue!Version)' = Catalogue!Files(v)
      BY <1>2 DEF Catalogue!Files
    <2> QED BY <1>0, <1>1, <1>4, <1>6, <2>1, <2>2, <2>3, <2>4, <2>5, OperationGoesOn
  <1> QED BY <1>1, <1>5, <1>6

LEMMA CatalogueWriteFails ==
  ASSUME CatalogueInv, Catalogue!WriteFails
  PROVE  CatalogueInv'
  <1>1. /\ op' = Catalogue!Free /\ temp' = Catalogue!Absent /\ UNCHANGED <<acked, target, backup, hurt>> /\ Catalogue!Fault
        /\ op.at \in {"source", "definition", "setAside"}
    BY DEF Catalogue!WriteFails, Catalogue!Fails
  <1>2. Untouched /\ hurt \subseteq hurt' /\ hurt' \subseteq StoredScripts
    BY <1>1 DEF Untouched, CatalogueInv, CatalogueTypes
  <1> QED BY <1>1, <1>2, FaultTaken, OperationFails

LEMMA CataloguePublishFails ==
  ASSUME CatalogueInv, Catalogue!PublishFails
  PROVE  CatalogueInv'
  <1>0. PICK i \in StoredScripts : i = op.id
    BY DEF CatalogueInv, CatalogueTypes, Catalogue!PublishFails, Catalogue!At
  <1>1. /\ op.at = "publish" /\ op.kind \in {"create", "replace"} /\ UNCHANGED <<target, backup, hurt>> /\ Catalogue!Fault
        /\ Catalogue!Version # 0
    BY DEF CatalogueInv, OperationFits, Catalogue!PublishFails, Catalogue!At
  <1>2. CASE op.kind = "create"
    <2>1. op' = Catalogue!Free /\ temp' = Catalogue!Absent /\ acked' = acked
      BY <1>2 DEF Catalogue!PublishFails, Catalogue!Fails
    <2>2. Untouched /\ hurt \subseteq hurt' /\ hurt' \subseteq StoredScripts
      BY <1>1, <1>2 DEF Untouched, CatalogueInv, CatalogueTypes
    <2> QED BY <1>1, <2>1, <2>2, FaultTaken, OperationFails
  <1>3. CASE op.kind = "replace"
    <2>1. op' = [op EXCEPT !.at = "restore"] /\ UNCHANGED <<temp, acked>>
      BY <1>3 DEF Catalogue!PublishFails, Catalogue!Goto
    <2>2. op' \in Operations /\ op'.at = "restore" /\ op'.kind = op.kind /\ op'.id = i
      BY <1>0, <2>1 DEF CatalogueInv, CatalogueTypes, Operations
    <2>3. catalogueLeft' \in Supply /\ Catalogue!Version' = Catalogue!Version
      BY <1>1, FaultTaken DEF Catalogue!Version
    <2>4. OperationFits' /\ ~Untouched'
      BY <1>1, <1>3, <2>2, <2>3 DEF OperationFits, Untouched
    <2>5. /\ target' \in [StoredScripts -> Directories] /\ backup' \in [StoredScripts -> Directories] /\ temp' \in Directories
          /\ OneVersion(target'[i]) /\ OneVersion(backup'[i])
      BY <1>1, <2>1 DEF CatalogueInv, CatalogueTypes, DirectoriesWhole
    <2>6. i \notin hurt => SetAsideOf(i)'
      BY <1>0, <1>1, <1>3, <2>1 DEF CatalogueInv, ScriptsKept, SetAsideOf
    <2> QED BY <1>0, <1>1, <1>3, <2>1, <2>2, <2>3, <2>4, <2>5, <2>6, OperationGoesOn
  <1> QED BY <1>1, <1>2, <1>3

LEMMA CatalogueRestore ==
  ASSUME CatalogueInv, Catalogue!Restore
  PROVE  CatalogueInv'
  <1>0. PICK i \in StoredScripts : i = op.id
    BY DEF CatalogueInv, CatalogueTypes, Catalogue!Restore, Catalogue!At
  <1>1. /\ op.at = "restore" /\ op.kind = "replace" /\ UNCHANGED <<hurt, catalogueLeft>>
        /\ op' = Catalogue!Free /\ temp' = Catalogue!Absent /\ acked' = acked
        /\ target' = [target EXCEPT ![i] = backup[i]] /\ backup' = [backup EXCEPT ![i] = Catalogue!Absent]
    BY <1>0 DEF CatalogueInv, OperationFits, Catalogue!Restore, Catalogue!At, Catalogue!Fails, Catalogue!s
  <1>2. /\ target' \in [StoredScripts -> Directories] /\ backup' \in [StoredScripts -> Directories]
        /\ \A j \in StoredScripts : j # i => target'[j] = target[j] /\ backup'[j] = backup[j]
        /\ target'[i] = backup[i] /\ backup'[i] = Catalogue!Absent /\ OneVersion(target'[i]) /\ OneVersion(backup'[i])
    BY <1>1, AbsentDirectory DEF CatalogueInv, CatalogueTypes, DirectoriesWhole
  <1>3. acked[i] \in Nat /\ acked' = [acked EXCEPT ![i] = acked[i]]
    BY <1>1 DEF CatalogueInv, CatalogueTypes
  <1>4. i \notin hurt' => Settled(i)'
    <2>1. i \notin hurt => SetAsideOf(i)
      BY <1>0, <1>1 DEF CatalogueInv, ScriptsKept
    <2> QED BY <1>1, <1>2, <2>1, AbsentDirectory DEF SetAsideOf, Settled
  <1>5. catalogueLeft' \in Supply /\ hurt \subseteq hurt' /\ hurt' \subseteq StoredScripts
    BY <1>1 DEF CatalogueInv, CatalogueTypes
  <1> QED BY <1>0, <1>1, <1>2, <1>3, <1>4, <1>5, OperationDone

LEMMA CatalogueRestoreFails ==
  ASSUME CatalogueInv, Catalogue!RestoreFails
  PROVE  CatalogueInv'
  <1>1. /\ op' = Catalogue!Free /\ temp' = Catalogue!Absent /\ UNCHANGED <<acked, target, backup>> /\ Catalogue!Fault
        /\ op.id \in StoredScripts /\ hurt' = hurt \union {op.id}
    BY DEF Catalogue!RestoreFails, Catalogue!Fails, Catalogue!s, Catalogue!At, CatalogueInv, CatalogueTypes
  <1>2. hurt \subseteq hurt' /\ hurt' \subseteq StoredScripts /\ op.id \in hurt'
    BY <1>1 DEF CatalogueInv, CatalogueTypes
  <1> QED BY <1>1, <1>2, FaultTaken, OperationFails

LEMMA RemovedDirectory ==
  ASSUME NEW d \in Directories, OneVersion(d)
  PROVE  /\ Catalogue!Removed(d) \in Directories /\ OneVersion(Catalogue!Removed(d))
         /\ ~Catalogue!Readable(Catalogue!Removed(d))
         /\ ~Catalogue!Removed(d).there => Catalogue!Removed(d) = Catalogue!Absent
  <1>1. CASE d.source # 0
    <2>1. Catalogue!Removed(d) = [d EXCEPT !.source = 0]
      BY <1>1 DEF Catalogue!Removed
    <2>2. d.there
      BY <1>1 DEF OneVersion, Catalogue!Absent
    <2> QED BY <2>1, <2>2 DEF Directories, OneVersion, Catalogue!Readable
  <1>2. CASE d.source = 0 /\ d.definition # 0
    <2>1. Catalogue!Removed(d) = [d EXCEPT !.definition = 0]
      BY <1>2 DEF Catalogue!Removed
    <2>2. d.there
      BY <1>2 DEF OneVersion, Catalogue!Absent
    <2> QED BY <2>1, <2>2 DEF Directories, OneVersion, Catalogue!Readable
  <1>3. CASE d.source = 0 /\ d.definition = 0
    <2>1. Catalogue!Removed(d) = Catalogue!Absent
      BY <1>3 DEF Catalogue!Removed
    <2> QED BY <2>1, AbsentDirectory DEF Catalogue!Readable
  <1> QED BY <1>1, <1>2, <1>3

LEMMA CatalogueDiscard ==
  ASSUME CatalogueInv, Catalogue!Discard
  PROVE  CatalogueInv'
  <1>0. PICK i \in StoredScripts, v \in Nat : i = op.id /\ v = Catalogue!Version
    BY VersionType DEF CatalogueInv, CatalogueTypes, Catalogue!Discard, Catalogue!At
  <1>1. /\ op.at = "discard" /\ op.kind = "replace" /\ v # 0 /\ UNCHANGED <<target, hurt, catalogueLeft>>
        /\ backup' = [backup EXCEPT ![i] = Catalogue!Removed(backup[i])]
    BY <1>0 DEF CatalogueInv, OperationFits, Catalogue!Discard, Catalogue!At, Catalogue!s
  <1>2. backup[i] \in Directories /\ OneVersion(backup[i]) /\ OneVersion(target[i])
    BY DEF CatalogueInv, CatalogueTypes, DirectoriesWhole
  <1>3. /\ target' \in [StoredScripts -> Directories] /\ backup' \in [StoredScripts -> Directories]
        /\ \A j \in StoredScripts : j # i => target'[j] = target[j] /\ backup'[j] = backup[j]
        /\ target'[i] = target[i] /\ backup'[i] = Catalogue!Removed(backup[i])
        /\ OneVersion(target'[i]) /\ OneVersion(backup'[i])
    BY <1>1, <1>2, RemovedDirectory DEF CatalogueInv, CatalogueTypes
  <1>4. i \notin hurt => target[i] = Catalogue!Files(v)
    BY <1>0, <1>1 DEF CatalogueInv, ScriptsKept
  <1>5. Catalogue!Version' = v
    BY <1>0, <1>1 DEF Catalogue!Version
  <1>6. catalogueLeft' \in Supply /\ hurt \subseteq hurt' /\ hurt' \subseteq StoredScripts /\ acked \in [StoredScripts -> Nat]
    BY <1>1 DEF CatalogueInv, CatalogueTypes
  <1>7. CASE Catalogue!Removed(backup[i]).there
    <2>1. UNCHANGED <<op, temp, acked>>
      BY <1>0, <1>7 DEF Catalogue!Discard, Catalogue!s
    <2>2. op' \in Operations /\ temp' \in Directories
      BY <2>1 DEF CatalogueInv, CatalogueTypes
    <2>3. OperationFits' /\ ~Untouched'
      BY <1>0, <1>1, <1>5, <2>1 DEF OperationFits, Untouched
    <2>4. i \notin hurt => target'[i] = Catalogue!Files(Catalogue!Version)'
      BY <1>3, <1>4, <1>5 DEF Catalogue!Files
    <2> QED BY <1>0, <1>1, <1>3, <1>6, <2>1, <2>2, <2>3, <2>4, OperationGoesOn
  <1>8. CASE ~Catalogue!Removed(backup[i]).there
    <2>1. op' = Catalogue!Free /\ temp' = Catalogue!Absent /\ acked' = [acked EXCEPT ![i] = v]
      BY <1>0, <1>8 DEF Catalogue!Discard, Catalogue!Done, Catalogue!s
    <2>2. backup'[i] = Catalogue!Absent
      BY <1>2, <1>3, <1>8, RemovedDirectory
    <2>3. i \notin hurt' => Settled(i)'
      BY <1>1, <1>3, <1>4, <1>6, <2>1, <2>2, AbsentDirectory DEF Settled
    <2> QED BY <1>0, <1>3, <1>6, <2>1, <2>3, OperationDone
  <1> QED BY <1>7, <1>8

LEMMA CatalogueDiscardFails ==
  ASSUME CatalogueInv, Catalogue!DiscardFails
  PROVE  CatalogueInv'
  <1>0. PICK i \in StoredScripts, v \in Nat : i = op.id /\ v = Catalogue!Version
    BY VersionType DEF CatalogueInv, CatalogueTypes, Catalogue!DiscardFails, Catalogue!At
  <1>1. /\ op' = Catalogue!Free /\ temp' = Catalogue!Absent /\ acked' = [acked EXCEPT ![i] = v]
        /\ UNCHANGED <<target, backup>> /\ Catalogue!Fault /\ hurt' = hurt \union {i}
    BY <1>0 DEF Catalogue!DiscardFails, Catalogue!Done, Catalogue!s
  <1>2. /\ target' \in [StoredScripts -> Directories] /\ backup' \in [StoredScripts -> Directories]
        /\ \A j \in StoredScripts : j # i => target'[j] = target[j] /\ backup'[j] = backup[j]
        /\ OneVersion(target'[i]) /\ OneVersion(backup'[i])
        /\ hurt \subseteq hurt' /\ hurt' \subseteq StoredScripts /\ i \in hurt'
    BY <1>1 DEF CatalogueInv, CatalogueTypes, DirectoriesWhole
  <1> QED BY <1>0, <1>1, <1>2, FaultTaken, OperationDone

LEMMA CatalogueRemove ==
  ASSUME CatalogueInv, Catalogue!Remove
  PROVE  CatalogueInv'
  <1>0. PICK i \in StoredScripts : i = op.id
    BY DEF CatalogueInv, CatalogueTypes, Catalogue!Remove, Catalogue!At
  <1>1. /\ op.at = "remove" /\ op.kind # "create" /\ UNCHANGED <<backup, hurt, catalogueLeft>>
        /\ target' = [target EXCEPT ![i] = Catalogue!Removed(target[i])]
    BY <1>0 DEF CatalogueInv, OperationFits, Catalogue!Remove, Catalogue!At, Catalogue!s
  <1>2. target[i] \in Directories /\ OneVersion(target[i]) /\ OneVersion(backup[i])
    BY DEF CatalogueInv, CatalogueTypes, DirectoriesWhole
  <1>3. /\ target' \in [StoredScripts -> Directories] /\ backup' \in [StoredScripts -> Directories]
        /\ \A j \in StoredScripts : j # i => target'[j] = target[j] /\ backup'[j] = backup[j]
        /\ backup'[i] = backup[i] /\ target'[i] = Catalogue!Removed(target[i])
        /\ OneVersion(target'[i]) /\ OneVersion(backup'[i]) /\ ~Catalogue!Readable(target'[i])
    BY <1>1, <1>2, RemovedDirectory DEF CatalogueInv, CatalogueTypes
  <1>4. i \notin hurt => Catalogue!Empty(backup[i])
    BY <1>0, <1>1 DEF CatalogueInv, ScriptsKept
  <1>5. catalogueLeft' \in Supply /\ hurt \subseteq hurt' /\ hurt' \subseteq StoredScripts /\ acked \in [StoredScripts -> Nat]
    BY <1>1 DEF CatalogueInv, CatalogueTypes
  <1>6. CASE Catalogue!Removed(target[i]).there
    <2>1. UNCHANGED <<op, temp, acked>>
      BY <1>0, <1>6 DEF Catalogue!Remove, Catalogue!s
    <2>2. op' \in Operations /\ temp' \in Directories
      BY <2>1 DEF CatalogueInv, CatalogueTypes
    <2>3. OperationFits' /\ ~Untouched'
      BY <1>1, <2>1 DEF OperationFits, Untouched
    <2> QED BY <1>0, <1>1, <1>3, <1>4, <1>5, <2>1, <2>2, <2>3, OperationGoesOn
  <1>7. CASE ~Catalogue!Removed(target[i]).there
    <2>1. op' = Catalogue!Free /\ temp' = Catalogue!Absent /\ acked' = [acked EXCEPT ![i] = 0]
      BY <1>0, <1>7 DEF Catalogue!Remove, Catalogue!Done, Catalogue!s
    <2>2. i \notin hurt' => Settled(i)'
      BY <1>1, <1>3, <1>4, <1>5, <1>7, <2>1 DEF Settled
    <2> QED BY <1>0, <1>3, <1>5, <2>1, <2>2, OperationDone
  <1> QED BY <1>6, <1>7

LEMMA CatalogueRemoveFails ==
  ASSUME CatalogueInv, Catalogue!RemoveFails
  PROVE  CatalogueInv'
  <1>0. PICK i \in StoredScripts : i = op.id
    BY DEF CatalogueInv, CatalogueTypes, Catalogue!RemoveFails, Catalogue!At
  <1>1. /\ op.at = "remove" /\ op' = Catalogue!Free /\ temp' = Catalogue!Absent
        /\ UNCHANGED <<acked, target, backup>> /\ Catalogue!Fault
        /\ hurt' = IF Catalogue!Readable(target[i]) THEN hurt ELSE hurt \union {i}
    BY <1>0 DEF Catalogue!RemoveFails, Catalogue!Fails, Catalogue!At, Catalogue!s
  <1>2. hurt \subseteq hurt' /\ hurt' \subseteq StoredScripts
    BY <1>1 DEF CatalogueInv, CatalogueTypes
  <1>3. i \in hurt' \/ Settled(i)
    BY <1>0, <1>1 DEF CatalogueInv, ScriptsKept, Settled
  <1> QED BY <1>0, <1>1, <1>2, <1>3, FaultTaken, OperationFails

LEMMA CatalogueCrash ==
  ASSUME CatalogueInv, Catalogue!Crash
  PROVE  CatalogueInv'
  <1>1. /\ op # Catalogue!Free /\ op' = Catalogue!Free /\ temp' = Catalogue!Absent /\ UNCHANGED <<acked, target, backup>>
        /\ catalogueLeft' = [catalogueLeft EXCEPT !.crashes = catalogueLeft.crashes - 1]
        /\ hurt' = IF op.at \in {"source", "definition", "setAside"} \/ op.kind = "create" THEN hurt ELSE hurt \union {op.id}
    BY DEF Catalogue!Crash, Catalogue!s
  <1>2. op.id \in StoredScripts
    BY <1>1 DEF CatalogueInv, CatalogueTypes
  <1>3. catalogueLeft' \in Supply /\ catalogueLeft'.versions = catalogueLeft.versions
    BY <1>1 DEF CatalogueInv, CatalogueTypes, Supply
  <1>4. hurt \subseteq hurt' /\ hurt' \subseteq StoredScripts /\ (Untouched \/ op.id \in hurt')
    BY <1>1, <1>2 DEF CatalogueInv, CatalogueTypes, Untouched
  <1> QED BY <1>1, <1>3, <1>4, OperationFails

LEMMA CatalogueNext == ASSUME CatalogueInv, Catalogue!Next PROVE CatalogueInv'
  <1>1. ASSUME NEW id \in StoredScripts, Catalogue!Create(id) PROVE CatalogueInv'
    BY <1>1, CatalogueBegin DEF Catalogue!Create
  <1>2. ASSUME NEW id \in StoredScripts, Catalogue!Replace(id) PROVE CatalogueInv'
    BY <1>2, CatalogueBegin DEF Catalogue!Replace
  <1>3. ASSUME NEW id \in StoredScripts, Catalogue!Delete(id) PROVE CatalogueInv'
    BY <1>3, CatalogueBegin DEF Catalogue!Delete
  <1> QED BY <1>1, <1>2, <1>3, CatalogueWrites, CatalogueWriteFails, CatalogueSetAside, CataloguePublish,
             CataloguePublishFails, CatalogueRestore, CatalogueRestoreFails, CatalogueDiscard, CatalogueDiscardFails,
             CatalogueRemove, CatalogueRemoveFails, CatalogueCrash
      DEF Catalogue!Next

LEMMA CatalogueGives == ASSUME CatalogueInv PROVE Catalogue!CatalogueIsWhole
BY DEF CatalogueInv, DirectoriesWhole, OneVersion, ScriptsKept, Untouched, Settled, Catalogue!CatalogueIsWhole, Catalogue!Free

-----------------------------------------------------------------------------
(* Results: what a directory of a task may hold, and who deletes it.       *)

Outcomes == {"none", "own", "interrupted"}
Entries == [there : BOOLEAN, temp : BOOLEAN, task : Outcomes \union {"active"},
            summary : Outcomes, result : Outcomes, series : BOOLEAN]
Paths == {"temp", "task", "summary", "result", "series", "dir"}
Saves == {"run", "summary", "result", "record", "retain"}
Completions == [at : Saves \union {"walk", "delete", "done"}, victims : Seq(Tasks), files : SUBSET Paths]
Readers == [at : {"idle", "legacy", "write", "move"}, task : Tasks \union {"none"}, found : Outcomes]
Recoveries == [at : {"idle", "next", "summary", "result", "record"}, rest : SUBSET Tasks, task : Tasks \union {"none"}]
Bounds == [lists : Nat, crashes : 0..ResultCrashes]
ResultsTypes ==
  /\ dir \in [Tasks -> Entries]
  /\ thread \in [Tasks -> Completions]
  /\ reader \in Readers
  /\ recover \in Recoveries
  /\ touched \in SUBSET Tasks
  /\ resultsLeft \in Bounds

Calm == resultsLeft.crashes = ResultCrashes
NoneYet == {"none", "own"}

(* Before the first crash nothing is interrupted and nothing recovers;     *)
(* after it no completion of an earlier process goes on.                   *)
CalmFirst ==
  /\ Calm => /\ Results!Up
             /\ \A t \in Tasks : dir[t].task # "interrupted" /\ dir[t].summary # "interrupted"
                                 /\ dir[t].result # "interrupted"
  /\ ~Calm => \A t \in Tasks : thread[t] = Results!Over
  /\ ~Results!Up => reader.at = "idle"

OneOutcome ==
  \A t \in Tasks :
    /\ dir[t].task \in NoneYet => dir[t].summary \in NoneYet /\ dir[t].result \in NoneYet
    /\ dir[t].task = "interrupted" => dir[t].summary \in {"none", "interrupted"} /\ dir[t].result \in {"none", "interrupted"}

RecoveryFits ==
  /\ Results!Up => recover = Results!NotRecovering
  /\ \A t \in recover.rest : dir[t].task = "active"
  /\ recover.at \in {"summary", "result", "record"} =>
       recover.task \in Tasks /\ recover.task \notin recover.rest /\ dir[recover.task].task = "active"
  /\ recover.at \in {"result", "record"} => dir[recover.task].summary = "interrupted"
  /\ recover.at = "record" => dir[recover.task].result = "interrupted"

ReaderFits ==
  reader.at # "idle" =>
    /\ reader.task \in Tasks /\ dir[reader.task].task \in NoneYet
    /\ reader.at \in {"write", "move"} => reader.found = "own"
    /\ reader.at = "move" => reader.task \in touched

Deleting(u) == thread[u].at = "delete"
Deleted(t) == \E u \in Tasks : Deleting(u) /\ Head(thread[u].victims) = t
DeletionFits ==
  \A u \in Tasks :
    /\ thread[u].at \notin {"walk", "delete"} => thread[u].victims = <<>>
    /\ Deleting(u) => /\ thread[u].victims # <<>> /\ "dir" \in thread[u].files
                      /\ Head(thread[u].victims) \notin touched =>
                           Results!Holds(dir[Head(thread[u].victims)]) \subseteq thread[u].files

Whole == [there |-> TRUE, temp |-> FALSE, task |-> "own", summary |-> "own", result |-> "own", series |-> FALSE]
Indexed == [Results!Active EXCEPT !.summary = "own"]
Unrecorded == [Whole EXCEPT !.task = "active"]

(* A directory nobody wrote to while it was deleted.                       *)
TaskFits(t) ==
  /\ ~dir[t].there => dir[t] = Results!Nothing
  /\ thread[t].at \in {"run", "summary"} => dir[t] = Results!Active
  /\ thread[t].at = "result" => dir[t] = Indexed
  /\ thread[t].at = "record" /\ ~Deleted(t) => dir[t] \in {Unrecorded, Results!Nothing}
  /\ thread[t].at \in {"retain", "walk", "delete", "done"} /\ ~Deleted(t) => dir[t] \in {Whole, Results!Nothing}
TasksFit == Calm => \A t \in Tasks \ touched : TaskFits(t)
NotEnded == {"run", "summary", "result"}
VictimsEnded == \A t \in Tasks : thread[t].at \in NotEnded => t \notin Results!Victims /\ t \notin touched

Kept == Results!Listed \ Results!Victims
Retained == (\A t \in Tasks : thread[t].at \notin Saves) /\ Calm /\ touched = {} /\ Cardinality(Tasks) <= ListLimit
KeptFits == Retained => Cardinality(Kept) <= MaxResults

ResultsInv ==
  /\ ResultsTypes /\ CalmFirst /\ OneOutcome /\ RecoveryFits /\ ReaderFits
  /\ DeletionFits /\ TasksFit /\ VictimsEnded /\ KeptFits

-----------------------------------------------------------------------------
LEMMA ResultsStart == Results!Init => ResultsInv
<1> SUFFICES ASSUME Results!Init PROVE ResultsInv
  OBVIOUS
<1> USE ResultsAssumption DEF Results!Init, Results!Active, Results!Nothing, Results!Over, Results!NotReading,
      Results!NotRecovering, Results!Up
<1>1. ResultsTypes
  <2>1. Results!Active \in Entries
    BY DEF Entries, Outcomes
  <2>2. dir \in [Tasks -> Entries]
    BY <2>1
  <2>3. <<>> \in Seq(Tasks) /\ {} \in SUBSET Paths
    OBVIOUS
  <2>4. thread \in [Tasks -> Completions]
    BY <2>3 DEF Saves, Completions
  <2>5. resultsLeft \in Bounds
    BY DEF Bounds
  <2> QED
    BY <2>2, <2>4, <2>5 DEF Completions, ResultsTypes, Outcomes, Readers, Recoveries, Bounds
<1>2. Calm /\ CalmFirst /\ OneOutcome /\ RecoveryFits /\ ReaderFits /\ DeletionFits
  BY DEF CalmFirst, Calm, OneOutcome, RecoveryFits, ReaderFits, DeletionFits, Deleting, NoneYet
<1>3. \A t \in Tasks : thread[t].at = "run" /\ thread[t].victims = <<>>
  OBVIOUS
<1>4. Results!Victims = {} /\ touched = {}
  BY <1>3 DEF Results!Victims
<1>5. TasksFit /\ VictimsEnded
  BY <1>3, <1>4 DEF TasksFit, TaskFits, VictimsEnded
<1>6. KeptFits
  <2>1. CASE Tasks = {}
    <3>1. Kept = {}
      BY <2>1 DEF Kept, Results!Listed
    <3> QED
      BY <3>1, FS_EmptySet DEF KeptFits
  <2>2. CASE Tasks # {}
    BY <2>2, <1>3 DEF KeptFits, Retained, Saves
  <2> QED
    BY <2>1, <2>2
<1> QED
  BY <1>1, <1>2, <1>5, <1>6 DEF ResultsInv

-----------------------------------------------------------------------------
LEMMA VictimsAre ==
  ASSUME NEW th, NEW x
  PROVE  x \in UNION {{th[u].victims[i] : i \in DOMAIN th[u].victims} : u \in Tasks}
         <=> \E u \in Tasks : \E i \in DOMAIN th[u].victims : th[u].victims[i] = x
OBVIOUS

LEMMA VictimsNow ==
  \A x : x \in Results!Victims <=> \E u \in Tasks : \E i \in DOMAIN thread[u].victims : thread[u].victims[i] = x
BY VictimsAre DEF Results!Victims
LEMMA VictimsNext ==
  \A x : x \in Results!Victims' <=> \E u \in Tasks : \E i \in DOMAIN thread'[u].victims : thread'[u].victims[i] = x
BY VictimsAre DEF Results!Victims

LEMMA SameVictims ==
  ASSUME \A u \in Tasks : thread'[u].victims = thread[u].victims
  PROVE  Results!Victims' = Results!Victims
BY DEF Results!Victims

LEMMA SameCardinality == \A S : Results!Cardinality(S) = Cardinality(S)
BY Zenon DEF Results!Cardinality, Cardinality

(* A completion that saves: it moves on and no other does.                 *)
LEMMA SavesMove ==
  ASSUME ResultsInv, NEW t \in Tasks, NEW s \in Saves, Results!Go(t, s),
         thread[t].at \in Saves \ {"retain"}
  PROVE  /\ Calm /\ Results!Up
         /\ thread' \in [Tasks -> Completions]
         /\ thread'[t].at = s
         /\ \A u \in Tasks \ {t} : thread'[u] = thread[u]
         /\ \A u \in Tasks : thread'[u].victims = thread[u].victims /\ thread'[u].files = thread[u].files
         /\ \A u \in Tasks : Deleting(u)' <=> Deleting(u)
         /\ \A x : Deleted(x)' <=> Deleted(x)
         /\ Results!Victims' = Results!Victims
         /\ ~Retained'
<1> USE DEF ResultsInv, Results!Go
<1>1. Calm /\ Results!Up
  BY DEF CalmFirst, Results!Over, Saves
<1>2. /\ thread' \in [Tasks -> Completions]
      /\ thread'[t].at = s
      /\ \A u \in Tasks \ {t} : thread'[u] = thread[u]
      /\ \A u \in Tasks : thread'[u].victims = thread[u].victims /\ thread'[u].files = thread[u].files
  BY DEF Completions, ResultsTypes
<1>3. \A u \in Tasks : Deleting(u)' <=> Deleting(u)
  BY <1>2 DEF Deleting, Saves
<1>4. \A x : Deleted(x)' <=> Deleted(x)
  BY <1>2, <1>3 DEF Deleted
<1>5. Results!Victims' = Results!Victims
  BY <1>2, SameVictims
<1>6. ~Retained'
  BY <1>2 DEF Retained
<1> QED
  BY <1>1, <1>2, <1>3, <1>4, <1>5, <1>6

LEMMA CompletionMoves ==
  ASSUME ResultsTypes, NEW t \in Tasks, NEW e \in Completions, thread' = [thread EXCEPT ![t] = e]
  PROVE  thread' \in [Tasks -> Completions] /\ thread'[t] = e /\ \A u \in Tasks \ {t} : thread'[u] = thread[u]
BY DEF Completions, ResultsTypes

LEMMA HeadIsVictim ==
  ASSUME ResultsTypes, NEW u \in Tasks, thread[u].victims # <<>>
  PROVE  Head(thread[u].victims) \in Tasks /\ Head(thread[u].victims) \in Results!Victims
<1>1. thread[u].victims \in Seq(Tasks)
  BY DEF Completions, ResultsTypes
<1>2. 1 \in DOMAIN thread[u].victims /\ Head(thread[u].victims) = thread[u].victims[1]
  BY <1>1
<1> QED
  BY <1>1, <1>2 DEF Results!Victims

LEMMA DeletedIsVictim ==
  ASSUME ResultsInv, NEW t, Deleted(t)
  PROVE  t \in Results!Victims
BY HeadIsVictim DEF Deleted, ResultsInv, DeletionFits

LEMMA SameEntry ==
  ASSUME NEW d \in Entries, NEW e \in Entries, d.there = e.there, d.temp = e.temp, d.task = e.task,
         d.summary = e.summary, d.result = e.result, d.series = e.series
  PROVE  d = e
BY DEF Entries

LEMMA EntriesOfATask ==
  /\ Results!Nothing \in Entries /\ Results!Nothing.there = FALSE /\ Results!Nothing.task = "none"
     /\ Results!Nothing.summary = "none" /\ Results!Nothing.result = "none"
  /\ Results!Active \in Entries /\ Results!Active.task = "active" /\ Results!Active.result = "none"
  /\ Indexed \in Entries /\ Indexed.there = TRUE /\ Indexed.temp = FALSE /\ Indexed.task = "active"
     /\ Indexed.summary = "own" /\ Indexed.result = "none" /\ Indexed.series = TRUE
  /\ Unrecorded \in Entries /\ Unrecorded.there = TRUE /\ Unrecorded.temp = FALSE /\ Unrecorded.task = "active"
     /\ Unrecorded.summary = "own" /\ Unrecorded.result = "own" /\ Unrecorded.series = FALSE
  /\ Whole \in Entries /\ Whole.there = TRUE /\ Whole.temp = FALSE /\ Whole.task = "own"
     /\ Whole.summary = "own" /\ Whole.result = "own" /\ Whole.series = FALSE
<1>1. Results!Nothing \in Entries /\ Results!Nothing.there = FALSE /\ Results!Nothing.task = "none"
     /\ Results!Nothing.summary = "none" /\ Results!Nothing.result = "none"
  BY DEF Results!Nothing, Entries, Outcomes
<1>2. Indexed \in Entries /\ Indexed.there = TRUE /\ Indexed.temp = FALSE /\ Indexed.task = "active"
     /\ Indexed.summary = "own" /\ Indexed.result = "none" /\ Indexed.series = TRUE
  BY DEF Indexed, Results!Active, Results!Nothing, Entries, Outcomes
<1>3. Unrecorded \in Entries /\ Unrecorded.there = TRUE /\ Unrecorded.temp = FALSE /\ Unrecorded.task = "active"
     /\ Unrecorded.summary = "own" /\ Unrecorded.result = "own" /\ Unrecorded.series = FALSE
  BY DEF Unrecorded, Whole, Entries, Outcomes
<1>4. Whole \in Entries /\ Whole.there = TRUE /\ Whole.temp = FALSE /\ Whole.task = "own"
     /\ Whole.summary = "own" /\ Whole.result = "own" /\ Whole.series = FALSE
  BY DEF Whole, Entries, Outcomes
<1>5. Results!Active \in Entries /\ Results!Active.task = "active" /\ Results!Active.result = "none"
  BY DEF Results!Active, Results!Nothing, Entries, Outcomes
<1> QED
  BY <1>1, <1>2, <1>3, <1>4, <1>5

LEMMA ResultSaved == [Indexed EXCEPT !.result = "own", !.series = FALSE] = Unrecorded
<1>1. PICK e : e = [Indexed EXCEPT !.result = "own", !.series = FALSE]
  OBVIOUS
<1>2. e \in Entries /\ e.there = TRUE /\ e.temp = FALSE /\ e.task = "active" /\ e.summary = "own"
      /\ e.result = "own" /\ e.series = FALSE
  BY <1>1, EntriesOfATask DEF Entries, Outcomes
<1>3. Unrecorded \in Entries /\ Unrecorded.there = TRUE /\ Unrecorded.temp = FALSE /\ Unrecorded.task = "active"
      /\ Unrecorded.summary = "own" /\ Unrecorded.result = "own" /\ Unrecorded.series = FALSE
  BY EntriesOfATask
<1>4. e = Unrecorded
  BY <1>2, <1>3, SameEntry
<1> QED
  BY <1>1, <1>4

LEMMA RecordSaved == [Unrecorded EXCEPT !.there = TRUE, !.task = "own"] = Whole
<1>1. PICK e : e = [Unrecorded EXCEPT !.there = TRUE, !.task = "own"]
  OBVIOUS
<1>2. e \in Entries /\ e.there = TRUE /\ e.temp = FALSE /\ e.task = "own" /\ e.summary = "own"
      /\ e.result = "own" /\ e.series = FALSE
  BY <1>1, EntriesOfATask DEF Entries, Outcomes
<1>3. Whole \in Entries /\ Whole.there = TRUE /\ Whole.temp = FALSE /\ Whole.task = "own"
      /\ Whole.summary = "own" /\ Whole.result = "own" /\ Whole.series = FALSE
  BY EntriesOfATask
<1>4. e = Whole
  BY <1>2, <1>3, SameEntry
<1> QED
  BY <1>1, <1>4

LEMMA ResultsEnd ==
  ASSUME ResultsInv, NEW t \in Tasks, Results!End(t)
  PROVE  ResultsInv'
<1> USE DEF ResultsInv, Results!End
<1>1. /\ Calm /\ Results!Up /\ thread'[t].at = "summary" /\ thread[t].at = "run"
      /\ thread' \in [Tasks -> Completions]
      /\ \A u \in Tasks \ {t} : thread'[u] = thread[u]
      /\ \A u \in Tasks : thread'[u].victims = thread[u].victims /\ thread'[u].files = thread[u].files
      /\ \A u \in Tasks : Deleting(u)' <=> Deleting(u)
      /\ \A x : Deleted(x)' <=> Deleted(x)
      /\ Results!Victims' = Results!Victims
      /\ ~Retained'
  BY SavesMove DEF Saves
<1>2. ResultsTypes'
  BY <1>1 DEF Completions, ResultsTypes
<1>3. CalmFirst' /\ OneOutcome' /\ RecoveryFits' /\ ReaderFits' /\ KeptFits'
  BY <1>1 DEF CalmFirst, Calm, OneOutcome, RecoveryFits, ReaderFits, KeptFits, Results!Up
<1>4. DeletionFits'
  BY <1>1 DEF DeletionFits, Results!Holds
<1>5. TasksFit'
  BY <1>1 DEF TasksFit, TaskFits, Calm
<1>6. VictimsEnded'
  BY <1>1 DEF VictimsEnded, NotEnded
<1> QED
  BY <1>2, <1>3, <1>4, <1>5, <1>6

LEMMA ResultsSaveSummary ==
  ASSUME ResultsInv, NEW t \in Tasks, Results!SaveSummary(t)
  PROVE  ResultsInv'
<1> USE DEF ResultsInv, Results!SaveSummary
<1>1. /\ Calm /\ Results!Up /\ thread'[t].at = "result" /\ thread[t].at = "summary"
      /\ thread' \in [Tasks -> Completions]
      /\ \A u \in Tasks \ {t} : thread'[u] = thread[u]
      /\ \A u \in Tasks : thread'[u].victims = thread[u].victims /\ thread'[u].files = thread[u].files
      /\ \A u \in Tasks : Deleting(u)' <=> Deleting(u)
      /\ \A x : Deleted(x)' <=> Deleted(x)
      /\ Results!Victims' = Results!Victims
      /\ ~Retained'
  BY SavesMove DEF Saves
<1>2. t \notin Results!Victims /\ t \notin touched
  BY <1>1 DEF VictimsEnded, NotEnded
<1>3. dir[t] = Results!Active /\ dir \in [Tasks -> Entries]
  BY <1>1, <1>2 DEF TasksFit, TaskFits, ResultsTypes
<1>4. dir' = [dir EXCEPT ![t] = Indexed] /\ dir'[t] = Indexed /\ \A u \in Tasks \ {t} : dir'[u] = dir[u]
  <2>1. dir' = [dir EXCEPT ![t] = Indexed]
    BY <1>3 DEF Results!Put, Indexed, Results!Active, Results!Nothing
  <2> QED
    BY <2>1, <1>3
<1>5. Indexed.task = "active" /\ Indexed.summary = "own" /\ Indexed.result = "none" /\ Indexed \in Entries
  BY DEF Indexed, Results!Active, Results!Nothing, Entries, Outcomes
<1>6. dir' \in [Tasks -> Entries]
  BY <1>3, <1>4, <1>5
<1>7. ResultsTypes'
  BY <1>1, <1>6 DEF Completions, ResultsTypes
<1>8. CalmFirst' /\ OneOutcome' /\ KeptFits'
  BY <1>1, <1>4, <1>5 DEF CalmFirst, Calm, OneOutcome, KeptFits, Results!Up, NoneYet
<1>9. RecoveryFits'
  BY <1>1 DEF RecoveryFits, Results!Up, Results!NotRecovering
<1>10. ReaderFits'
  BY <1>3, <1>4 DEF ReaderFits, NoneYet, Results!Active, Results!Nothing
<1>11. DeletionFits'
  <2> SUFFICES ASSUME NEW u \in Tasks
               PROVE  /\ thread'[u].at \notin {"walk", "delete"} => thread'[u].victims = <<>>
                      /\ Deleting(u)' => /\ thread'[u].victims # <<>> /\ "dir" \in thread'[u].files
                                         /\ Head(thread'[u].victims) \notin touched' =>
                                              Results!Holds(dir'[Head(thread'[u].victims)]) \subseteq thread'[u].files
    BY DEF DeletionFits, Results!Holds
  <2>1. Deleting(u) => Head(thread[u].victims) \in Tasks \ {t}
    BY <1>2, HeadIsVictim DEF DeletionFits
  <2> QED
    BY <1>1, <1>4, <2>1 DEF DeletionFits
<1>12. TasksFit'
  <2> SUFFICES ASSUME NEW u \in Tasks \ touched PROVE TaskFits(u)'
    BY DEF TasksFit
  <2>1. CASE u = t
    BY <2>1, <1>1, <1>4, EntriesOfATask DEF TaskFits
  <2>2. CASE u # t
    BY <2>2, <1>1, <1>4 DEF TasksFit, TaskFits
  <2> QED
    BY <2>1, <2>2
<1>13. VictimsEnded'
  BY <1>1 DEF VictimsEnded, NotEnded
<1> QED
  BY <1>7, <1>8, <1>9, <1>10, <1>11, <1>12, <1>13

LEMMA ResultsSaveResult ==
  ASSUME ResultsInv, NEW t \in Tasks, Results!SaveResult(t)
  PROVE  ResultsInv'
<1> USE DEF ResultsInv, Results!SaveResult
<1>1. /\ Calm /\ Results!Up /\ thread'[t].at = "record" /\ thread[t].at = "result"
      /\ thread' \in [Tasks -> Completions]
      /\ \A u \in Tasks \ {t} : thread'[u] = thread[u]
      /\ \A u \in Tasks : thread'[u].victims = thread[u].victims /\ thread'[u].files = thread[u].files
      /\ \A u \in Tasks : Deleting(u)' <=> Deleting(u)
      /\ \A x : Deleted(x)' <=> Deleted(x)
      /\ Results!Victims' = Results!Victims
      /\ ~Retained'
  BY SavesMove DEF Saves
<1>2. t \notin Results!Victims /\ t \notin touched
  BY <1>1 DEF VictimsEnded, NotEnded
<1>3. dir[t] = Indexed /\ dir \in [Tasks -> Entries]
  BY <1>1, <1>2 DEF TasksFit, TaskFits, ResultsTypes
<1>4. dir' = [dir EXCEPT ![t] = Unrecorded] /\ dir'[t] = Unrecorded /\ \A u \in Tasks \ {t} : dir'[u] = dir[u]
  <2>1. dir' = [dir EXCEPT ![t] = Unrecorded]
    BY <1>3, ResultSaved DEF Results!Put
  <2> QED
    BY <2>1, <1>3
<1>5. Unrecorded.task = "active" /\ Unrecorded.summary = "own" /\ Unrecorded.result = "own" /\ Unrecorded \in Entries
  BY DEF Unrecorded, Whole, Entries, Outcomes
<1>6. dir' \in [Tasks -> Entries]
  BY <1>3, <1>4, <1>5
<1>7. ResultsTypes'
  BY <1>1, <1>6 DEF Completions, ResultsTypes
<1>8. CalmFirst' /\ OneOutcome' /\ KeptFits'
  BY <1>1, <1>4, <1>5 DEF CalmFirst, Calm, OneOutcome, KeptFits, Results!Up, NoneYet
<1>9. RecoveryFits'
  BY <1>1 DEF RecoveryFits, Results!Up, Results!NotRecovering
<1>10. ReaderFits'
  BY <1>3, <1>4 DEF ReaderFits, NoneYet, Indexed, Results!Active, Results!Nothing
<1>11. DeletionFits'
  <2> SUFFICES ASSUME NEW u \in Tasks
               PROVE  /\ thread'[u].at \notin {"walk", "delete"} => thread'[u].victims = <<>>
                      /\ Deleting(u)' => /\ thread'[u].victims # <<>> /\ "dir" \in thread'[u].files
                                         /\ Head(thread'[u].victims) \notin touched' =>
                                              Results!Holds(dir'[Head(thread'[u].victims)]) \subseteq thread'[u].files
    BY DEF DeletionFits, Results!Holds
  <2>1. Deleting(u) => Head(thread[u].victims) \in Tasks \ {t}
    BY <1>2, HeadIsVictim DEF DeletionFits
  <2> QED
    BY <1>1, <1>4, <2>1 DEF DeletionFits
<1>12. TasksFit'
  <2> SUFFICES ASSUME NEW u \in Tasks \ touched PROVE TaskFits(u)'
    BY DEF TasksFit
  <2>1. CASE u = t
    BY <2>1, <1>1, <1>4 DEF TaskFits, Unrecorded, Whole
  <2>2. CASE u # t
    BY <2>2, <1>1, <1>4 DEF TasksFit, TaskFits
  <2> QED
    BY <2>1, <2>2
<1>13. VictimsEnded'
  BY <1>1 DEF VictimsEnded, NotEnded
<1> QED
  BY <1>7, <1>8, <1>9, <1>10, <1>11, <1>12, <1>13

LEMMA ResultsSaveRecord ==
  ASSUME ResultsInv, NEW t \in Tasks, Results!SaveRecord(t)
  PROVE  ResultsInv'
<1> USE DEF ResultsInv, Results!SaveRecord
<1>1. /\ Calm /\ Results!Up /\ thread'[t].at = "retain" /\ thread[t].at = "record"
      /\ thread' \in [Tasks -> Completions]
      /\ \A u \in Tasks \ {t} : thread'[u] = thread[u]
      /\ \A u \in Tasks : thread'[u].victims = thread[u].victims /\ thread'[u].files = thread[u].files
      /\ \A u \in Tasks : Deleting(u)' <=> Deleting(u)
      /\ \A x : Deleted(x)' <=> Deleted(x)
      /\ Results!Victims' = Results!Victims
      /\ ~Retained'
  BY SavesMove DEF Saves
<1>2. touched \subseteq touched' /\ touched' \subseteq touched \union {t} /\ touched' \in SUBSET Tasks
      /\ (t \notin touched' => t \notin Results!Victims /\ dir[t].there /\ t \notin touched)
  BY DEF Completions, ResultsTypes
<1>3. dir \in [Tasks -> Entries] /\ dir[t] \in Entries
  BY DEF Completions, ResultsTypes
<1>4. /\ dir'[t] = [dir[t] EXCEPT !.there = TRUE, !.task = "own"]
      /\ \A u \in Tasks \ {t} : dir'[u] = dir[u]
  BY <1>3 DEF Results!Put
<1>5. dir'[t] \in Entries /\ dir'[t].task = "own" /\ dir'[t].summary = dir[t].summary /\ dir'[t].result = dir[t].result
  BY <1>3, <1>4 DEF Entries, Outcomes
<1>6. dir' \in [Tasks -> Entries]
  BY <1>3, <1>4, <1>5 DEF Results!Put
<1>7. ResultsTypes'
  BY <1>1, <1>2, <1>6 DEF Completions, ResultsTypes
<1>8. CalmFirst' /\ KeptFits'
  <2>1. \A u \in Tasks : /\ dir[u].task # "interrupted" /\ dir[u].summary # "interrupted"
                         /\ dir[u].result # "interrupted"
    BY <1>1 DEF CalmFirst
  <2>2. Calm' /\ Results!Up'
    BY <1>1 DEF Calm, Results!Up
  <2>3. \A u \in Tasks : /\ dir'[u].task # "interrupted" /\ dir'[u].summary # "interrupted"
                         /\ dir'[u].result # "interrupted"
    <3>1. dir[t].summary # "interrupted" /\ dir[t].result # "interrupted"
      BY <2>1
    <3>2. dir'[t].task # "interrupted" /\ dir'[t].summary # "interrupted" /\ dir'[t].result # "interrupted"
      BY <3>1, <1>5
    <3> QED
      BY <2>1, <3>2, <1>4
  <2> QED
    BY <1>1, <2>2, <2>3 DEF CalmFirst, KeptFits
<1>9. RecoveryFits'
  BY <1>1 DEF RecoveryFits, Results!Up, Results!NotRecovering
<1>10. ReaderFits' /\ OneOutcome'
  <2>1. dir[t].summary \in NoneYet /\ dir[t].result \in NoneYet
    BY <1>1, <1>3 DEF CalmFirst, Entries, Outcomes, NoneYet
  <2> QED
    BY <1>2, <1>4, <1>5, <2>1 DEF ReaderFits, OneOutcome, NoneYet
<1>11. DeletionFits'
  <2> SUFFICES ASSUME NEW u \in Tasks
               PROVE  /\ thread'[u].at \notin {"walk", "delete"} => thread'[u].victims = <<>>
                      /\ Deleting(u)' => /\ thread'[u].victims # <<>> /\ "dir" \in thread'[u].files
                                         /\ Head(thread'[u].victims) \notin touched' =>
                                              Results!Holds(dir'[Head(thread'[u].victims)]) \subseteq thread'[u].files
    BY DEF DeletionFits, Results!Holds
  <2>1. Deleting(u) /\ Head(thread[u].victims) \notin touched' => Head(thread[u].victims) \in Tasks \ {t}
    BY <1>2, HeadIsVictim DEF DeletionFits
  <2> QED
    <3>1. thread'[u].at \notin {"walk", "delete"} => thread'[u].victims = <<>>
      BY <1>1 DEF DeletionFits
    <3>2. Deleting(u)' => thread'[u].victims # <<>> /\ "dir" \in thread'[u].files
      BY <1>1 DEF DeletionFits
    <3>3. ASSUME Deleting(u)', Head(thread'[u].victims) \notin touched'
          PROVE  Results!Holds(dir'[Head(thread'[u].victims)]) \subseteq thread'[u].files
      <4>1. Deleting(u) /\ Head(thread[u].victims) \notin touched'
        BY <3>3, <1>1
      <4>2. Results!Holds(dir[Head(thread[u].victims)]) \subseteq thread[u].files
        BY <4>1, <1>2 DEF DeletionFits
      <4>3. dir'[Head(thread[u].victims)] = dir[Head(thread[u].victims)]
        BY <4>1, <2>1, <1>4
      <4> QED
        BY <4>2, <4>3, <1>1
    <3> QED
      BY <3>1, <3>2, <3>3
<1>12. TasksFit'
  <2> SUFFICES ASSUME NEW u \in Tasks \ touched' PROVE TaskFits(u)'
    BY DEF TasksFit
  <2>1. CASE u = t
    <3>1. ~Deleted(t) /\ dir[t] \in {Unrecorded, Results!Nothing}
      BY <2>1, <1>1, <1>2, DeletedIsVictim DEF TasksFit, TaskFits
    <3>2. dir[t] = Unrecorded
      BY <3>1, <2>1, <1>2 DEF Results!Nothing
    <3>3. dir'[t] = Whole
      BY <3>2, <1>4, RecordSaved
    <3> QED
      BY <3>3, <2>1, <1>1 DEF TaskFits, Whole
  <2>2. CASE u # t
    BY <2>2, <1>1, <1>2, <1>4 DEF TasksFit, TaskFits
  <2> QED
    BY <2>1, <2>2
<1>13. VictimsEnded'
  BY <1>1, <1>2 DEF VictimsEnded, NotEnded
<1> QED
  BY <1>7, <1>8, <1>9, <1>10, <1>11, <1>12, <1>13

-----------------------------------------------------------------------------
LEMMA ListedIsFinite ==
  ASSUME ResultsTypes
  PROVE  /\ Results!Listed \subseteq Tasks /\ IsFiniteSet(Results!Listed)
         /\ Cardinality(Results!Listed) \in Nat /\ Cardinality(Results!Listed) <= Cardinality(Tasks)
<1>1. Results!Listed \in SUBSET Tasks
  BY DEF Results!Listed
<1> QED
  BY <1>1, ResultsAssumption, FS_Subset, FS_CardinalityType

(* What is kept stays within the limit while it does not grow.             *)
LEMMA KeptShrinks ==
  ASSUME ResultsInv, ResultsTypes', Retained, Kept' \subseteq Kept
  PROVE  Cardinality(Kept') <= MaxResults
<1>1. Kept \in SUBSET Tasks /\ Cardinality(Kept) <= MaxResults
  BY DEF ResultsInv, KeptFits, Kept, Results!Listed
<1>2. IsFiniteSet(Kept) /\ Cardinality(Kept) \in Nat
  BY <1>1, ResultsAssumption, FS_Subset, FS_CardinalityType
<1>3. Cardinality(Kept') <= Cardinality(Kept) /\ Cardinality(Kept') \in Nat
  BY <1>2, FS_Subset, FS_CardinalityType
<1> QED
  BY <1>1, <1>2, <1>3, ResultsAssumption

LEMMA FirstAreFew ==
  ASSUME NEW m \in Nat, NEW s, NEW K, \A k \in K : \E i \in 1..m : s[i] = k, NEW S, K \subseteq S, IsFiniteSet(S)
  PROVE  Cardinality(K) <= m
<1>1. CASE K = {}
  BY <1>1, FS_EmptySet
<1>2. CASE K # {}
  <2>1. PICK d : d \in K
    BY <1>2
  <2>2. PICK f : f = [i \in 1..m |-> IF s[i] \in K THEN s[i] ELSE d]
    OBVIOUS
  <2>3. f \in [1..m -> K] /\ \A k \in K : \E i \in 1..m : f[i] = k
    BY <2>1, <2>2
  <2>4. f \in Surjection(1..m, K)
    BY <2>3 DEF Surjection
  <2>5. ExistsSurjection(1..m, K)
    BY <2>4 DEF ExistsSurjection
  <2> QED
    BY <2>5, FS_SurjCardinalityBound
<1> QED
  BY <1>1, <1>2

(* What a pass over a listing s deletes, and that it leaves few.           *)
Shown(s) == IF Len(s) > ListLimit THEN ListLimit ELSE Len(s)
Pass(s) == SubSeq(s, MaxResults + 1, Shown(s))
LEMMA PassIsFair ==
  ASSUME ResultsTypes, NEW s \in Results!Recent(Results!Listed), NEW vs, vs = Pass(s)
  PROVE  /\ vs \in Seq(Tasks)
         /\ \A i \in DOMAIN vs : vs[i] \in Results!Listed
         /\ Cardinality(Tasks) <= ListLimit =>
              Cardinality(Results!Listed \ {vs[i] : i \in DOMAIN vs}) <= MaxResults
<1> DEFINE L == Results!Listed
           n == Cardinality(L)
           shown == Shown(s)
<1>1. L \subseteq Tasks /\ IsFiniteSet(L) /\ n \in Nat /\ n <= Cardinality(Tasks)
  BY ListedIsFinite
<1>2. s \in [1..n -> L] /\ \A t \in L : \E i \in 1..n : s[i] = t
  <2>1. s \in [1..n -> L] /\ \A t \in L : \E i \in DOMAIN s : s[i] = t
    BY SameCardinality DEF Results!Recent
  <2>2. DOMAIN s = 1..n
    BY <2>1
  <2> QED
    BY <2>1, <2>2
<1> HIDE DEF L
<1>3. s \in Seq(L) /\ Len(s) = n
  BY <1>1, <1>2
<1> HIDE DEF n
<1>4. MaxResults + 1 \in Int /\ MaxResults \in Nat /\ shown \in Nat /\ shown <= n /\ (n <= ListLimit => shown = n)
  BY <1>1, <1>3, ResultsAssumption DEF Shown
<1>0. vs = SubSeq(s, MaxResults + 1, shown)
  BY DEF Pass
<1> HIDE DEF shown
<1>5. \A i \in MaxResults + 1 .. shown : s[i] \in L
  BY <1>1, <1>2, <1>4
<1>6. /\ vs \in Seq(L)
      /\ Len(vs) = IF MaxResults + 1 <= shown THEN shown - (MaxResults + 1) + 1 ELSE 0
      /\ \A i \in 1 .. shown - (MaxResults + 1) + 1 : vs[i] = s[MaxResults + 1 + i - 1]
  BY <1>0, <1>4, <1>5, SubSeqProperties
<1>7. vs \in Seq(Tasks) /\ \A i \in DOMAIN vs : vs[i] \in L
  <2>1. \A i \in MaxResults + 1 .. shown : s[i] \in Tasks
    BY <1>1, <1>5
  <2>2. vs \in Seq(Tasks)
    BY <2>1, <1>0, <1>4, SubSeqProperties
  <2>3. \A i \in DOMAIN vs : vs[i] \in L
    BY <1>6, LenProperties, ElementOfSeq
  <2> QED
    BY <2>2, <2>3
<1>8. ASSUME Cardinality(Tasks) <= ListLimit
      PROVE  Cardinality(L \ {vs[i] : i \in DOMAIN vs}) <= MaxResults
  <2>1. shown = n
    <3>1. Cardinality(Tasks) \in Nat
      BY ResultsAssumption, FS_CardinalityType
    <3> QED
      BY <3>1, <1>1, <1>4, <1>8, ResultsAssumption
  <2>2. ASSUME NEW k \in L \ {vs[i] : i \in DOMAIN vs}
        PROVE  \E i \in 1..MaxResults : s[i] = k
    <3>1. PICK i \in 1..n : s[i] = k
      BY <1>2, <2>2
    <3>2. CASE i > MaxResults
      <4>1. PICK j : j = i - MaxResults
        OBVIOUS
      <4>2. j \in 1 .. shown - (MaxResults + 1) + 1 /\ MaxResults + 1 + j - 1 = i /\ MaxResults + 1 <= shown
        BY <4>1, <3>2, <2>1, <1>1, <1>4
      <4>3. vs[j] = k
        BY <4>2, <1>6, <3>1
      <4>4. j \in DOMAIN vs
        BY <4>2, <1>6
      <4> QED
        BY <4>3, <4>4, <2>2
    <3> QED
      BY <3>1, <3>2, <1>1, <1>4
  <2>3. L \ {vs[i] : i \in DOMAIN vs} \subseteq L
    OBVIOUS
  <2> QED
    BY <2>2, <2>3, <1>1, <1>4, FirstAreFew
<1> QED
  BY <1>7, <1>8 DEF L

LEMMA ResultsRetain ==
  ASSUME ResultsInv, NEW t \in Tasks, Results!Retain(t)
  PROVE  ResultsInv'
<1>1. PICK s \in Results!Recent(Results!Listed) :
        LET shown == IF Len(s) > ListLimit THEN ListLimit ELSE Len(s) IN
        thread' = [thread EXCEPT ![t] =
          [at |-> "walk", victims |-> SubSeq(s, MaxResults + 1, shown), files |-> {}]]
  BY DEF Results!Retain
<1>3. PICK vs : vs = Pass(s)
  OBVIOUS
<1>4. /\ vs \in Seq(Tasks)
      /\ \A i \in DOMAIN vs : vs[i] \in Results!Listed
      /\ Cardinality(Tasks) <= ListLimit =>
           Cardinality(Results!Listed \ {vs[i] : i \in DOMAIN vs}) <= MaxResults
  <2>1. ResultsTypes
    BY DEF ResultsInv
  <2> QED
    BY <2>1, <1>3, PassIsFair
<1> USE DEF ResultsInv, Results!Retain
<1>5. thread' = [thread EXCEPT ![t] = [at |-> "walk", victims |-> vs, files |-> {}]]
  BY <1>1, <1>3 DEF Pass, Shown
<1>6. /\ thread' \in [Tasks -> Completions]
      /\ thread'[t].at = "walk" /\ thread'[t].victims = vs
      /\ \A u \in Tasks \ {t} : thread'[u] = thread[u]
  BY <1>4, <1>5 DEF Completions, ResultsTypes
<1>7. Calm /\ Calm' /\ thread[t].at = "retain"
  BY DEF CalmFirst, Calm, Results!Over
<1>8. \A u \in Tasks : Deleting(u)' <=> Deleting(u)
  BY <1>6, <1>7 DEF Deleting
<1>9. \A x : Deleted(x)' <=> Deleted(x)
  BY <1>6, <1>7, <1>8 DEF Deleted, Deleting
<1>11. Results!Victims' \subseteq Results!Victims \union Results!Listed
  <2> SUFFICES ASSUME NEW x \in Results!Victims' PROVE x \in Results!Victims \union Results!Listed
    OBVIOUS
  <2>1. PICK u \in Tasks : \E i \in DOMAIN thread'[u].victims : thread'[u].victims[i] = x
    BY VictimsNow, VictimsNext
  <2>2. CASE u = t
    BY <2>1, <2>2, <1>4, <1>6
  <2>3. CASE u # t
    <3>1. \E i \in DOMAIN thread[u].victims : thread[u].victims[i] = x
      BY <2>1, <2>3, <1>6
    <3> QED
      BY <3>1, VictimsNow, VictimsNext
  <2> QED
    BY <2>2, <2>3
<1>12. {vs[i] : i \in DOMAIN vs} \subseteq Results!Victims'
  <2>1. \A i \in DOMAIN thread'[t].victims : thread'[t].victims[i] \in Results!Victims'
    BY VictimsNow, VictimsNext
  <2>2. SUFFICES ASSUME NEW i \in DOMAIN vs PROVE vs[i] \in Results!Victims'
    OBVIOUS
  <2> QED
    BY <2>1, <1>6
<1>13. ResultsTypes'
  BY <1>6 DEF Completions, ResultsTypes
<1>14. CalmFirst' /\ OneOutcome' /\ RecoveryFits' /\ ReaderFits'
  BY <1>7 DEF CalmFirst, OneOutcome, RecoveryFits, ReaderFits, Results!Up, Calm
<1>15. DeletionFits'
  BY <1>6, <1>8 DEF DeletionFits, Deleting, Results!Holds
<1>16. TasksFit'
  BY <1>6, <1>7, <1>9 DEF TasksFit, TaskFits
<1>17. VictimsEnded'
  <2> SUFFICES ASSUME NEW u \in Tasks, thread'[u].at \in NotEnded
               PROVE  u \notin Results!Victims' /\ u \notin touched'
    BY DEF VictimsEnded
  <2>1. thread[u].at \in NotEnded /\ u \notin Results!Victims /\ u \notin touched
    BY <1>6 DEF VictimsEnded, NotEnded
  <2>2. dir[u].result = "none"
    <3>1. dir[u] = Results!Active \/ dir[u] = Indexed
      BY <2>1, <1>7 DEF TasksFit, TaskFits, NotEnded
    <3> QED
      BY <3>1, EntriesOfATask
  <2>3. u \notin Results!Listed
    BY <2>2 DEF Results!Listed, Results!Regular
  <2> QED
    BY <2>1, <2>3, <1>11
<1>18. KeptFits'
  <2> SUFFICES ASSUME Retained' PROVE Cardinality(Kept') <= MaxResults
    BY DEF KeptFits
  <2>1. Cardinality(Results!Listed \ {vs[i] : i \in DOMAIN vs}) <= MaxResults
    BY <1>4 DEF Retained
  <2>2. Kept' \subseteq Results!Listed \ {vs[i] : i \in DOMAIN vs}
    BY <1>12 DEF Kept, Results!Listed, Results!Regular
  <2>3. IsFiniteSet(Results!Listed \ {vs[i] : i \in DOMAIN vs})
    BY ListedIsFinite, FS_Difference
  <2>4. PICK K : K = Results!Listed \ {vs[i] : i \in DOMAIN vs}
    OBVIOUS
  <2>5. Cardinality(Kept') <= Cardinality(K) /\ Cardinality(Kept') \in Nat /\ Cardinality(K) \in Nat
    BY <2>2, <2>3, <2>4, FS_Subset, FS_CardinalityType
  <2> QED
    BY <2>1, <2>4, <2>5, ResultsAssumption
<1> QED
  BY <1>13, <1>14, <1>15, <1>16, <1>17, <1>18

LEMMA ResultsRetained ==
  ASSUME ResultsInv, NEW t \in Tasks, Results!Retained(t)
  PROVE  ResultsInv'
<1> USE DEF ResultsInv, Results!Retained, Results!Go
<1>1. /\ thread' \in [Tasks -> Completions]
      /\ thread[t].at = "walk" /\ thread'[t].at = "done" /\ thread'[t].victims = <<>>
      /\ \A u \in Tasks \ {t} : thread'[u] = thread[u]
      /\ \A u \in Tasks : thread'[u].victims = thread[u].victims
  BY DEF Completions, ResultsTypes
<1>2. Calm /\ Calm'
  BY <1>1 DEF CalmFirst, Calm, Results!Over
<1>3. \A u \in Tasks : Deleting(u)' <=> Deleting(u)
  BY <1>1 DEF Deleting
<1>4. \A x : Deleted(x)' <=> Deleted(x)
  BY <1>1, <1>3 DEF Deleted
<1>5. Results!Victims' = Results!Victims
  BY <1>1, SameVictims
<1>6. ResultsTypes'
  BY <1>1 DEF Completions, ResultsTypes
<1>7. CalmFirst' /\ OneOutcome' /\ RecoveryFits' /\ ReaderFits'
  BY <1>2 DEF CalmFirst, OneOutcome, RecoveryFits, ReaderFits, Results!Up, Calm
<1>8. DeletionFits'
  BY <1>1, <1>3 DEF DeletionFits, Deleting, Results!Holds
<1>9. TasksFit'
  BY <1>1, <1>2, <1>4 DEF TasksFit, TaskFits
<1>10. VictimsEnded'
  BY <1>1, <1>5 DEF VictimsEnded, NotEnded
<1>11. KeptFits'
  <2>1. Retained' => Retained
    BY <1>1, <1>2 DEF Retained, Saves
  <2>2. Kept' = Kept
    BY <1>5 DEF Kept, Results!Listed, Results!Regular
  <2> QED
    BY <2>1, <2>2 DEF KeptFits
<1> QED
  BY <1>6, <1>7, <1>8, <1>9, <1>10, <1>11

(* A pass that goes on to its next victim leaves no more to keep.          *)
LEMMA TailOfVictims ==
  ASSUME ResultsTypes, NEW t \in Tasks, thread[t].victims # <<>>,
         NEW v, v = Head(thread[t].victims),
         NEW e, e.victims = Tail(thread[t].victims), thread' = [thread EXCEPT ![t] = e]
  PROVE  /\ Results!Victims' \subseteq Results!Victims
         /\ Results!Victims \subseteq Results!Victims' \union {v}
<1>1. thread[t].victims \in Seq(Tasks) /\ t \in DOMAIN thread
  BY DEF Completions, ResultsTypes
<1>2. thread'[t].victims = Tail(thread[t].victims) /\ \A u \in Tasks \ {t} : thread'[u] = thread[u]
  BY <1>1 DEF Completions, ResultsTypes
<1>3. ASSUME NEW x, x \in Results!Victims' PROVE x \in Results!Victims
  <2>1. PICK u \in Tasks : \E i \in DOMAIN thread'[u].victims : thread'[u].victims[i] = x
    BY <1>3, VictimsNow, VictimsNext
  <2>2. \E i \in DOMAIN thread[u].victims : thread[u].victims[i] = x
    <3>1. CASE u # t
      BY <2>1, <3>1, <1>2
    <3>2. CASE u = t
      <4>1. PICK i \in DOMAIN Tail(thread[t].victims) : Tail(thread[t].victims)[i] = x
        BY <2>1, <3>2, <1>2
      <4>2. i + 1 \in DOMAIN thread[t].victims /\ thread[t].victims[i + 1] = x
        BY <4>1, <1>1
      <4> QED
        BY <4>2, <3>2
    <3> QED
      BY <3>1, <3>2
  <2> QED
    BY <2>2, VictimsNow, VictimsNext
<1>4. ASSUME NEW x, x \in Results!Victims, x # v PROVE x \in Results!Victims'
  <2>1. PICK u \in Tasks : \E i \in DOMAIN thread[u].victims : thread[u].victims[i] = x
    BY <1>4, VictimsNow, VictimsNext
  <2>2. \E i \in DOMAIN thread'[u].victims : thread'[u].victims[i] = x
    <3>1. CASE u # t
      BY <2>1, <3>1, <1>2
    <3>2. CASE u = t
      <4>1. PICK i \in DOMAIN thread[t].victims : thread[t].victims[i] = x
        BY <2>1, <3>2
      <4>2. i # 1
        BY <4>1, <1>1, <1>4
      <4>3. i - 1 \in DOMAIN Tail(thread[t].victims) /\ Tail(thread[t].victims)[i - 1] = x
        BY <4>1, <4>2, <1>1
      <4> QED
        BY <4>3, <3>2, <1>2
    <3> QED
      BY <3>1, <3>2
  <2> QED
    BY <2>2, VictimsNow, VictimsNext
<1> QED
  BY <1>3, <1>4

LEMMA HoldsPaths ==
  ASSUME NEW d \in Entries
  PROVE  /\ Results!Holds(d) \subseteq Paths \ {"dir"}
         /\ d.result = "none" <=> "result" \notin Results!Holds(d)
BY DEF Results!Holds, Paths, Entries

LEMMA WalkGone ==
  ASSUME ResultsInv, NEW t \in Tasks, Results!Walk(t), ~dir[Head(thread[t].victims)].there
  PROVE  ResultsInv'
<1> USE DEF ResultsInv
<1>1. PICK v : v = Head(thread[t].victims)
  OBVIOUS
<1>2. /\ thread[t].at = "walk" /\ thread[t].victims # <<>> /\ ~dir[v].there
      /\ thread' = [thread EXCEPT ![t].victims = Tail(@)]
      /\ UNCHANGED <<dir, order, reader, recover, touched, resultsLeft>>
  BY <1>1 DEF Results!Walk
<1>3. v \in Tasks /\ v \in Results!Victims /\ thread[t].victims \in Seq(Tasks) /\ thread[t].files \in SUBSET Paths
  BY <1>1, <1>2, HeadIsVictim DEF Completions, ResultsTypes
<1>4. PICK e : e = [thread[t] EXCEPT !.victims = Tail(thread[t].victims)]
  OBVIOUS
<1>5. /\ thread' = [thread EXCEPT ![t] = e] /\ e.victims = Tail(thread[t].victims)
      /\ e \in Completions
      /\ e.at = "walk"
  <2>1. thread[t] \in Completions
    BY DEF Completions, ResultsTypes
  <2>2. Tail(thread[t].victims) \in Seq(Tasks)
    BY <1>2, <1>3
  <2>3. thread' = [thread EXCEPT ![t] = e]
    BY <1>2, <1>4
  <2>4. e \in Completions
        /\ e.at = thread[t].at /\ e.victims = Tail(thread[t].victims)
    BY <1>4, <2>1, <2>2 DEF Completions
  <2> QED
    BY <2>3, <2>4, <1>2
<1>6. /\ Results!Victims' \subseteq Results!Victims
      /\ Results!Victims \subseteq Results!Victims' \union {v}
  BY <1>1, <1>2, <1>5, TailOfVictims
<1>7. /\ thread' \in [Tasks -> Completions]
      /\ thread'[t] = e /\ \A u \in Tasks \ {t} : thread'[u] = thread[u]
  BY <1>5 DEF Completions, ResultsTypes
<1>8. Calm /\ Calm'
  BY <1>2 DEF CalmFirst, Calm, Results!Over
<1>9. \A u \in Tasks : Deleting(u)' <=> Deleting(u)
  BY <1>2, <1>5, <1>7 DEF Deleting
<1>10. \A x : Deleted(x)' <=> Deleted(x)
  BY <1>2, <1>7, <1>9 DEF Deleted, Deleting
<1>11. ResultsTypes'
  BY <1>2, <1>7 DEF Completions, ResultsTypes
<1>12. CalmFirst' /\ OneOutcome' /\ RecoveryFits' /\ ReaderFits'
  BY <1>2, <1>8 DEF CalmFirst, OneOutcome, RecoveryFits, ReaderFits, Results!Up, Calm
<1>13. DeletionFits'
  BY <1>2, <1>5, <1>7, <1>9 DEF DeletionFits, Deleting, Results!Holds
<1>14. TasksFit'
  BY <1>2, <1>5, <1>7, <1>8, <1>10 DEF TasksFit, TaskFits
<1>15. VictimsEnded'
  BY <1>2, <1>5, <1>6, <1>7 DEF VictimsEnded, NotEnded
<1>16. KeptFits'
  <2> SUFFICES ASSUME Retained' PROVE Cardinality(Kept') <= MaxResults
    BY DEF KeptFits
  <2>1. Retained
    BY <1>2, <1>5, <1>7, <1>8 DEF Retained, Saves
  <2>2. dir[v] = Results!Nothing
    BY <2>1, <1>2, <1>3, <1>8 DEF Retained, TasksFit, TaskFits
  <2>3. v \notin Results!Listed
    BY <2>2, EntriesOfATask DEF Results!Listed, Results!Regular
  <2>4. Results!Listed' = Results!Listed
    BY <1>2 DEF Results!Listed, Results!Regular
  <2>5. Kept' \subseteq Kept
    BY <2>3, <2>4, <1>6 DEF Kept
  <2> QED
    BY <2>1, <2>5, <1>11, KeptShrinks
<1> QED
  BY <1>11, <1>12, <1>13, <1>14, <1>15, <1>16

LEMMA WalkFinds ==
  ASSUME ResultsInv, NEW t \in Tasks, Results!Walk(t), dir[Head(thread[t].victims)].there
  PROVE  ResultsInv'
<1> USE DEF ResultsInv
<1>1. PICK v : v = Head(thread[t].victims)
  OBVIOUS
<1>2. /\ thread[t].at = "walk" /\ thread[t].victims # <<>>
      /\ thread' = [thread EXCEPT ![t].at = "delete", ![t].files = Results!Holds(dir[v]) \union {"dir"}]
      /\ UNCHANGED <<dir, order, reader, recover, touched, resultsLeft>>
  BY <1>1 DEF Results!Walk
<1>3. v \in Tasks /\ v \in Results!Victims /\ Results!Holds(dir[v]) \union {"dir"} \in SUBSET Paths
  BY <1>1, <1>2, HeadIsVictim, HoldsPaths DEF Completions, ResultsTypes, Paths
<1>4. /\ thread' \in [Tasks -> Completions]
      /\ thread'[t].at = "delete" /\ thread'[t].victims = thread[t].victims
      /\ thread'[t].files = Results!Holds(dir[v]) \union {"dir"}
      /\ \A u \in Tasks \ {t} : thread'[u] = thread[u]
      /\ \A u \in Tasks : thread'[u].victims = thread[u].victims
  <2>1. PICK fs \in SUBSET Paths : fs = Results!Holds(dir[v]) \union {"dir"}
    BY <1>3
  <2>2. thread' = [thread EXCEPT ![t].at = "delete", ![t].files = fs]
    BY <1>2, <2>1
  <2> QED
    BY <2>1, <2>2 DEF Completions, ResultsTypes
<1>5. Calm /\ Calm'
  BY <1>2 DEF CalmFirst, Calm, Results!Over
<1>6. \A x : Deleted(x) => Deleted(x)'
  BY <1>2, <1>4 DEF Deleted, Deleting
<1>7. Results!Victims' = Results!Victims
  BY <1>4, SameVictims
<1>8. ResultsTypes'
  BY <1>2, <1>4 DEF Completions, ResultsTypes
<1>9. CalmFirst' /\ OneOutcome' /\ RecoveryFits' /\ ReaderFits'
  BY <1>2, <1>5 DEF CalmFirst, OneOutcome, RecoveryFits, ReaderFits, Results!Up, Calm
<1>10. DeletionFits'
  <2> SUFFICES ASSUME NEW u \in Tasks
               PROVE  /\ thread'[u].at \notin {"walk", "delete"} => thread'[u].victims = <<>>
                      /\ Deleting(u)' => /\ thread'[u].victims # <<>> /\ "dir" \in thread'[u].files
                                         /\ Head(thread'[u].victims) \notin touched' =>
                                              Results!Holds(dir'[Head(thread'[u].victims)]) \subseteq thread'[u].files
    BY DEF DeletionFits, Results!Holds
  <2>1. CASE u = t
    BY <2>1, <1>1, <1>2, <1>4
  <2>2. CASE u # t
    BY <2>2, <1>2, <1>4 DEF DeletionFits, Deleting
  <2> QED
    BY <2>1, <2>2
<1>11. TasksFit'
  <2> SUFFICES ASSUME NEW u \in Tasks \ touched PROVE TaskFits(u)'
    BY <1>2 DEF TasksFit
  <2>1. TaskFits(u)
    BY <1>5 DEF TasksFit
  <2> QED
    BY <2>1, <1>2, <1>4, <1>6 DEF TaskFits
<1>12. VictimsEnded'
  BY <1>2, <1>4, <1>7 DEF VictimsEnded, NotEnded
<1>13. KeptFits'
  <2>1. Retained' => Retained
    BY <1>2, <1>4, <1>5 DEF Retained, Saves
  <2>2. Kept' = Kept
    BY <1>2, <1>7 DEF Kept, Results!Listed, Results!Regular
  <2> QED
    BY <2>1, <2>2 DEF KeptFits
<1> QED
  BY <1>8, <1>9, <1>10, <1>11, <1>12, <1>13

LEMMA WithoutAPath ==
  ASSUME NEW d \in Entries, NEW f \in Paths \ {"dir"}
  PROVE  /\ Results!Without(d, f) \in Entries
         /\ Results!Without(d, f).there = d.there
         /\ Results!Without(d, f).task \in {d.task, "none"}
         /\ Results!Without(d, f).summary \in {d.summary, "none"}
         /\ Results!Without(d, f).result \in {d.result, "none"}
         /\ Results!Holds(Results!Without(d, f)) \subseteq Results!Holds(d) \ {f}
<1>1. CASE f \in {"temp", "series"}
  <2>1. PICK e : e = [d EXCEPT ![f] = FALSE]
    OBVIOUS
  <2>2. Results!Without(d, f) = e
    BY <1>1, <2>1 DEF Results!Without
  <2>3. /\ e \in Entries /\ e.there = d.there /\ e.task = d.task /\ e.summary = d.summary /\ e.result = d.result
        /\ e[f] = FALSE /\ \A g \in {"temp", "series"} : e[g] => d[g]
    BY <1>1, <2>1 DEF Entries, Outcomes
  <2>4. Results!Holds(e) \subseteq Results!Holds(d) \ {f}
    BY <1>1, <2>3 DEF Results!Holds
  <2> QED
    BY <2>2, <2>3, <2>4
<1>2. CASE f \in {"task", "summary", "result"}
  <2>1. PICK e : e = [d EXCEPT ![f] = "none"]
    OBVIOUS
  <2>2. Results!Without(d, f) = e
    BY <1>2, <2>1 DEF Results!Without
  <2>3. /\ e \in Entries /\ e.there = d.there /\ e.task \in {d.task, "none"} /\ e.summary \in {d.summary, "none"}
        /\ e.result \in {d.result, "none"} /\ e.temp = d.temp /\ e.series = d.series
        /\ e[f] = "none" /\ \A g \in {"task", "summary", "result"} : e[g] # "none" => d[g] # "none"
    BY <1>2, <2>1 DEF Entries, Outcomes
  <2>4. Results!Holds(e) \subseteq Results!Holds(d) \ {f}
    BY <1>2, <2>3 DEF Results!Holds
  <2> QED
    BY <2>2, <2>3, <2>4
<1> QED
  BY <1>1, <1>2 DEF Paths

LEMMA DeleteAPath ==
  ASSUME ResultsInv, NEW t \in Tasks, Deleting(t), NEW v, v = Head(thread[t].victims),
         NEW f \in thread[t].files, f # "dir",
         Results!Put(v, Results!Without(dir[v], f)),
         thread' = [thread EXCEPT ![t] = [at |-> "delete", victims |-> thread[t].victims, files |-> thread[t].files \ {f}]],
         UNCHANGED <<order, reader, recover, touched, resultsLeft>>
  PROVE  ResultsInv'
<1> USE DEF ResultsInv
<1>1. thread[t].at = "delete" /\ thread[t].victims # <<>> /\ Calm /\ Calm' /\ Results!Up /\ Results!Up'
  BY DEF Deleting, DeletionFits, CalmFirst, Calm, Results!Over, Results!Up
<1>2. v \in Tasks /\ v \in Results!Victims /\ f \in Paths \ {"dir"}
  BY <1>1, HeadIsVictim DEF Completions, ResultsTypes
<1>3. /\ thread' \in [Tasks -> Completions]
      /\ thread'[t].at = "delete" /\ thread'[t].files = thread[t].files \ {f}
      /\ \A u \in Tasks \ {t} : thread'[u] = thread[u]
      /\ \A u \in Tasks : thread'[u].victims = thread[u].victims /\ thread'[u].at = thread[u].at
  <2>1. thread[t].files \ {f} \in SUBSET Paths /\ thread[t].victims \in Seq(Tasks)
    BY DEF Completions, ResultsTypes
  <2>2. PICK e : e = [at |-> "delete", victims |-> thread[t].victims, files |-> thread[t].files \ {f}]
    OBVIOUS
  <2>3. e \in Completions /\ e.at = "delete" /\ e.victims = thread[t].victims /\ e.files = thread[t].files \ {f}
    BY <2>1, <2>2 DEF Completions
  <2>4. thread' \in [Tasks -> Completions] /\ thread'[t] = e /\ \A u \in Tasks \ {t} : thread'[u] = thread[u]
    BY <2>2, <2>3, CompletionMoves
  <2> QED
    BY <2>3, <2>4, <1>1
<1>4. PICK e : e = Results!Without(dir[v], f)
  OBVIOUS
<1>5. /\ e \in Entries /\ dir[v] \in Entries /\ e.there = dir[v].there
      /\ e.task \in {dir[v].task, "none"} /\ e.summary \in {dir[v].summary, "none"}
      /\ e.result \in {dir[v].result, "none"}
      /\ Results!Holds(e) \subseteq Results!Holds(dir[v]) \ {f}
  BY <1>2, <1>4, WithoutAPath DEF Completions, ResultsTypes
<1>6. dir' \in [Tasks -> Entries] /\ dir'[v] = e /\ \A u \in Tasks \ {v} : dir'[u] = dir[u]
  BY <1>2, <1>4, <1>5 DEF Results!Put, ResultsTypes
<1>7. Results!Victims' = Results!Victims
  BY <1>3, SameVictims
<1>8. Deleted(v) /\ Deleted(v)'
  BY <1>1, <1>3 DEF Deleted, Deleting
<1>9. \A x : Deleted(x)' <=> Deleted(x)
  BY <1>3 DEF Deleted, Deleting
<1>10. ResultsTypes'
  BY <1>3, <1>6 DEF Completions, ResultsTypes
<1>11. \A u \in Tasks : /\ dir'[u].task \in {dir[u].task, "none"} /\ dir'[u].summary \in {dir[u].summary, "none"}
                        /\ dir'[u].result \in {dir[u].result, "none"}
  BY <1>5, <1>6
<1>12. \A u \in Tasks : /\ dir'[u].task # "interrupted" /\ dir'[u].summary # "interrupted"
                        /\ dir'[u].result # "interrupted"
  BY <1>1, <1>11 DEF CalmFirst
<1>13. CalmFirst'
  BY <1>1, <1>12 DEF CalmFirst
<1>14. OneOutcome'
  BY <1>10, <1>12 DEF OneOutcome, NoneYet, ResultsTypes, Entries, Outcomes
<1>15. RecoveryFits'
  BY <1>1 DEF RecoveryFits, Results!Up, Results!NotRecovering
<1>16. ReaderFits'
  BY <1>11 DEF ReaderFits, NoneYet
<1>17. DeletionFits'
  <2> SUFFICES ASSUME NEW u \in Tasks
               PROVE  /\ thread'[u].at \notin {"walk", "delete"} => thread'[u].victims = <<>>
                      /\ Deleting(u)' => /\ thread'[u].victims # <<>> /\ "dir" \in thread'[u].files
                                         /\ Head(thread'[u].victims) \notin touched' =>
                                              Results!Holds(dir'[Head(thread'[u].victims)]) \subseteq thread'[u].files
    BY DEF DeletionFits, Results!Holds
  <2>1. thread'[u].at \notin {"walk", "delete"} => thread'[u].victims = <<>>
    BY <1>3 DEF DeletionFits
  <2>2. ASSUME Deleting(u)'
        PROVE  /\ Deleting(u) /\ thread'[u].victims # <<>> /\ "dir" \in thread'[u].files
               /\ Head(thread'[u].victims) = Head(thread[u].victims) /\ Head(thread[u].victims) \in Tasks
               /\ Head(thread[u].victims) \notin touched =>
                    Results!Holds(dir[Head(thread[u].victims)]) \subseteq thread[u].files
               /\ thread[u].files \subseteq thread'[u].files \union {f}
               /\ u # t => thread[u].files = thread'[u].files
    <3>1. Deleting(u) /\ thread[u].victims # <<>> /\ "dir" \in thread[u].files
      BY <2>2, <1>3 DEF Deleting, DeletionFits
    <3> QED
      BY <3>1, <1>3, HeadIsVictim DEF DeletionFits
  <2>3. ASSUME Deleting(u)', Head(thread'[u].victims) \notin touched'
        PROVE  Results!Holds(dir'[Head(thread'[u].victims)]) \subseteq thread'[u].files
    <3>1. PICK w \in Tasks : w = Head(thread[u].victims)
      BY <2>2, <2>3
    <3>2. Results!Holds(dir[w]) \subseteq thread[u].files
      BY <2>2, <2>3, <3>1
    <3>3. CASE w = v
      <4>1. Results!Holds(dir'[w]) \subseteq Results!Holds(dir[w]) \ {f}
        BY <3>3, <1>5, <1>6
      <4> QED
        BY <4>1, <3>1, <3>2, <2>2, <2>3
    <3>4. CASE w # v
      <4>1. dir'[w] = dir[w] /\ u # t
        BY <3>1, <3>4, <1>6
      <4> QED
        BY <4>1, <3>1, <3>2, <2>2, <2>3
    <3> QED
      BY <3>3, <3>4
  <2> QED
    BY <2>1, <2>2, <2>3
<1>18. TasksFit'
  <2> SUFFICES ASSUME NEW u \in Tasks \ touched PROVE TaskFits(u)'
    BY DEF TasksFit
  <2>1. TaskFits(u)
    BY <1>1 DEF TasksFit
  <2>2. CASE u # v
    BY <2>1, <2>2, <1>3, <1>6, <1>9 DEF TaskFits
  <2>3. CASE u = v
    <3>1. thread'[u].at \notin NotEnded
      BY <2>3, <1>2, <1>3 DEF VictimsEnded
    <3>2. ~dir'[u].there => dir'[u] = Results!Nothing
      <4> SUFFICES ASSUME ~dir'[u].there PROVE dir'[u] = Results!Nothing
        OBVIOUS
      <4>1. dir[v] = Results!Nothing
        BY <2>1, <2>3, <1>5, <1>6 DEF TaskFits
      <4>2. Results!Holds(e) = {}
        BY <4>1, <1>5 DEF Results!Holds, Results!Nothing
      <4>3. e.task = "none" /\ e.summary = "none" /\ e.result = "none" /\ ~e.temp /\ ~e.series
        BY <4>2 DEF Results!Holds
      <4>4. e \in Entries /\ e.there = FALSE /\ e.temp = FALSE /\ e.series = FALSE
        BY <4>1, <4>3, <1>5, EntriesOfATask DEF Entries
      <4>5. Results!Nothing \in Entries /\ Results!Nothing.there = FALSE /\ Results!Nothing.task = "none"
            /\ Results!Nothing.summary = "none" /\ Results!Nothing.result = "none"
            /\ Results!Nothing.temp = FALSE /\ Results!Nothing.series = FALSE
        BY EntriesOfATask DEF Results!Nothing
      <4>6. e = Results!Nothing
        BY <4>3, <4>4, <4>5, SameEntry
      <4> QED
        BY <4>6, <2>3, <1>6
    <3> QED
      BY <3>1, <3>2, <2>3, <1>8 DEF TaskFits, NotEnded
  <2> QED
    BY <2>2, <2>3
<1>19. VictimsEnded'
  BY <1>3, <1>7 DEF VictimsEnded
<1>20. KeptFits'
  <2> SUFFICES ASSUME Retained' PROVE Cardinality(Kept') <= MaxResults
    BY DEF KeptFits
  <2>1. Retained
    BY <1>1, <1>3 DEF Retained
  <2>2. Results!Listed' \subseteq Results!Listed
    BY <1>11 DEF Results!Listed, Results!Regular
  <2>3. Kept' \subseteq Kept
    BY <2>2, <1>7 DEF Kept
  <2> QED
    BY <2>1, <2>3, <1>10, KeptShrinks
<1> QED
  BY <1>10, <1>13, <1>14, <1>15, <1>16, <1>17, <1>18, <1>19, <1>20

(* The directory itself: it is empty, or somebody wrote to it and the pass *)
(* ends there.                                                             *)
LEMMA DeleteEmpty ==
  ASSUME ResultsInv, NEW t \in Tasks, Deleting(t), NEW v, v = Head(thread[t].victims), Results!IsEmpty(dir[v]),
         Results!Put(v, Results!Nothing),
         thread' = [thread EXCEPT ![t] = [at |-> "walk", victims |-> Tail(thread[t].victims), files |-> {}]],
         UNCHANGED <<order, reader, recover, touched, resultsLeft>>
  PROVE  ResultsInv'
<1> USE DEF ResultsInv
<1>1. thread[t].at = "delete" /\ thread[t].victims # <<>> /\ Calm /\ Calm' /\ Results!Up /\ Results!Up'
  BY DEF Deleting, DeletionFits, CalmFirst, Calm, Results!Over, Results!Up
<1>2. v \in Tasks /\ v \in Results!Victims /\ thread[t].victims \in Seq(Tasks)
  BY <1>1, HeadIsVictim DEF Completions, ResultsTypes
<1>3. PICK e : e = [at |-> "walk", victims |-> Tail(thread[t].victims), files |-> {}]
  OBVIOUS
<1>4. /\ thread' = [thread EXCEPT ![t] = e] /\ e.at = "walk" /\ e.victims = Tail(thread[t].victims)
      /\ e \in Completions
  <2>1. Tail(thread[t].victims) \in Seq(Tasks)
    BY <1>1, <1>2
  <2> QED
    BY <2>1, <1>3 DEF Completions
<1>5. /\ thread' \in [Tasks -> Completions]
      /\ thread'[t] = e /\ \A u \in Tasks \ {t} : thread'[u] = thread[u]
  BY <1>4, CompletionMoves
<1>6. /\ Results!Victims' \subseteq Results!Victims
      /\ Results!Victims \subseteq Results!Victims' \union {v}
  BY <1>1, <1>4, TailOfVictims
<1>7. dir' \in [Tasks -> Entries] /\ dir'[v] = Results!Nothing /\ \A u \in Tasks \ {v} : dir'[u] = dir[u]
  BY <1>2, EntriesOfATask DEF Results!Put, ResultsTypes
<1>8. \A x : x # v => (Deleted(x)' <=> Deleted(x))
  BY <1>1, <1>4, <1>5 DEF Deleted, Deleting
<1>9. ResultsTypes'
  BY <1>5, <1>7 DEF Completions, ResultsTypes
<1>10. \A u \in Tasks : /\ dir'[u].task \in {dir[u].task, "none"} /\ dir'[u].summary \in {dir[u].summary, "none"}
                        /\ dir'[u].result \in {dir[u].result, "none"}
  BY <1>7, EntriesOfATask
<1>11. \A u \in Tasks : /\ dir'[u].task # "interrupted" /\ dir'[u].summary # "interrupted"
                        /\ dir'[u].result # "interrupted"
  BY <1>1, <1>10 DEF CalmFirst
<1>12. CalmFirst'
  BY <1>1, <1>11 DEF CalmFirst
<1>13. OneOutcome'
  BY <1>9, <1>11 DEF OneOutcome, NoneYet, ResultsTypes, Entries, Outcomes
<1>14. RecoveryFits'
  BY <1>1 DEF RecoveryFits, Results!Up, Results!NotRecovering
<1>15. ReaderFits'
  BY <1>10 DEF ReaderFits, NoneYet
<1>16. DeletionFits'
  <2> SUFFICES ASSUME NEW u \in Tasks
               PROVE  /\ thread'[u].at \notin {"walk", "delete"} => thread'[u].victims = <<>>
                      /\ Deleting(u)' => /\ thread'[u].victims # <<>> /\ "dir" \in thread'[u].files
                                         /\ Head(thread'[u].victims) \notin touched' =>
                                              Results!Holds(dir'[Head(thread'[u].victims)]) \subseteq thread'[u].files
    BY DEF DeletionFits, Results!Holds
  <2>1. CASE u = t
    BY <2>1, <1>4, <1>5 DEF Deleting
  <2>2. CASE u # t
    <3>1. thread'[u] = thread[u] /\ (Deleting(u)' <=> Deleting(u))
      BY <2>2, <1>5 DEF Deleting
    <3>2. Deleting(u) => Head(thread[u].victims) \in Tasks
      BY HeadIsVictim DEF DeletionFits
    <3>3. Results!Holds(Results!Nothing) = {}
      BY DEF Results!Holds, Results!Nothing
    <3> QED
      <4>1. thread'[u].at \notin {"walk", "delete"} => thread'[u].victims = <<>>
        BY <3>1 DEF DeletionFits
      <4>2. Deleting(u)' => thread'[u].victims # <<>> /\ "dir" \in thread'[u].files
        BY <3>1 DEF DeletionFits
      <4>3. ASSUME Deleting(u)', Head(thread'[u].victims) \notin touched'
            PROVE  Results!Holds(dir'[Head(thread'[u].victims)]) \subseteq thread'[u].files
        <5>1. Results!Holds(dir[Head(thread[u].victims)]) \subseteq thread[u].files
          BY <4>3, <3>1 DEF DeletionFits
        <5>2. PICK w \in Tasks : w = Head(thread[u].victims)
          BY <4>3, <3>1, <3>2
        <5>3. Results!Holds(dir'[w]) \subseteq Results!Holds(dir[w])
          BY <3>3, <1>7
        <5> QED
          BY <5>1, <5>2, <5>3, <3>1
      <4> QED
        BY <4>1, <4>2, <4>3
  <2> QED
    BY <2>1, <2>2
<1>17. TasksFit'
  <2> SUFFICES ASSUME NEW u \in Tasks \ touched PROVE TaskFits(u)'
    BY DEF TasksFit
  <2>1. TaskFits(u)
    BY <1>1 DEF TasksFit
  <2>2. CASE u # v
    BY <2>1, <2>2, <1>1, <1>4, <1>5, <1>7, <1>8 DEF TaskFits
  <2>3. CASE u = v
    <3>1. thread'[u].at \notin NotEnded
      BY <2>3, <1>2, <1>4, <1>5 DEF VictimsEnded, NotEnded
    <3> QED
      BY <3>1, <2>3, <1>7 DEF TaskFits, NotEnded
  <2> QED
    BY <2>2, <2>3
<1>18. VictimsEnded'
  BY <1>4, <1>5, <1>6 DEF VictimsEnded, NotEnded
<1>19. KeptFits'
  <2> SUFFICES ASSUME Retained' PROVE Cardinality(Kept') <= MaxResults
    BY DEF KeptFits
  <2>1. Retained
    BY <1>1, <1>4, <1>5 DEF Retained, Saves
  <2>2. Results!Listed' \subseteq Results!Listed \ {v}
    BY <1>7, EntriesOfATask DEF Results!Listed, Results!Regular
  <2>3. Kept' \subseteq Kept
    BY <2>2, <1>6 DEF Kept
  <2> QED
    BY <2>1, <2>3, <1>9, KeptShrinks
<1> QED
  BY <1>9, <1>12, <1>13, <1>14, <1>15, <1>16, <1>17, <1>18, <1>19

LEMMA DeleteFails ==
  ASSUME ResultsInv, NEW t \in Tasks, Deleting(t), NEW v, v = Head(thread[t].victims), v \in touched,
         thread' = [thread EXCEPT ![t] = Results!Over],
         UNCHANGED <<dir, order, reader, recover, touched, resultsLeft>>
  PROVE  ResultsInv'
<1> USE DEF ResultsInv
<1>1. thread[t].at = "delete" /\ Calm /\ Calm' /\ v \in Tasks
  BY HeadIsVictim DEF Deleting, DeletionFits, CalmFirst, Calm, Results!Over
<1>2. /\ thread' \in [Tasks -> Completions]
      /\ thread'[t].at = "done" /\ thread'[t].victims = <<>>
      /\ \A u \in Tasks \ {t} : thread'[u] = thread[u]
  <2>1. <<>> \in Seq(Tasks) /\ {} \in SUBSET Paths
    OBVIOUS
  <2>2. PICK e : e = Results!Over
    OBVIOUS
  <2>3. e \in Completions
        /\ e.at = "done" /\ e.victims = <<>>
    BY <2>1, <2>2 DEF Results!Over, Completions
  <2> QED
    BY <2>2, <2>3 DEF Completions, ResultsTypes
<1>3. \A x : x # v => (Deleted(x)' <=> Deleted(x))
  BY <1>1, <1>2 DEF Deleted, Deleting
<1>4. Results!Victims' \subseteq Results!Victims
  <2> SUFFICES ASSUME NEW x \in Results!Victims' PROVE x \in Results!Victims
    OBVIOUS
  <2>1. PICK u \in Tasks : \E i \in DOMAIN thread'[u].victims : thread'[u].victims[i] = x
    BY VictimsNow, VictimsNext
  <2>2. u # t
    BY <2>1, <1>2
  <2>3. \E i \in DOMAIN thread[u].victims : thread[u].victims[i] = x
    BY <2>1, <2>2, <1>2
  <2> QED
    BY <2>3, VictimsNow, VictimsNext
<1>5. ResultsTypes'
  BY <1>2 DEF Completions, ResultsTypes
<1>6. CalmFirst' /\ OneOutcome' /\ RecoveryFits' /\ ReaderFits'
  BY <1>1 DEF CalmFirst, OneOutcome, RecoveryFits, ReaderFits, Results!Up, Calm
<1>7. DeletionFits'
  BY <1>2 DEF DeletionFits, Deleting, Results!Holds
<1>8. TasksFit'
  BY <1>1, <1>2, <1>3 DEF TasksFit, TaskFits
<1>9. VictimsEnded'
  BY <1>2, <1>4 DEF VictimsEnded, NotEnded
<1>10. KeptFits'
  BY DEF KeptFits, Retained
<1> QED
  BY <1>5, <1>6, <1>7, <1>8, <1>9, <1>10

LEMMA ResultsDelete ==
  ASSUME ResultsInv, NEW t \in Tasks, Results!DeleteFile(t)
  PROVE  ResultsInv'
<1>1. PICK v : v = Head(thread[t].victims)
  OBVIOUS
<1>2. PICK f \in thread[t].files :
        /\ \A g \in thread[t].files : Results!Place[g] <= Results!Place[f]
        /\ Results!Put(v, Results!Without(dir[v], f))
        /\ thread' = [thread EXCEPT ![t] =
             IF f # "dir" THEN [at |-> "delete", victims |-> @.victims, files |-> @.files \ {f}]
             ELSE IF Results!IsEmpty(dir[v]) THEN [at |-> "walk", victims |-> Tail(@.victims), files |-> {}]
             ELSE Results!Over]
  BY <1>1 DEF Results!DeleteFile
<1>3. Deleting(t) /\ UNCHANGED <<order, reader, recover, touched, resultsLeft>>
  BY DEF Results!DeleteFile, Deleting
<1>4. CASE f # "dir"
  BY <1>1, <1>2, <1>3, <1>4, DeleteAPath
<1>5. CASE f = "dir" /\ Results!IsEmpty(dir[v])
  <2>1. Results!Put(v, Results!Nothing)
    BY <1>2, <1>5 DEF Results!Without
  <2>2. thread' = [thread EXCEPT ![t] = [at |-> "walk", victims |-> Tail(thread[t].victims), files |-> {}]]
    BY <1>2, <1>5
  <2> QED
    BY <2>1, <2>2, <1>1, <1>3, <1>5, DeleteEmpty
<1>6. CASE f = "dir" /\ ~Results!IsEmpty(dir[v])
  <2>1. v \in Tasks /\ dir \in [Tasks -> Entries] /\ thread[t].files \subseteq Paths
    BY <1>1, <1>3, HeadIsVictim DEF ResultsInv, ResultsTypes, Completions, DeletionFits
  <2>2. dir' = dir
    BY <1>2, <1>6, <2>1 DEF Results!Put, Results!Without
  <2>3. thread' = [thread EXCEPT ![t] = Results!Over]
    BY <1>2, <1>6
  <2>4. \A g \in thread[t].files : g = "dir"
    BY <1>2, <1>6, <2>1 DEF Results!Place, Paths
  <2>5. Results!Holds(dir[v]) \subseteq Paths \ {"dir"} /\ Results!Holds(dir[v]) # {}
    BY <1>6, <2>1, HoldsPaths DEF Results!IsEmpty
  <2>6. v \in touched
    BY <1>1, <1>3, <2>4, <2>5 DEF ResultsInv, DeletionFits
  <2> QED
    BY <2>2, <2>3, <2>6, <1>1, <1>3, DeleteFails
<1> QED
  BY <1>4, <1>5, <1>6

(* A write to a directory that is touched by it leaves deletions in order. *)
LEMMA OthersDelete ==
  ASSUME ResultsInv, NEW v \in touched', touched \subseteq touched',
         \A u \in Tasks \ {v} : dir'[u] = dir[u], UNCHANGED thread
  PROVE  DeletionFits'
<1> SUFFICES ASSUME NEW u \in Tasks
             PROVE  /\ thread'[u].at \notin {"walk", "delete"} => thread'[u].victims = <<>>
                    /\ Deleting(u)' => /\ thread'[u].victims # <<>> /\ "dir" \in thread'[u].files
                                       /\ Head(thread'[u].victims) \notin touched' =>
                                            Results!Holds(dir'[Head(thread'[u].victims)]) \subseteq thread'[u].files
  BY DEF DeletionFits, Results!Holds
<1>1. /\ thread'[u].at \notin {"walk", "delete"} => thread'[u].victims = <<>>
      /\ Deleting(u)' => Deleting(u) /\ thread'[u].victims # <<>> /\ "dir" \in thread'[u].files
  BY DEF Deleting, ResultsInv, DeletionFits
<1>2. ASSUME Deleting(u)', Head(thread'[u].victims) \notin touched'
      PROVE  Results!Holds(dir'[Head(thread'[u].victims)]) \subseteq thread'[u].files
  <2>1. PICK w \in Tasks : w = Head(thread[u].victims)
    BY <1>1, <1>2, HeadIsVictim DEF ResultsInv
  <2>2. w # v /\ w \notin touched /\ dir'[w] = dir[w]
    BY <1>2, <2>1
  <2>3. Results!Holds(dir[w]) \subseteq thread[u].files
    BY <1>1, <1>2, <2>1, <2>2 DEF ResultsInv, DeletionFits
  <2> QED
    BY <2>1, <2>2, <2>3
<1> QED
  BY <1>1, <1>2

-----------------------------------------------------------------------------
(* A request that lists.                                                   *)
LEMMA OnlyTheReader ==
  ASSUME ResultsInv, UNCHANGED <<dir, thread, order, recover, touched>>,
         resultsLeft' \in Bounds, resultsLeft'.crashes = resultsLeft.crashes,
         Results!Up,
         reader' \in Readers,
         ReaderFits'
  PROVE  ResultsInv'
<1> USE DEF ResultsInv
<1>1. ResultsTypes'
  BY DEF ResultsTypes
<1>2. CalmFirst' /\ OneOutcome' /\ RecoveryFits'
  BY DEF CalmFirst, OneOutcome, RecoveryFits, Results!Up, Calm
<1>3. DeletionFits'
  BY DEF DeletionFits, Deleting, Results!Holds
<1>4. \A x : Deleted(x)' <=> Deleted(x)
  BY DEF Deleted, Deleting
<1>5. TasksFit'
  BY <1>4 DEF TasksFit, TaskFits, Calm
<1>6. VictimsEnded' /\ Results!Victims' = Results!Victims
  BY SameVictims DEF VictimsEnded
<1>7. KeptFits'
  BY <1>6 DEF KeptFits, Retained, Kept, Results!Listed, Results!Regular, Calm
<1> QED
  BY <1>1, <1>2, <1>3, <1>5, <1>6, <1>7

LEMMA ReaderIsUp == ASSUME ResultsInv, reader.at # "idle" PROVE Results!Up
BY DEF ResultsInv, CalmFirst

LEMMA ResultsLook ==
  ASSUME ResultsInv, NEW t \in Tasks, Results!Look(t)
  PROVE  ResultsInv'
<1>1. resultsLeft \in Bounds /\ resultsLeft.lists > 0
  BY DEF ResultsInv, ResultsTypes, Results!Look
<1>2. resultsLeft' \in Bounds /\ resultsLeft'.crashes = resultsLeft.crashes
  BY <1>1 DEF Results!Look, Bounds
<1>3. reader' \in Readers
      /\ reader'.at = "legacy" /\ reader'.task = t
  BY DEF Results!Look, Outcomes, Readers
<1>4. ReaderFits'
  BY <1>3 DEF ReaderFits, NoneYet, Results!Look
<1> QED
  BY <1>2, <1>3, <1>4, OnlyTheReader DEF Results!Look

LEMMA ResultsRead ==
  ASSUME ResultsInv, Results!ReadLegacy
  PROVE  ResultsInv'
<1> USE DEF ResultsInv, Results!ReadLegacy
<1>1. reader.task \in Tasks /\ dir[reader.task].task \in NoneYet /\ reader.at = "legacy" /\ Results!Up
  BY ReaderIsUp DEF ReaderFits
<1>2. dir[reader.task].result \in NoneYet /\ dir[reader.task].result \in Outcomes
  BY <1>1 DEF OneOutcome, NoneYet, Outcomes
<1>3. reader \in Readers
      /\ resultsLeft \in Bounds
  BY DEF ResultsTypes
<1>4. CASE dir[reader.task].result = "none"
  <2>1. PICK e : e = Results!NotReading
    OBVIOUS
  <2>3. e \in Readers
        /\ e.at = "idle"
    BY <2>1 DEF Results!NotReading, Outcomes, Readers
  <2>2. reader' \in Readers
        /\ reader'.at = "idle"
    BY <2>1, <2>3, <1>4
  <2> QED
    BY <1>1, <1>3, <2>2, OnlyTheReader DEF ReaderFits
<1>5. CASE dir[reader.task].result # "none"
  <2>1. reader' = [reader EXCEPT !.at = "write", !.found = dir[reader.task].result]
    BY <1>5
  <2>2. reader' \in Readers
        /\ reader'.at = "write" /\ reader'.task = reader.task /\ reader'.found = "own"
    BY <1>2, <1>3, <1>5, <2>1 DEF NoneYet, Readers
  <2>3. ReaderFits'
    BY <1>1, <2>2 DEF ReaderFits
  <2> QED
    BY <1>1, <1>3, <2>2, <2>3, OnlyTheReader
<1> QED
  BY <1>4, <1>5

LEMMA ResultsWriteMigrated ==
  ASSUME ResultsInv, Results!WriteMigrated
  PROVE  ResultsInv'
<1> USE DEF ResultsInv, Results!WriteMigrated
<1>1. PICK v \in Tasks : v = reader.task
  BY DEF ReaderFits
<1>2. dir[v].task \in NoneYet /\ reader.at = "write" /\ reader.found = "own" /\ Results!Up
  BY <1>1, ReaderIsUp DEF ReaderFits
<1>3. reader' \in Readers
      /\ reader'.at = "move" /\ reader'.task = v /\ reader'.found = "own"
  BY <1>1, <1>2 DEF ResultsTypes, Readers
<1>4. dir \in [Tasks -> Entries] /\ dir[v] \in Entries /\ touched' = touched \union {v}
  BY <1>1 DEF ResultsTypes
<1>5. PICK e : e = [dir[v] EXCEPT !.there = TRUE, !.temp = TRUE]
  OBVIOUS
<1>6. e \in Entries /\ e.task = dir[v].task /\ e.summary = dir[v].summary /\ e.result = dir[v].result
  BY <1>4, <1>5 DEF Entries
<1>7. dir' = [dir EXCEPT ![v] = e]
  BY <1>1, <1>5 DEF Results!Put
<1>8. dir' \in [Tasks -> Entries] /\ dir'[v] = e /\ \A u \in Tasks \ {v} : dir'[u] = dir[u]
  BY <1>4, <1>6, <1>7
<1>9. \A u \in Tasks : dir'[u].task = dir[u].task /\ dir'[u].summary = dir[u].summary /\ dir'[u].result = dir[u].result
  BY <1>6, <1>8
<1>10. ResultsTypes'
  BY <1>1, <1>3, <1>4, <1>8 DEF ResultsTypes
<1>11. CalmFirst' /\ OneOutcome'
  BY <1>2, <1>9 DEF CalmFirst, OneOutcome, Results!Up, Calm
<1>12. RecoveryFits'
  BY <1>2 DEF RecoveryFits, Results!Up, Results!NotRecovering
<1>13. ReaderFits'
  BY <1>2, <1>3, <1>4, <1>9 DEF ReaderFits
<1>14. DeletionFits'
  BY <1>4, <1>8, OthersDelete DEF DeletionFits
<1>15. \A x : Deleted(x)' <=> Deleted(x)
  BY DEF Deleted, Deleting
<1>16. TasksFit'
  BY <1>4, <1>8, <1>15 DEF TasksFit, TaskFits, Calm
<1>17. VictimsEnded'
  <2>1. Results!Victims' = Results!Victims
    BY SameVictims
  <2>2. thread[v].at \notin NotEnded
    <3> SUFFICES ASSUME thread[v].at \in NotEnded PROVE FALSE
      OBVIOUS
    <3>1. Calm /\ v \notin touched
      BY DEF CalmFirst, Results!Over, NotEnded, VictimsEnded
    <3>2. dir[v] = Results!Active \/ dir[v] = Indexed
      BY <3>1 DEF TasksFit, TaskFits, NotEnded
    <3> QED
      BY <3>2, <1>2, EntriesOfATask DEF NoneYet
  <2> QED
    BY <2>1, <2>2, <1>4 DEF VictimsEnded
<1>18. KeptFits'
  BY <1>4 DEF KeptFits, Retained
<1> QED
  BY <1>10, <1>11, <1>12, <1>13, <1>14, <1>16, <1>17, <1>18

LEMMA ResultsMoveMigrated ==
  ASSUME ResultsInv, Results!MoveMigrated
  PROVE  ResultsInv'
<1> USE DEF ResultsInv, Results!MoveMigrated
<1>1. PICK v \in Tasks : v = reader.task
  BY DEF ReaderFits
<1>2. dir[v].task \in NoneYet /\ v \in touched /\ reader.found = "own" /\ Results!Up
  BY <1>1, ReaderIsUp DEF ReaderFits
<1>3. reader' \in Readers
      /\ reader'.at = "idle"
  BY DEF Results!NotReading, Outcomes, Readers
<1>4. CASE ~dir[v].temp
  <2>1. UNCHANGED dir
    BY <1>1, <1>4
  <2>2. resultsLeft \in Bounds
    BY DEF ResultsTypes
  <2> QED
    BY <1>2, <1>3, <2>1, <2>2, OnlyTheReader DEF ReaderFits
<1>5. CASE dir[v].temp
  <2>1. dir \in [Tasks -> Entries] /\ dir[v] \in Entries
    BY <1>1 DEF ResultsTypes
  <2>2. PICK e : e = [dir[v] EXCEPT !.temp = FALSE, !.task = "own"]
    OBVIOUS
  <2>3. e \in Entries /\ e.task = "own" /\ e.summary = dir[v].summary /\ e.result = dir[v].result
    BY <2>1, <2>2 DEF Entries, Outcomes
  <2>4. dir' = [dir EXCEPT ![v] = e]
    BY <1>1, <1>2, <1>5, <2>2 DEF Results!Put
  <2>5. dir' \in [Tasks -> Entries] /\ dir'[v] = e /\ \A u \in Tasks \ {v} : dir'[u] = dir[u]
    BY <2>1, <2>3, <2>4
  <2>6. ResultsTypes'
    BY <1>3, <2>5 DEF ResultsTypes
  <2>7. CalmFirst'
    BY <1>2, <1>3, <2>3, <2>5 DEF CalmFirst, Results!Up, Calm
  <2>8. OneOutcome'
    <3>1. dir[v].summary \in NoneYet /\ dir[v].result \in NoneYet
      BY <1>2 DEF OneOutcome
    <3> QED
      BY <3>1, <2>3, <2>5 DEF OneOutcome
  <2>9. RecoveryFits' /\ ReaderFits'
    BY <1>2, <1>3 DEF RecoveryFits, ReaderFits, Results!Up, Results!NotRecovering
  <2>10. DeletionFits'
    BY <1>2, <2>5, OthersDelete DEF DeletionFits
  <2>11. \A x : Deleted(x)' <=> Deleted(x)
    BY DEF Deleted, Deleting
  <2>12. TasksFit'
    BY <1>2, <2>5, <2>11 DEF TasksFit, TaskFits, Calm
  <2>13. VictimsEnded'
    BY SameVictims DEF VictimsEnded
  <2>14. KeptFits'
    BY <1>2 DEF KeptFits, Retained
  <2> QED
    BY <2>6, <2>7, <2>8, <2>9, <2>10, <2>12, <2>13, <2>14
<1> QED
  BY <1>4, <1>5

-----------------------------------------------------------------------------
(* A crash and the recovery after it, when no completion goes on.          *)
LEMMA ResultsCrash ==
  ASSUME ResultsInv, Results!Crash
  PROVE  ResultsInv'
<1> USE DEF ResultsInv, Results!Crash
<1>1. resultsLeft \in Bounds /\ ResultCrashes \in Nat
  BY ResultsAssumption DEF ResultsTypes
<1>2. resultsLeft' \in Bounds /\ ~Calm'
  BY <1>1 DEF Calm, Bounds
<1>3. thread' \in [Tasks -> Completions] /\ \A u \in Tasks : thread'[u] = Results!Over
  <2>1. <<>> \in Seq(Tasks) /\ {} \in SUBSET Paths
    OBVIOUS
  <2>2. Results!Over \in Completions
    BY <2>1 DEF Results!Over, Completions
  <2>3. thread' = [t \in Tasks |-> Results!Over]
    OBVIOUS
  <2> QED
    BY <2>2, <2>3
<1>4. touched' \in SUBSET Tasks
  <2>1. Results!Victims \subseteq Tasks
    <3> SUFFICES ASSUME NEW x \in Results!Victims PROVE x \in Tasks
      OBVIOUS
    <3>1. PICK u \in Tasks : \E i \in DOMAIN thread[u].victims : thread[u].victims[i] = x
      BY VictimsNow, VictimsNext
    <3>2. thread[u].victims \in Seq(Tasks)
      BY DEF Completions, ResultsTypes
    <3> QED
      BY <3>1, <3>2
  <2>2. reader.at = "move" => reader.task \in Tasks
    BY DEF ReaderFits
  <2> QED
    BY <2>1, <2>2 DEF ResultsTypes
<1>5. PICK e : e = Results!NotReading
  OBVIOUS
<1>6. e \in Readers /\ e.at = "idle"
  BY <1>5 DEF Results!NotReading, Outcomes, Readers
<1>7. reader' = e
  BY <1>5
<1>8. /\ recover' \in Recoveries
      /\ recover'.at = "next" /\ recover'.rest = {t \in Tasks : dir[t].task = "active"}
  BY DEF Recoveries
<1>9. ResultsTypes'
  BY <1>2, <1>3, <1>4, <1>6, <1>7, <1>8 DEF ResultsTypes
<1>10. CalmFirst' /\ OneOutcome' /\ RecoveryFits' /\ ReaderFits'
  BY <1>2, <1>3, <1>6, <1>7, <1>8 DEF CalmFirst, OneOutcome, RecoveryFits, ReaderFits, Results!Up
<1>11. \A u \in Tasks : thread'[u].at = "done" /\ thread'[u].victims = <<>>
  BY <1>3 DEF Results!Over
<1>12. DeletionFits' /\ VictimsEnded'
  BY <1>11 DEF DeletionFits, Deleting, VictimsEnded, NotEnded
<1>13. TasksFit' /\ KeptFits'
  BY <1>2 DEF TasksFit, KeptFits, Retained
<1> QED
  BY <1>9, <1>10, <1>12, <1>13

LEMMA OnlyRecovery ==
  ASSUME ResultsInv, ~Results!Up, UNCHANGED <<thread, reader, touched, resultsLeft>>,
         dir' \in [Tasks -> Entries],
         recover' \in Recoveries,
         OneOutcome', RecoveryFits'
  PROVE  ResultsInv'
<1> USE DEF ResultsInv
<1>1. ~Calm /\ ~Calm' /\ reader.at = "idle" /\ \A u \in Tasks : thread[u] = Results!Over
  BY DEF CalmFirst, Calm
<1>2. ResultsTypes'
  BY DEF ResultsTypes
<1>3. CalmFirst' /\ ReaderFits'
  BY <1>1 DEF CalmFirst, ReaderFits
<1>4. \A u \in Tasks : thread'[u].at = "done" /\ thread'[u].victims = <<>>
  BY <1>1 DEF Results!Over
<1>5. DeletionFits' /\ VictimsEnded'
  BY <1>4 DEF DeletionFits, Deleting, VictimsEnded, NotEnded
<1>6. TasksFit' /\ KeptFits'
  BY <1>1 DEF TasksFit, KeptFits, Retained
<1> QED
  BY <1>2, <1>3, <1>5, <1>6

LEMMA ResultsRecoverNext ==
  ASSUME ResultsInv, NEW t \in Tasks, Results!RecoverNext(t)
  PROVE  ResultsInv'
<1> USE DEF ResultsInv, Results!RecoverNext
<1>1. ~Results!Up /\ dir \in [Tasks -> Entries] /\ recover.rest \in SUBSET Tasks /\ dir[t].task = "active"
  BY DEF Results!Up, ResultsTypes, RecoveryFits, Recoveries
<1>2. PICK e : e = [at |-> "summary", rest |-> recover.rest \ {t}, task |-> t]
  OBVIOUS
<1>3. e \in Recoveries
      /\ e.at = "summary" /\ e.rest = recover.rest \ {t} /\ e.task = t
  BY <1>1, <1>2 DEF Recoveries
<1>4. recover' = e
  BY <1>2
<1>5. OneOutcome' /\ RecoveryFits'
  BY <1>1, <1>3, <1>4 DEF OneOutcome, RecoveryFits, Results!Up
<1> QED
  BY <1>1, <1>3, <1>4, <1>5, OnlyRecovery

LEMMA ResultsRecoverSummary ==
  ASSUME ResultsInv, Results!RecoverSummary
  PROVE  ResultsInv'
<1> USE DEF ResultsInv, Results!RecoverSummary
<1>1. PICK v \in Tasks : v = recover.task
  BY DEF RecoveryFits
<1>2. /\ ~Results!Up /\ dir \in [Tasks -> Entries] /\ dir[v] \in Entries /\ dir[v].task = "active"
      /\ v \notin recover.rest /\ \A u \in recover.rest : dir[u].task = "active"
  BY <1>1 DEF Results!Up, ResultsTypes, RecoveryFits
<1>3. PICK e : e = [dir[v] EXCEPT !.summary = "interrupted"]
  OBVIOUS
<1>4. e \in Entries /\ e.task = "active" /\ e.summary = "interrupted"
  BY <1>2, <1>3 DEF Entries, Outcomes
<1>5. dir' = [dir EXCEPT ![v] = e]
  BY <1>1, <1>3 DEF Results!Put
<1>6. dir' \in [Tasks -> Entries] /\ dir'[v] = e /\ \A u \in Tasks \ {v} : dir'[u] = dir[u]
  BY <1>2, <1>4, <1>5
<1>7. recover' \in Recoveries
      /\ recover'.at = "result" /\ recover'.rest = recover.rest /\ recover'.task = v
  BY <1>1 DEF ResultsTypes, Recoveries
<1>8. OneOutcome'
  BY <1>4, <1>6 DEF OneOutcome, NoneYet
<1>9. RecoveryFits'
  BY <1>2, <1>4, <1>6, <1>7 DEF RecoveryFits, Results!Up, ResultsTypes, Recoveries
<1> QED
  BY <1>2, <1>6, <1>7, <1>8, <1>9, OnlyRecovery

LEMMA ResultsRecoverResult ==
  ASSUME ResultsInv, Results!RecoverResult
  PROVE  ResultsInv'
<1> USE DEF ResultsInv, Results!RecoverResult
<1>1. PICK v \in Tasks : v = recover.task
  BY DEF RecoveryFits
<1>2. /\ ~Results!Up /\ dir \in [Tasks -> Entries] /\ dir[v] \in Entries /\ dir[v].task = "active"
      /\ dir[v].summary = "interrupted"
      /\ v \notin recover.rest /\ \A u \in recover.rest : dir[u].task = "active"
  BY <1>1 DEF Results!Up, ResultsTypes, RecoveryFits
<1>3. PICK e : e = [dir[v] EXCEPT !.result = "interrupted", !.series = FALSE]
  OBVIOUS
<1>4. e \in Entries /\ e.task = "active" /\ e.summary = "interrupted" /\ e.result = "interrupted"
  BY <1>2, <1>3 DEF Entries, Outcomes
<1>5. dir' = [dir EXCEPT ![v] = e]
  BY <1>1, <1>3 DEF Results!Put
<1>6. dir' \in [Tasks -> Entries] /\ dir'[v] = e /\ \A u \in Tasks \ {v} : dir'[u] = dir[u]
  BY <1>2, <1>4, <1>5
<1>7. recover' \in Recoveries
      /\ recover'.at = "record" /\ recover'.rest = recover.rest /\ recover'.task = v
  BY <1>1 DEF ResultsTypes, Recoveries
<1>8. OneOutcome'
  BY <1>4, <1>6 DEF OneOutcome, NoneYet
<1>9. RecoveryFits'
  BY <1>2, <1>4, <1>6, <1>7 DEF RecoveryFits, Results!Up, ResultsTypes, Recoveries
<1> QED
  BY <1>2, <1>6, <1>7, <1>8, <1>9, OnlyRecovery

LEMMA ResultsRecoverRecord ==
  ASSUME ResultsInv, Results!RecoverRecord
  PROVE  ResultsInv'
<1> USE DEF ResultsInv
<1>0. /\ recover.at = "record" /\ recover' = [recover EXCEPT !.at = "next"]
      /\ Results!Put(recover.task, [dir[recover.task] EXCEPT !.task = "interrupted"])
      /\ UNCHANGED <<thread, reader, touched, resultsLeft>>
  BY DEF Results!RecoverRecord
<1>1. PICK v \in Tasks : v = recover.task
  BY <1>0 DEF RecoveryFits
<1>2. /\ ~Results!Up /\ dir \in [Tasks -> Entries] /\ dir[v] \in Entries
      /\ dir[v].summary = "interrupted" /\ dir[v].result = "interrupted"
      /\ v \notin recover.rest /\ \A u \in recover.rest : dir[u].task = "active"
  BY <1>0, <1>1 DEF Results!Up, ResultsTypes, RecoveryFits
<1>3. PICK e : e = [dir[v] EXCEPT !.task = "interrupted"]
  OBVIOUS
<1>4. e \in Entries /\ e.task = "interrupted" /\ e.summary = "interrupted" /\ e.result = "interrupted"
  BY <1>2, <1>3 DEF Entries, Outcomes
<1>5. dir' = [dir EXCEPT ![v] = e]
  BY <1>0, <1>1, <1>3 DEF Results!Put
<1>6. dir' \in [Tasks -> Entries] /\ dir'[v] = e /\ \A u \in Tasks \ {v} : dir'[u] = dir[u]
  BY <1>2, <1>4, <1>5
<1>7. recover' \in Recoveries
      /\ recover'.at = "next" /\ recover'.rest = recover.rest
  BY <1>0 DEF ResultsTypes, Recoveries
<1>8. OneOutcome'
  BY <1>4, <1>6 DEF OneOutcome, NoneYet
<1>9. RecoveryFits'
  BY <1>2, <1>4, <1>6, <1>7 DEF RecoveryFits, Results!Up, ResultsTypes, Recoveries
<1> QED
  BY <1>0, <1>2, <1>6, <1>7, <1>8, <1>9, OnlyRecovery

LEMMA ResultsRecovered ==
  ASSUME ResultsInv, Results!Recovered
  PROVE  ResultsInv'
<1> USE DEF ResultsInv, Results!Recovered
<1>1. ~Results!Up /\ dir \in [Tasks -> Entries]
  BY DEF Results!Up, ResultsTypes
<1>2. PICK e : e = Results!NotRecovering
  OBVIOUS
<1>3. e \in Recoveries
      /\ e.at = "idle" /\ e.rest = {}
  BY <1>2 DEF Results!NotRecovering, Recoveries
<1>4. recover' = e
  BY <1>2
<1>5. OneOutcome'
  BY DEF OneOutcome
<1>6. RecoveryFits'
  BY <1>2, <1>3, <1>4 DEF RecoveryFits
<1> QED
  BY <1>1, <1>3, <1>4, <1>5, <1>6, OnlyRecovery

LEMMA ResultsUnchanged == ResultsInv /\ UNCHANGED resultsVars => ResultsInv'
BY DEF ResultsInv, resultsVars, ResultsTypes, CalmFirst, Calm, OneOutcome, RecoveryFits, ReaderFits, DeletionFits, Deleting,
   TasksFit, TaskFits, Deleted, VictimsEnded, KeptFits, Retained, Kept, Results!Up, Results!Victims, Results!Listed,
   Results!Regular, Results!Holds

LEMMA ResultsNext == ResultsInv /\ Results!Next => ResultsInv'
<1> SUFFICES ASSUME ResultsInv, Results!Next PROVE ResultsInv'
  OBVIOUS
<1>1. ASSUME NEW t \in Tasks,
             \/ Results!End(t) \/ Results!SaveSummary(t) \/ Results!SaveResult(t) \/ Results!SaveRecord(t)
             \/ Results!Retain(t) \/ Results!Walk(t) \/ Results!DeleteFile(t) \/ Results!Retained(t)
             \/ Results!Look(t) \/ Results!RecoverNext(t)
      PROVE  ResultsInv'
  BY <1>1, ResultsEnd, ResultsSaveSummary, ResultsSaveResult, ResultsSaveRecord, ResultsRetain, WalkGone, WalkFinds,
     ResultsDelete, ResultsRetained, ResultsLook, ResultsRecoverNext
<1>2. ASSUME \/ Results!ReadLegacy \/ Results!WriteMigrated \/ Results!MoveMigrated
             \/ Results!Crash \/ Results!RecoverSummary \/ Results!RecoverResult \/ Results!RecoverRecord
             \/ Results!Recovered
      PROVE  ResultsInv'
  BY <1>2, ResultsRead, ResultsWriteMigrated, ResultsMoveMigrated, ResultsCrash, ResultsRecoverSummary,
     ResultsRecoverResult, ResultsRecoverRecord, ResultsRecovered
<1> QED
  BY <1>1, <1>2 DEF Results!Next

LEMMA ResultsGive == ResultsInv => Results!ResultsAreWhole
<1> SUFFICES ASSUME ResultsInv PROVE Results!ResultsAreWhole
  OBVIOUS
<1> USE DEF ResultsInv
<1>1. ASSUME NEW t \in Results!Listed, dir[t].task \notin {"active", "none"}
      PROVE  dir[t].summary = dir[t].result /\ dir[t].task = dir[t].result
  <2>1. dir[t] \in Entries /\ dir[t].result # "none" /\ dir[t].summary # "none" /\ t \in Tasks
    BY <1>1 DEF Results!Listed, Results!Regular, ResultsTypes
  <2>2. dir[t].task \in {"own", "interrupted"}
    BY <1>1, <2>1 DEF Entries, Outcomes
  <2> QED
    BY <2>1, <2>2 DEF OneOutcome, NoneYet
<1>2. ASSUME \A t \in Tasks : thread[t].at = "done", Calm
      PROVE  /\ touched = {} /\ Cardinality(Tasks) <= ListLimit => Cardinality(Results!Listed) <= MaxResults
             /\ \A t \in Tasks \ touched :
                  dir[t] = Results!Nothing \/ (Results!Regular(dir[t]) /\ dir[t].task = "own" /\ ~dir[t].series)
  <2>1. \A t \in Tasks : thread[t].victims = <<>>
    BY <1>2 DEF DeletionFits
  <2>2. Results!Victims = {}
    <3>1. ASSUME NEW x \in Results!Victims PROVE FALSE
      <4>1. PICK u \in Tasks : \E i \in DOMAIN thread[u].victims : thread[u].victims[i] = x
        BY <3>1, VictimsNow, VictimsNext
      <4> QED
        BY <4>1, <2>1
    <3> QED
      BY <3>1
  <2>3. ASSUME touched = {}, Cardinality(Tasks) <= ListLimit PROVE Cardinality(Results!Listed) <= MaxResults
    <3>1. Retained
      BY <1>2, <2>3 DEF Retained, Saves
    <3>2. Kept = Results!Listed
      BY <2>2 DEF Kept
    <3> QED
      BY <3>1, <3>2 DEF KeptFits
  <2>4. ASSUME NEW t \in Tasks \ touched
        PROVE  dir[t] = Results!Nothing \/ (Results!Regular(dir[t]) /\ dir[t].task = "own" /\ ~dir[t].series)
    <3>1. ~Deleted(t) /\ thread[t].at = "done"
      BY <1>2 DEF Deleted, Deleting
    <3>2. dir[t] \in {Whole, Results!Nothing}
      BY <1>2, <2>4, <3>1 DEF TasksFit, TaskFits
    <3> QED
      BY <3>2, EntriesOfATask DEF Results!Regular
  <2> QED
    BY <2>3, <2>4
<1> QED
  BY <1>1, <1>2, SameCardinality DEF Results!ResultsAreWhole, Calm

-----------------------------------------------------------------------------
(* An installation: the releases, their configuration and the active one.  *)

Files == {Installer!ConfigFiles[n] : n \in 1..4}
InstallSteps == {"layout", "state", "fetch", "extract", "validate", "save", "config", "activate", "services"}

Run == [at : InstallSteps \union {"idle"}, version : Versions \union {Installer!None},
        ports : Ports \union {Installer!None}, file : 1..4]

InstallTypes ==
  /\ release \in [Versions -> {"none", "begun", "passable", "whole"}]
  /\ saved \in [version : Versions \union {Installer!None}, ports : Ports \union {Installer!None}]
  /\ config \in [ports : [Files -> Ports \union {Installer!None, Installer!Torn}], release : Versions \union {Installer!None}]
  /\ current \in Versions \union {Installer!None}
  /\ installing \in Run
  /\ since \in [cut : SUBSET Versions, behind : BOOLEAN, edited : BOOLEAN]

\* A run keeps the ports of the first installation, and activates a release
\* that has passed validation.
RunIsSound ==
  /\ installing.at # "idle" => installing.version \in Versions
  /\ installing.at \notin {"idle", "layout", "state"} =>
       installing.ports \in Ports /\ (saved.ports # Installer!None => installing.ports = saved.ports)
  /\ installing.at \in {"save", "config", "activate"} => release[installing.version] \in {"passable", "whole"}
  /\ installing.at = "validate" => release[installing.version] # "none"
  /\ installing.at \notin {"config", "activate", "services"} => installing.file = 1
  /\ installing.at = "extract" =>
       current # installing.version /\ release[installing.version] \in {"begun", "passable"}

\* A release is not whole after its extraction was cut off, or during it.
CutIsKnown == \A v \in Versions :
  release[v] = "passable" => v \in since.cut \/ (installing.at = "extract" /\ installing.version = v)

ActiveIsValid == current # Installer!None =>
  /\ release[current] \in {"passable", "whole"}
  /\ current \notin since.cut => release[current] = "whole"

PortsAgree == \A f \in Files : config.ports[f] \in {Installer!None, Installer!Torn, saved.ports}

\* Between saving the version and activating it a run is ahead of what is
\* active; it has written the files before the one it is at.
RunIsAhead ==
  /\ installing.at \in {"config", "activate"} =>
       since.behind /\ saved.version = installing.version /\ saved.ports = installing.ports
  /\ installing.at = "config" =>
       \A n \in 1..(installing.file - 1) : config.ports[Installer!ConfigFiles[n]] = saved.ports
  /\ installing.at = "activate" =>
       config.release = installing.version /\ \A f \in Files : config.ports[f] = saved.ports

ActiveIsOne == current # Installer!None /\ ~since.behind =>
  /\ saved.version = current /\ config.release = current
  /\ \A f \in Files : config.ports[f] = saved.ports

EditsKept == since.edited => registry = "edited"

InstallInv ==
  /\ InstallTypes /\ RunIsSound /\ CutIsKnown /\ ActiveIsValid /\ PortsAgree
  /\ RunIsAhead /\ ActiveIsOne /\ EditsKept

LEMMA FourFiles ==
  /\ Installer!ConfigFiles \in [1..4 -> {"proxy.yaml", "runner.yaml", "runtime-config.json", "Caddyfile"}]
  /\ Len(Installer!ConfigFiles) = 4 /\ DOMAIN Installer!ConfigFiles = 1..4
  /\ Installer!ConfigFiles[4] = "Caddyfile"
BY DEF Installer!ConfigFiles

LEMMA InstallInit == ASSUME Installer!Init PROVE InstallInv
  <1>1. InstallTypes
    BY FourFiles DEF Installer!Init, InstallTypes, Run, Files, Installer!NoRun, Installer!None
  <1>2. /\ installing.at = "idle" /\ installing.file = 1 /\ current = Installer!None /\ ~since.edited
        /\ \A v \in Versions : release[v] = "none"
        /\ \A f \in Files : config.ports[f] = Installer!None
    BY FourFiles DEF Installer!Init, Files, Installer!NoRun, Installer!None
  <1> QED BY <1>1, <1>2
      DEF InstallInv, RunIsSound, CutIsKnown, ActiveIsValid, PortsAgree, RunIsAhead, ActiveIsOne, EditsKept

\* A step that moves the run on, and leaves what is on disk.
LEMMA RunMoves ==
  ASSUME InstallInv, UNCHANGED <<release, saved, config, current, since>>,
         since.edited => registry' = registry, installing.at # "extract",
         installing' \in Run,
         RunIsSound', RunIsAhead'
  PROVE  InstallInv'
  <1>1. InstallTypes'
    BY DEF InstallInv, InstallTypes
  <1>2. CutIsKnown' /\ ActiveIsValid' /\ PortsAgree' /\ ActiveIsOne' /\ EditsKept'
    BY DEF InstallInv, CutIsKnown, ActiveIsValid, PortsAgree, ActiveIsOne, EditsKept
  <1> QED BY <1>1, <1>2 DEF InstallInv

LEMMA IdleRun == Installer!NoRun \in Run /\ Installer!NoRun.at = "idle" /\ Installer!NoRun.file = 1
BY DEF Installer!NoRun, Run

LEMMA RunEnds ==
  ASSUME InstallInv, UNCHANGED <<release, saved, config, current, since>>,
         since.edited => registry' = registry, installing.at # "extract", installing' = Installer!NoRun
  PROVE  InstallInv'
  <1>1. RunIsSound' /\ RunIsAhead'
    BY IdleRun DEF RunIsSound, RunIsAhead
  <1> QED BY <1>1, IdleRun, RunMoves

\* The run goes from one step to another and keeps the rest.
LEMMA Gone ==
  ASSUME InstallTypes, NEW step \in InstallSteps, installing' = [installing EXCEPT !.at = step]
  PROVE  /\ installing' \in Run /\ installing'.at = step /\ installing'.version = installing.version
         /\ installing'.ports = installing.ports /\ installing'.file = installing.file
BY DEF InstallTypes, Run

LEMMA InstallStart ==
  ASSUME InstallInv, NEW v \in Versions, Installer!Install(v)
  PROVE  InstallInv'
  <1>1. /\ installing' = [Installer!NoRun EXCEPT !.at = "layout", !.version = v] /\ installing.at = "idle"
        /\ UNCHANGED <<release, saved, config, current, since>> /\ registry' = registry
    BY DEF Installer!Install, Installer!At
  <1>2. installing' \in Run /\ installing'.at = "layout" /\ installing'.version = v /\ installing'.file = 1
    <2>1. installing' = [at |-> "layout", version |-> v, ports |-> Installer!None, file |-> 1]
      BY <1>1 DEF Installer!NoRun
    <2> QED BY <2>1 DEF Run, InstallSteps
  <1>3. RunIsSound' /\ RunIsAhead'
    BY <1>2 DEF RunIsSound, RunIsAhead
  <1> QED BY <1>1, <1>2, <1>3, RunMoves

LEMMA InstallLayout ==
  ASSUME InstallInv, Installer!EnsureLayout
  PROVE  InstallInv'
  <1>1. /\ installing' = [installing EXCEPT !.at = "state"] /\ installing.at = "layout"
        /\ UNCHANGED <<release, saved, config, current, since>>
    BY DEF Installer!EnsureLayout, Installer!At, Installer!Goto
  <1>2. since.edited => registry' = registry
    BY DEF Installer!EnsureLayout, InstallInv, EditsKept, Installer!None
  <1>3. installing' \in Run /\ installing'.at = "state" /\ installing'.version = installing.version
        /\ installing'.file = installing.file
    BY <1>1, Gone DEF InstallInv, InstallSteps
  <1>4. RunIsSound' /\ RunIsAhead'
    BY <1>1, <1>3 DEF InstallInv, RunIsSound, RunIsAhead
  <1> QED BY <1>1, <1>2, <1>3, <1>4, RunMoves

LEMMA InstallState ==
  ASSUME InstallInv, Installer!LoadOrCreateState
  PROVE  InstallInv'
  <1>1. PICK p \in Ports : Installer!PortsOf(p) /\ installing' = [installing EXCEPT !.at = "fetch", !.ports = p]
    BY DEF Installer!LoadOrCreateState
  <1>2. installing.at = "state" /\ UNCHANGED <<release, saved, config, current, since, registry>>
    BY DEF Installer!LoadOrCreateState, Installer!At
  <1>3. installing' \in Run /\ installing'.at = "fetch" /\ installing'.version = installing.version /\ installing'.ports = p
        /\ installing'.file = installing.file
    BY <1>1 DEF InstallInv, InstallTypes, Run, InstallSteps
  <1>4. RunIsSound' /\ RunIsAhead'
    BY <1>1, <1>2, <1>3 DEF InstallInv, RunIsSound, RunIsAhead, Installer!PortsOf
  <1> QED BY <1>2, <1>3, <1>4, RunMoves

LEMMA InstallDownload ==
  ASSUME InstallInv, Installer!Download
  PROVE  InstallInv'
  <1> DEFINE v == installing.version
  <1>1. installing.at = "fetch" /\ UNCHANGED <<saved, config, current, registry, since>>
    BY DEF Installer!Download, Installer!At
  <1>2. v \in Versions /\ installing.ports \in Ports
    BY <1>1 DEF InstallInv, RunIsSound
  <1>5. installing.file = 1 /\ (saved.ports # Installer!None => installing.ports = saved.ports)
    BY <1>1 DEF InstallInv, RunIsSound
  <1>3. CASE release[v] = Installer!None
    <2>1. installing' = [installing EXCEPT !.at = "extract"] /\ release' = [release EXCEPT ![v] = "begun"]
      BY <1>3 DEF Installer!Download, Installer!Goto
    <2>2. installing' \in Run /\ installing'.at = "extract" /\ installing'.version = v /\ installing'.ports = installing.ports
          /\ installing'.file = installing.file
      BY <2>1, Gone DEF InstallInv, InstallSteps
    <2>3. release' \in [Versions -> {"none", "begun", "passable", "whole"}] /\ release'[v] = "begun"
          /\ \A u \in Versions : u # v => release'[u] = release[u]
      BY <1>2, <2>1 DEF InstallInv, InstallTypes
    <2>4. current # v
      BY <1>2, <1>3, InstallAssumption DEF InstallInv, ActiveIsValid, Installer!None
    <2> HIDE DEF v
    <2>5. InstallTypes'
      BY <1>1, <2>2, <2>3 DEF InstallInv, InstallTypes
    <2>6. RunIsSound' /\ RunIsAhead'
      BY <1>1, <1>2, <1>5, <2>2, <2>3, <2>4 DEF RunIsSound, RunIsAhead
    <2>7. CutIsKnown'
      BY <1>1, <2>2, <2>3 DEF InstallInv, CutIsKnown
    <2>8. ActiveIsValid'
      BY <1>1, <2>3, <2>4 DEF InstallInv, InstallTypes, ActiveIsValid
    <2>9. PortsAgree' /\ ActiveIsOne' /\ EditsKept'
      BY <1>1 DEF InstallInv, PortsAgree, ActiveIsOne, EditsKept
    <2> QED BY <2>5, <2>6, <2>7, <2>8, <2>9 DEF InstallInv
  <1>4. CASE release[v] # Installer!None
    <2>1. installing' = [installing EXCEPT !.at = "validate"] /\ release' = release
      BY <1>4 DEF Installer!Download, Installer!Goto
    <2>2. installing' \in Run /\ installing'.at = "validate" /\ installing'.version = v /\ installing'.ports = installing.ports
          /\ installing'.file = installing.file
      BY <2>1, Gone DEF InstallInv, InstallSteps
    <2>3. RunIsSound' /\ RunIsAhead'
      BY <1>1, <1>2, <1>4, <1>5, <2>1, <2>2 DEF RunIsSound, RunIsAhead, Installer!None
    <2> QED BY <1>1, <2>1, <2>2, <2>3, RunMoves
  <1> QED BY <1>3, <1>4

LEMMA InstallExtract ==
  ASSUME InstallInv, Installer!Extract
  PROVE  InstallInv'
  <1> DEFINE v == installing.version
  <1>1. /\ installing.at = "extract" /\ UNCHANGED <<saved, config, current, registry, since>>
        /\ release' = [release EXCEPT ![v] = IF release[v] = "begun" THEN "passable" ELSE "whole"]
    BY DEF Installer!Extract, Installer!At
  <1>2. /\ v \in Versions /\ installing.ports \in Ports /\ current # v /\ release[v] \in {"begun", "passable"} /\ installing.file = 1
        /\ saved.ports # Installer!None => installing.ports = saved.ports
    BY <1>1 DEF InstallInv, RunIsSound
  <1>3. release' \in [Versions -> {"none", "begun", "passable", "whole"}]
        /\ \A u \in Versions : u # v => release'[u] = release[u]
    BY <1>1, <1>2 DEF InstallInv, InstallTypes
  <1>4. \/ release[v] = "begun" /\ release'[v] = "passable" /\ installing' = installing
        \/ release[v] = "passable" /\ release'[v] = "whole" /\ installing' = [installing EXCEPT !.at = "validate"]
    BY <1>1, <1>2 DEF Installer!Extract, Installer!Goto, InstallInv, InstallTypes
  <1>5. /\ installing' \in Run /\ installing'.version = v /\ installing'.ports = installing.ports
        /\ installing'.file = installing.file
        /\ \/ installing'.at = "extract" /\ release'[v] = "passable"
           \/ installing'.at = "validate" /\ release'[v] = "whole"
    BY <1>1, <1>4, Gone DEF InstallInv, InstallTypes, InstallSteps
  <1> HIDE DEF v
  <1>6. InstallTypes'
    BY <1>1, <1>3, <1>5 DEF InstallInv, InstallTypes
  <1>7. RunIsSound' /\ RunIsAhead'
    BY <1>1, <1>2, <1>5 DEF RunIsSound, RunIsAhead
  <1>8. CutIsKnown'
    BY <1>1, <1>3, <1>5 DEF InstallInv, CutIsKnown, v
  <1>9. ActiveIsValid'
    BY <1>1, <1>2, <1>3 DEF InstallInv, InstallTypes, ActiveIsValid
  <1>10. PortsAgree' /\ ActiveIsOne' /\ EditsKept'
    BY <1>1 DEF InstallInv, PortsAgree, ActiveIsOne, EditsKept
  <1> QED BY <1>6, <1>7, <1>8, <1>9, <1>10 DEF InstallInv

LEMMA InstallValidate ==
  ASSUME InstallInv, Installer!Validate
  PROVE  InstallInv'
  <1> DEFINE v == installing.version
  <1>1. /\ installing.at = "validate" /\ UNCHANGED <<release, saved, config, current, registry, since>>
        /\ installing' = IF release[v] = "begun" THEN Installer!NoRun ELSE [installing EXCEPT !.at = "save"]
    BY DEF Installer!Validate, Installer!At
  <1>2. CASE release[v] = "begun"
    BY <1>1, <1>2, RunEnds
  <1>3. CASE release[v] # "begun"
    <2>1. installing' \in Run /\ installing'.at = "save" /\ installing'.version = v /\ installing'.ports = installing.ports
          /\ installing'.file = installing.file
      BY <1>1, <1>3, Gone DEF InstallInv, InstallSteps
    <2>2. release[v] \in {"passable", "whole"}
      BY <1>1, <1>3 DEF InstallInv, InstallTypes, RunIsSound
    <2>3. RunIsSound' /\ RunIsAhead'
      BY <1>1, <2>1, <2>2 DEF InstallInv, RunIsSound, RunIsAhead
    <2> QED BY <1>1, <2>1, <2>3, RunMoves
  <1> QED BY <1>2, <1>3

LEMMA InstallSave ==
  ASSUME InstallInv, Installer!SaveState
  PROVE  InstallInv'
  <1>1. /\ installing.at = "save" /\ UNCHANGED <<release, config, current, registry>>
        /\ saved' = [version |-> installing.version, ports |-> installing.ports]
        /\ installing' = [installing EXCEPT !.at = "config"] /\ since' = [since EXCEPT !.behind = TRUE]
    BY DEF Installer!SaveState, Installer!At, Installer!Goto
  <1>2. /\ installing' \in Run /\ installing'.at = "config" /\ installing'.version = installing.version
        /\ installing'.ports = installing.ports /\ installing'.file = installing.file
    BY <1>1, Gone DEF InstallInv, InstallSteps
  <1>3. /\ installing.version \in Versions /\ installing.ports \in Ports
        /\ release[installing.version] \in {"passable", "whole"}
        /\ saved.ports # Installer!None => installing.ports = saved.ports
    BY <1>1 DEF InstallInv, RunIsSound
  <1>4. since' \in [cut : SUBSET Versions, behind : BOOLEAN, edited : BOOLEAN]
        /\ since'.behind = TRUE /\ since'.cut = since.cut /\ since'.edited = since.edited
    BY <1>1 DEF InstallInv, InstallTypes
  <1>5. saved'.version = installing.version /\ saved'.ports = installing.ports
        /\ saved' \in [version : Versions \union {Installer!None}, ports : Ports \union {Installer!None}]
    BY <1>1, <1>3
  <1>6. installing.file = 1
    BY <1>1 DEF InstallInv, RunIsSound
  <1>7. InstallTypes'
    BY <1>1, <1>2, <1>4, <1>5 DEF InstallInv, InstallTypes
  <1>8. RunIsSound' /\ RunIsAhead'
    BY <1>1, <1>2, <1>3, <1>4, <1>5, <1>6 DEF InstallInv, RunIsSound, RunIsAhead
  <1>9. CutIsKnown' /\ ActiveIsValid' /\ EditsKept'
    BY <1>1, <1>2, <1>4 DEF InstallInv, CutIsKnown, ActiveIsValid, EditsKept
  <1>10. PortsAgree'
    BY <1>1, <1>3, <1>5 DEF InstallInv, PortsAgree
  <1>11. ActiveIsOne'
    BY <1>4 DEF ActiveIsOne
  <1> QED BY <1>7, <1>8, <1>9, <1>10, <1>11 DEF InstallInv

LEMMA InstallWrite ==
  ASSUME InstallInv, Installer!WriteConfig
  PROVE  InstallInv'
  <1> DEFINE k == installing.file
             f == Installer!ConfigFiles[k]
  <1>1. /\ installing.at = "config" /\ UNCHANGED <<release, saved, current, registry, since>>
        /\ config' = [config EXCEPT !.ports[f] = installing.ports,
                                   !.release = IF f = "Caddyfile" THEN installing.version ELSE config.release]
        /\ installing' = IF k < Len(Installer!ConfigFiles) THEN [installing EXCEPT !.file = k + 1]
                         ELSE [installing EXCEPT !.at = "activate"]
    BY DEF Installer!WriteConfig, Installer!At
  <1>2. k \in 1..4 /\ f \in Files
    BY DEF InstallInv, InstallTypes, Run, Files
  <1>3. /\ installing.version \in Versions /\ installing.ports \in Ports
        /\ release[installing.version] \in {"passable", "whole"}
        /\ since.behind /\ saved.version = installing.version /\ saved.ports = installing.ports
        /\ \A n \in 1..(k - 1) : config.ports[Installer!ConfigFiles[n]] = saved.ports
    BY <1>1 DEF InstallInv, RunIsSound, RunIsAhead
  <1>4. /\ installing' \in Run /\ installing'.version = installing.version /\ installing'.ports = installing.ports
        /\ \/ installing'.at = "config" /\ installing'.file = k + 1 /\ k < 4
           \/ installing'.at = "activate" /\ k = 4
    <2>1. CASE k < 4
      BY <1>1, <1>2, <2>1, FourFiles DEF InstallInv, InstallTypes, Run
    <2>2. CASE ~(k < 4)
      BY <1>1, <1>2, <2>2, FourFiles DEF InstallInv, InstallTypes, Run, InstallSteps
    <2> QED BY <2>1, <2>2
  <1>5. /\ config'.ports \in [Files -> Ports \union {Installer!None, Installer!Torn}]
        /\ config'.ports[f] = installing.ports /\ \A g \in Files : g # f => config'.ports[g] = config.ports[g]
        /\ config'.release = IF f = "Caddyfile" THEN installing.version ELSE config.release
        /\ config' \in [ports : [Files -> Ports \union {Installer!None, Installer!Torn}], release : Versions \union {Installer!None}]
    <2>1. config \in [ports : [Files -> Ports \union {Installer!None, Installer!Torn}], release : Versions \union {Installer!None}]
      BY DEF InstallInv, InstallTypes
    <2>2. config' = [ports |-> [config.ports EXCEPT ![f] = installing.ports],
                     release |-> IF f = "Caddyfile" THEN installing.version ELSE config.release]
      <3> HIDE DEF f, k
      <3> QED BY <1>1, <2>1
    <2> HIDE DEF f, k
    <2> QED BY <1>2, <1>3, <2>1, <2>2
  <1>6. \A n \in 1..k : config'.ports[Installer!ConfigFiles[n]] = saved.ports
    BY <1>2, <1>3, <1>5 DEF Files
  <1>7. k = 4 => f = "Caddyfile"
    BY FourFiles
  <1> HIDE DEF f, k
  <1>8. InstallTypes'
    BY <1>1, <1>4, <1>5 DEF InstallInv, InstallTypes
  <1>9. RunIsSound'
    BY <1>1, <1>3, <1>4 DEF RunIsSound
  <1>10. RunIsAhead'
    <2>1. CASE installing'.at = "config"
      BY <1>1, <1>2, <1>3, <1>4, <1>6, <2>1 DEF RunIsAhead
    <2>2. CASE installing'.at = "activate"
      <3>1. \A g \in Files : config'.ports[g] = saved.ports
        BY <1>4, <1>6, <2>2 DEF Files
      <3> QED BY <1>1, <1>3, <1>4, <1>5, <1>7, <2>2, <3>1 DEF RunIsAhead
    <2> QED BY <1>4, <2>1, <2>2
  <1>11. CutIsKnown' /\ ActiveIsValid' /\ EditsKept'
    BY <1>1 DEF InstallInv, CutIsKnown, ActiveIsValid, EditsKept
  <1>12. PortsAgree'
    BY <1>1, <1>3, <1>5 DEF InstallInv, PortsAgree
  <1>13. ActiveIsOne'
    BY <1>1, <1>3 DEF ActiveIsOne
  <1> QED BY <1>8, <1>9, <1>10, <1>11, <1>12, <1>13 DEF InstallInv

LEMMA InstallActivate ==
  ASSUME InstallInv, Installer!Activate
  PROVE  InstallInv'
  <1>1. /\ installing.at = "activate" /\ UNCHANGED <<release, saved, config, registry>>
        /\ current' = installing.version /\ installing' = [installing EXCEPT !.at = "services"]
        /\ since' = [since EXCEPT !.behind = FALSE]
    BY DEF Installer!Activate, Installer!At, Installer!Goto
  <1>2. /\ installing' \in Run /\ installing'.at = "services" /\ installing'.version = installing.version
        /\ installing'.ports = installing.ports
    BY <1>1, Gone DEF InstallInv, InstallSteps
  <1>3. /\ installing.version \in Versions /\ installing.ports \in Ports
        /\ release[installing.version] \in {"passable", "whole"}
        /\ saved.version = installing.version /\ saved.ports = installing.ports
        /\ config.release = installing.version /\ \A f \in Files : config.ports[f] = saved.ports
    BY <1>1 DEF InstallInv, RunIsSound, RunIsAhead
  <1>4. since' \in [cut : SUBSET Versions, behind : BOOLEAN, edited : BOOLEAN]
        /\ since'.cut = since.cut /\ since'.edited = since.edited
    BY <1>1 DEF InstallInv, InstallTypes
  <1>5. InstallTypes'
    BY <1>1, <1>2, <1>3, <1>4 DEF InstallInv, InstallTypes
  <1>6. RunIsSound' /\ RunIsAhead'
    BY <1>1, <1>2, <1>3 DEF RunIsSound, RunIsAhead
  <1>7. CutIsKnown' /\ PortsAgree' /\ EditsKept'
    BY <1>1, <1>2, <1>4 DEF InstallInv, CutIsKnown, PortsAgree, EditsKept
  <1>8. ActiveIsValid'
    BY <1>1, <1>3, <1>4 DEF InstallInv, InstallTypes, CutIsKnown, ActiveIsValid
  <1>9. ActiveIsOne'
    BY <1>1, <1>3 DEF ActiveIsOne
  <1> QED BY <1>5, <1>6, <1>7, <1>8, <1>9 DEF InstallInv

LEMMA InstallInterrupted ==
  ASSUME InstallInv, Installer!Interrupted
  PROVE  InstallInv'
  <1>1. /\ installing' = Installer!NoRun /\ UNCHANGED <<release, saved, current>>
        /\ since' = IF installing.at = "extract" THEN [since EXCEPT !.cut = since.cut \union {installing.version}] ELSE since
    BY DEF Installer!Interrupted, Installer!At
  <1>2. /\ since' \in [cut : SUBSET Versions, behind : BOOLEAN, edited : BOOLEAN]
        /\ since'.behind = since.behind /\ since'.edited = since.edited
        /\ since'.cut = IF installing.at = "extract" THEN since.cut \union {installing.version} ELSE since.cut
    <2>1. since \in [cut : SUBSET Versions, behind : BOOLEAN, edited : BOOLEAN]
          /\ (installing.at = "extract" => installing.version \in Versions)
      BY DEF InstallInv, InstallTypes, RunIsSound
    <2> QED BY <1>1, <2>1
  <1>3. RunIsSound' /\ RunIsAhead' /\ CutIsKnown' /\ ActiveIsValid'
    BY <1>1, <1>2, IdleRun DEF InstallInv, RunIsSound, RunIsAhead, CutIsKnown, ActiveIsValid
  <1>4. CASE UNCHANGED <<config, registry>>
    <2>1. InstallTypes'
      BY <1>1, <1>2, <1>4, IdleRun DEF InstallInv, InstallTypes
    <2>2. PortsAgree' /\ ActiveIsOne' /\ EditsKept'
      BY <1>1, <1>2, <1>4 DEF InstallInv, PortsAgree, ActiveIsOne, EditsKept
    <2> QED BY <1>3, <2>1, <2>2 DEF InstallInv
  <1>5. CASE registry = Installer!None /\ registry' = Installer!Torn /\ UNCHANGED config
    <2>1. InstallTypes'
      BY <1>1, <1>2, <1>5, IdleRun DEF InstallInv, InstallTypes
    <2>2. PortsAgree' /\ ActiveIsOne' /\ EditsKept'
      BY <1>1, <1>2, <1>5 DEF InstallInv, PortsAgree, ActiveIsOne, EditsKept, Installer!None
    <2> QED BY <1>3, <2>1, <2>2 DEF InstallInv
  <1>6. CASE /\ installing.at = "config" /\ UNCHANGED registry
             /\ config' = [config EXCEPT !.ports[Installer!ConfigFiles[installing.file]] = Installer!Torn]
    <2> DEFINE f == Installer!ConfigFiles[installing.file]
    <2>1. f \in Files
      BY DEF InstallInv, InstallTypes, Run, Files
    <2> HIDE DEF f
    <2>2. config \in [ports : [Files -> Ports \union {Installer!None, Installer!Torn}], release : Versions \union {Installer!None}]
      BY DEF InstallInv, InstallTypes
    <2>3. config' = [ports |-> [config.ports EXCEPT ![f] = Installer!Torn], release |-> config.release]
      BY <1>6, <2>2 DEF f
    <2>4. /\ config' \in [ports : [Files -> Ports \union {Installer!None, Installer!Torn}], release : Versions \union {Installer!None}]
          /\ \A g \in Files : config'.ports[g] \in {Installer!Torn, config.ports[g]}
      BY <2>1, <2>2, <2>3
    <2>5. InstallTypes'
      BY <1>1, <1>2, <2>4, IdleRun DEF InstallInv, InstallTypes
    <2>6. PortsAgree' /\ EditsKept'
      BY <1>1, <1>2, <1>6, <2>4 DEF InstallInv, PortsAgree, EditsKept
    <2>7. ActiveIsOne'
      BY <1>2, <1>6 DEF InstallInv, RunIsAhead, ActiveIsOne
    <2> QED BY <1>3, <2>5, <2>6, <2>7 DEF InstallInv
  <1> QED BY <1>4, <1>5, <1>6 DEF Installer!Interrupted, Installer!At

LEMMA InstallEdit ==
  ASSUME InstallInv, Installer!EditDevices
  PROVE  InstallInv'
  <1>1. /\ UNCHANGED <<release, saved, config, current, installing>> /\ registry' = "edited"
        /\ since' = [since EXCEPT !.edited = TRUE]
    BY DEF Installer!EditDevices
  <1>2. since' \in [cut : SUBSET Versions, behind : BOOLEAN, edited : BOOLEAN]
        /\ since'.cut = since.cut /\ since'.behind = since.behind
    BY <1>1 DEF InstallInv, InstallTypes
  <1>3. InstallTypes'
    BY <1>1, <1>2 DEF InstallInv, InstallTypes
  <1>4. RunIsSound' /\ RunIsAhead' /\ CutIsKnown' /\ ActiveIsValid'
    BY <1>1, <1>2 DEF InstallInv, RunIsSound, RunIsAhead, CutIsKnown, ActiveIsValid
  <1>5. PortsAgree' /\ ActiveIsOne' /\ EditsKept'
    BY <1>1, <1>2 DEF InstallInv, PortsAgree, ActiveIsOne, EditsKept
  <1> QED BY <1>3, <1>4, <1>5 DEF InstallInv

LEMMA InstallNext == ASSUME InstallInv, Installer!Next PROVE InstallInv'
  <1>1. CASE Installer!InstallServices
    <2>1. /\ installing.at = "services" /\ installing' = Installer!NoRun
          /\ UNCHANGED <<release, saved, config, current, registry, since>>
      BY <1>1 DEF Installer!InstallServices, Installer!At
    <2> QED BY <2>1, RunEnds
  <1> QED BY <1>1, InstallStart, InstallLayout, InstallState, InstallDownload, InstallExtract, InstallValidate,
             InstallSave, InstallWrite, InstallActivate, InstallInterrupted, InstallEdit
      DEF Installer!Next

LEMMA InstallGives == ASSUME InstallInv PROVE Installer!InstalledIsConsistent
  <1>1. DOMAIN config.ports = Files
    BY DEF InstallInv, InstallTypes
  <1> QED BY <1>1 DEF InstallInv, ActiveIsValid, PortsAgree, ActiveIsOne, EditsKept, Installer!InstalledIsConsistent

-----------------------------------------------------------------------------
LEMMA CatalogueUnchanged == ASSUME CatalogueInv, UNCHANGED catalogueVars PROVE CatalogueInv'
BY DEF catalogueVars, CatalogueInv, CatalogueTypes, DirectoriesWhole, OperationFits, ScriptsKept, OneVersion, Settled,
   SetAsideOf, Untouched, Catalogue!Version

LEMMA InstallUnchanged == ASSUME InstallInv, UNCHANGED installVars PROVE InstallInv'
BY DEF installVars, InstallInv, InstallTypes, RunIsSound, CutIsKnown, ActiveIsValid, PortsAgree, RunIsAhead, ActiveIsOne,
   EditsKept

(* A user script is the one last acknowledged, a task's index, result and  *)
(* record are of one outcome and retention keeps no more than it may, an   *)
(* installation is of one release: after every crash and every failed file *)
(* operation (FileScriptRepository, FileScriptResultStore,                 *)
(* FileScriptTaskStore, the installer), but where DiskIsConsistent says.   *)
THEOREM DiskStaysConsistent == BackendSpec => []DiskIsConsistent
<1>1. BackendInit => CatalogueInv /\ ResultsInv /\ InstallInv
  BY CatalogueInit, ResultsStart, InstallInit DEF BackendInit
<1>2. CatalogueInv /\ [BackendNext]_backendVars => CatalogueInv'
  <2>1. [BackendNext]_backendVars => Catalogue!Next \/ UNCHANGED catalogueVars
    BY DEF BackendNext, backendVars
  <2> QED
    BY <2>1, CatalogueNext, CatalogueUnchanged
<1>3. ResultsInv /\ [BackendNext]_backendVars => ResultsInv'
  <2>1. [BackendNext]_backendVars => Results!Next \/ UNCHANGED resultsVars
    BY DEF BackendNext, backendVars
  <2> QED
    BY <2>1, ResultsNext, ResultsUnchanged
<1>4. InstallInv /\ [BackendNext]_backendVars => InstallInv'
  <2>1. [BackendNext]_backendVars => Installer!Next \/ UNCHANGED installVars
    BY DEF BackendNext, backendVars
  <2> QED
    BY <2>1, InstallNext, InstallUnchanged
<1>5. CatalogueInv /\ ResultsInv /\ InstallInv => DiskIsConsistent
  BY CatalogueGives, ResultsGive, InstallGives DEF DiskIsConsistent
<1> QED
  BY <1>1, <1>2, <1>3, <1>4, <1>5, PTL DEF BackendSpec

LEMMA BenchNext == ScriptsInv /\ [BackendNext]_backendVars => ScriptsInv'
  <1>1. [BackendNext]_backendVars => [Next]_vars
    BY DEF BackendNext, backendVars
  <1> QED
    BY <1>1, ScriptsNext

(* What a supply holds as its calibration, and each point of a current-    *)
(* temperature curve, is of one run and of levels that were there while    *)
(* they were read (builtin-scripts), however the script is interleaved     *)
(* with what the firmware does, its faults, and the task's cancellation.   *)
THEOREM MeasurementsStayTrue == BackendSpec => []MeasurementsAreTrue
<1>1. BackendInit => ScriptsInv
  BY ScriptsInit DEF BackendInit
<1>2. ScriptsInv => MeasurementsAreTrue
  BY DEF ScriptsInv, MeasurementsAreTrue
<1> QED
  BY <1>1, <1>2, BenchNext, PTL DEF BackendSpec

(* However a builtin script ends, unless its task is cancelled, what its   *)
(* finally switches off is off, but for what failed to be.                 *)
THEOREM BenchEndsOff == BackendSpec => []OffWhenTouched
<1>1. BackendInit => ScriptsInv
  BY ScriptsInit DEF BackendInit
<1> QED
  BY <1>1, DoneIsOff, BenchNext, PTL DEF BackendSpec
=============================================================================
