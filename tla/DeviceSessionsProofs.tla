------------------------- MODULE DeviceSessionsProofs -------------------------
(***************************************************************************)
(* Theorems about DeviceSessions for every set of callers and managers and *)
(* every bound.  A closed session is silent however many managers there    *)
(* are.  That replies stay with their requests is proved for one manager:  *)
(* with two, the run sessions_overlap shows how it fails.                  *)
(***************************************************************************)
EXTENDS DeviceSessions, TLAPS

\* What every step definition is built from.
USE DEF vars, linkVars, sessionVars, requestVars

-----------------------------------------------------------------------------
(* The inductive invariant for any number of managers.                     *)

Recovering == {"reset", "reconnect", "invalidate", "remove"}
Exchanging == Recovering \cup {"send"}

\* A session is closed for requests before anything is queued to close it, and
\* a session that does not exist yet has nothing to do.
SessionInv(s) ==
  /\ worker[s].pc \in Exchanging => worker[s].request \in Requests
  /\ s > created => worker[s].pc = "idle" /\ fifo[s] = <<>>
  /\ worker[s].pc \in {"remove", "close"} => s \notin accepting
  /\ \A i \in DOMAIN fifo[s] : fifo[s][i].kind = "close" => s \notin accepting
  /\ s \in shut => worker[s].pc \in {"idle", "close"} /\ s \notin accepting

\* Calls in progress hold sessions that exist.
CallInv ==
  /\ \A c \in Callers : caller[c].pc \in {"check", "enqueue"} => caller[c].session \in 1..created
  /\ \A m \in Managers : manager[m].pc \in {"close", "await"} => manager[m].session \in 1..created

IInv == TypeOK /\ CallInv /\ \A s \in Sessions : SessionInv(s)

-----------------------------------------------------------------------------
(* Queues.                                                                 *)

\* The jobs left after the first is taken were queued before.
LEMMA TailElements ==
  ASSUME NEW S, NEW q \in Seq(S), q # <<>>
  PROVE  /\ Head(q) \in S /\ Head(q) = q[1] /\ 1 \in DOMAIN q
         /\ Tail(q) \in Seq(S)
         /\ \A i \in DOMAIN Tail(q) : i + 1 \in DOMAIN q /\ Tail(q)[i] = q[i + 1]
OBVIOUS

\* A queue that grew by one element holds that element and those before.
LEMMA AppendElements ==
  ASSUME NEW S, NEW q \in Seq(S), NEW e \in S
  PROVE  /\ Append(q, e) \in Seq(S)
         /\ Append(q, e) # <<>>
         /\ \A i \in DOMAIN Append(q, e) :
              \/ i \in DOMAIN q /\ Append(q, e)[i] = q[i]
              \/ Append(q, e)[i] = e
OBVIOUS

\* A link that was shut has nothing to read.
LEMMA EmptyPipe == <<>> \in Seq(Reply)
OBVIOUS

\* A job that is not a close job is a request.
LEMMA RequestJobs ==
  ASSUME NEW j \in Job, j.kind # "close"
  PROVE  j.request \in Requests
BY DEF Job

-----------------------------------------------------------------------------
(* Moving one thread of many.                                              *)

\* A caller that goes on keeps its session and its request.
LEMMA CallerMoves ==
  ASSUME caller \in [Callers -> CallerState], NEW c \in Callers, NEW from,
         NEW to \in {"idle", "check", "enqueue", "await"}, CallerGoes(c, from, to)
  PROVE  /\ caller' \in [Callers -> CallerState]
         /\ caller'[c].pc = to /\ caller'[c].session = caller[c].session
         /\ \A d \in Callers : d # c => caller'[d] = caller[d]
BY DEF CallerGoes, CallerState

\* A worker that goes on keeps its request.
LEMMA WorkerMoves ==
  ASSUME worker \in [Sessions -> WorkerState], NEW s \in Sessions, NEW from,
         NEW to \in {"idle", "send", "reset", "reconnect", "invalidate", "remove", "close"},
         WorkerGoes(s, from, to)
  PROVE  /\ worker' \in [Sessions -> WorkerState]
         /\ worker'[s].pc = to /\ worker'[s].request = worker[s].request
         /\ \A u \in Sessions : u # s => worker'[u] = worker[u]
BY DEF WorkerGoes, WorkerState

\* A worker that rests has no request.
LEMMA WorkerStops ==
  ASSUME worker \in [Sessions -> WorkerState], NEW s \in Sessions, WorkerRests(s),
         MaxRequests \in Nat
  PROVE  /\ worker' \in [Sessions -> WorkerState]
         /\ worker'[s].pc = "idle"
         /\ \A u \in Sessions : u # s => worker'[u] = worker[u]
BY DEF WorkerRests, WorkerState, Idle

\* A manager that goes on keeps its session and its last success.
LEMMA ManagerMoves ==
  ASSUME manager \in [Managers -> ManagerState], NEW m \in Managers, NEW from,
         NEW to \in {"idle", "create", "direct", "close", "await"}, ManagerGoes(m, from, to)
  PROVE  /\ manager' \in [Managers -> ManagerState]
         /\ manager[m].pc = from /\ manager'[m].pc = to
         /\ manager'[m].session = manager[m].session /\ manager'[m].last = manager[m].last
         /\ \A n \in Managers : n # m => manager'[n] = manager[n]
BY DEF ManagerGoes, ManagerState

-----------------------------------------------------------------------------
(* Steps of callers.                                                       *)

\* A step that touches neither queues, workers nor sessions.
LEMMA SessionInvKept ==
  ASSUME NEW u \in Sessions, SessionInv(u), fifo' = fifo, worker' = worker, created' = created,
         accepting' = accepting, shut' = shut
  PROVE  SessionInv(u)'
BY DEF SessionInv

LEMMA CallerInv ==
  ASSUME IInv, NEW c \in Callers, CallerStep(c)
  PROVE  IInv'
<1>1. TypeOK /\ CallInv /\ \A u \in Sessions : SessionInv(u)
  BY DEF IInv
<1>2. caller[c] \in CallerState /\ caller \in [Callers -> CallerState] /\ current \in 0..MaxSessions
  BY <1>1, BoundsAssumption DEF TypeOK
<1>3. CASE Find(c)
  <2>1. caller' \in [Callers -> CallerState]
    BY <1>2, <1>3 DEF Find, CallerState
  <2>2. CallInv'
    BY <1>1, <1>2, <1>3 DEF Find, CallInv, TypeOK, CallerState
  <2> QED BY <1>1, <1>3, <2>1, <2>2, SessionInvKept DEF Find, IInv, TypeOK
<1>4. CASE Check(c)
  <2>1. PICK to \in {"enqueue", "idle"} : CallerGoes(c, "check", to)
    BY <1>4 DEF Check
  <2>2. caller[c].pc = "check"
    BY <2>1 DEF CallerGoes
  <2>3. CallInv'
    BY <1>1, <1>2, <1>4, <2>1, <2>2, CallerMoves DEF Check, CallInv
  <2> QED BY <1>1, <1>2, <1>4, <2>1, <2>3, CallerMoves, SessionInvKept DEF Check, IInv, TypeOK
<1>5. CASE Return(c) \/ Interrupt(c)
  <2>1. CallerGoes(c, "await", "idle")
    BY <1>5 DEF Return, Interrupt
  <2>2. CallInv'
    BY <1>1, <1>2, <1>5, <2>1, CallerMoves DEF Return, Interrupt, CallInv
  <2> QED BY <1>1, <1>2, <1>5, <2>1, <2>2, CallerMoves, SessionInvKept DEF Return, Interrupt, IInv, TypeOK
<1>6. CASE Enqueue(c) /\ caller[c].session \in shut
  <2>1. CallerGoes(c, "enqueue", "idle")
    BY <1>6 DEF Enqueue
  <2>2. CallInv'
    BY <1>1, <1>2, <1>6, <2>1, CallerMoves DEF Enqueue, CallInv
  <2> QED BY <1>1, <1>2, <1>6, <2>1, <2>2, CallerMoves, SessionInvKept DEF Enqueue, IInv, TypeOK
<1>7. CASE Enqueue(c) /\ caller[c].session \notin shut
  <2> DEFINE s == caller[c].session
  <2>1. s \in 1..created /\ s \in Sessions
    BY <1>1, <1>7, BoundsAssumption DEF Enqueue, Sessions, CallInv, TypeOK
  <2>2. PICK kind \in {"query", "command"} :
           fifo' = [fifo EXCEPT ![s] = Append(@, [kind |-> kind, request |-> requests + 1])]
    BY <1>7 DEF Enqueue
  <2> DEFINE job == [kind |-> kind, request |-> requests + 1]
  <2>3. requests + 1 \in Requests /\ requests' = requests + 1 /\ requests' \in 0..MaxRequests
    BY <1>1, <1>7, BoundsAssumption DEF Enqueue, Requests, TypeOK
  <2>4. job \in Job /\ job.kind # "close"
    BY <2>3 DEF Job
  <2>5. fifo[s] \in Seq(Job) /\ fifo'[s] = Append(fifo[s], job)
    BY <1>1, <2>1, <2>2 DEF TypeOK
  <2>6. /\ fifo'[s] \in Seq(Job)
        /\ \A i \in DOMAIN fifo'[s] :
             \/ i \in DOMAIN fifo[s] /\ fifo'[s][i] = fifo[s][i]
             \/ fifo'[s][i] = job
    BY <2>4, <2>5, AppendElements
  <2>7. \A u \in Sessions : u # s => fifo'[u] = fifo[u]
    BY <1>1, <2>2 DEF TypeOK
  <2>8. caller' \in [Callers -> CallerState]
    <3>1. [caller[c] EXCEPT !.pc = "await", !.request = requests + 1] \in CallerState
      BY <1>2, <2>3 DEF CallerState
    <3>2. caller' = [caller EXCEPT ![c] = [@ EXCEPT !.pc = "await", !.request = requests + 1]]
      BY <1>2, <1>7 DEF Enqueue, CallerState
    <3> QED BY <1>2, <3>1, <3>2
  <2>9. fifo' \in [Sessions -> Seq(Job)]
    BY <1>1, <2>1, <2>2, <2>5, <2>6 DEF TypeOK
  <2>10. TypeOK'
    BY <1>1, <1>7, <2>3, <2>8, <2>9 DEF Enqueue, TypeOK
  <2>11. CallInv'
    <3>1. caller'[c].pc = "await" /\ \A d \in Callers : d # c => caller'[d] = caller[d]
      BY <1>2, <1>7 DEF Enqueue, CallerState
    <3> QED BY <1>1, <1>7, <3>1 DEF Enqueue, CallInv
  <2>12. ASSUME NEW u \in Sessions PROVE SessionInv(u)'
    <3>1. CASE u = s
      <4>1. SessionInv(s) /\ s <= created
        BY <1>1, <2>1 DEF TypeOK
      <4>2. \A i \in DOMAIN fifo'[s] : fifo'[s][i].kind = "close" => s \notin accepting'
        BY <1>7, <2>4, <2>6, <4>1 DEF Enqueue, SessionInv
      <4>3. ~(s > created)
        BY <1>1, <2>1 DEF TypeOK
      <4> HIDE DEF s
      <4> QED BY <1>7, <3>1, <4>1, <4>2, <4>3 DEF Enqueue, SessionInv
    <3>2. CASE u # s
      BY <1>1, <1>7, <2>7, <3>2 DEF Enqueue, SessionInv
    <3> QED BY <3>1, <3>2
  <2> QED BY <2>10, <2>11, <2>12 DEF IInv
<1> QED BY <1>3, <1>4, <1>5, <1>6, <1>7 DEF CallerStep
-----------------------------------------------------------------------------
(* Steps of workers.                                                       *)

\* A step of one worker leaves the other sessions as they are.
LEMMA OthersKept ==
  ASSUME IInv, NEW s \in Sessions, TypeOK', SessionInv(s)', UNCHANGED <<created, caller>>,
         \A m \in Managers : manager'[m].pc \in {"close", "await"} => manager'[m] = manager[m],
         accepting' \subseteq accepting, 
         \A u \in Sessions : u # s => /\ worker'[u] = worker[u] /\ fifo'[u] = fifo[u]
                                      /\ u \in shut' => u \in shut
  PROVE  IInv'
<1>1. CallInv'
  BY DEF IInv, CallInv
<1>2. ASSUME NEW u \in Sessions, u # s PROVE SessionInv(u)'
  BY <1>2 DEF IInv, SessionInv
<1> QED BY <1>1, <1>2 DEF IInv

\* The session a worker works for exists, and a request it works for is one.
LEMMA WorkerSession ==
  ASSUME IInv, NEW s \in Sessions, worker[s].pc # "idle"
  PROVE  s \in 1..created /\ (worker[s].pc \in Exchanging => worker[s].request \in Requests)
<1>1. SessionInv(s)
  BY DEF IInv
<1>2. created \in 0..MaxSessions /\ MaxSessions \in Nat
  BY BoundsAssumption DEF IInv, TypeOK
<1>3. s \in 1..MaxSessions
  BY DEF Sessions
<1>4. ~ (s > created)
  BY <1>1 DEF SessionInv
<1>5. s \in 1..created
  BY <1>2, <1>3, <1>4
<1> QED BY <1>1, <1>5 DEF SessionInv

\* What is decided about a response: the worker stays with its request or rests.
LEMMA Recovers ==
  ASSUME TypeOK, NEW s \in Sessions, worker[s].pc = "send", worker[s].request \in Requests,
         NEW code, Recover(s, code)
  PROVE  /\ worker' \in [Sessions -> WorkerState]
         /\ ended' \subseteq Requests
         /\ worker'[s].pc \in {"idle", "reset", "invalidate"}
         /\ worker'[s].pc # "idle" => worker'[s].request = worker[s].request
         /\ \A u \in Sessions : u # s => worker'[u] = worker[u]
<1> USE BoundsAssumption DEF TypeOK
<1>1. CASE WorkerGoes(s, "send", "reset") /\ UNCHANGED ended
  BY <1>1, WorkerMoves
<1>2. CASE WorkerGoes(s, "send", "invalidate") /\ UNCHANGED ended
  BY <1>2, WorkerMoves
<1>3. CASE WorkerRests(s) /\ ended' = ended \cup {worker[s].request}
  BY <1>3, WorkerStops
<1> QED BY <1>1, <1>2, <1>3 DEF Recover

\* The next job of a queue.
LEMMA TakeInv ==
  ASSUME IInv, NEW s \in Sessions, Take(s)
  PROVE  IInv'
<1> DEFINE job == Head(fifo[s])
<1>1. TypeOK /\ SessionInv(s)
  BY DEF IInv
<1>2. /\ fifo[s] \in Seq(Job) /\ fifo[s] # <<>> /\ worker[s].pc = "idle"
      /\ worker \in [Sessions -> WorkerState] /\ worker[s] \in WorkerState /\ fifo \in [Sessions -> Seq(Job)]
  BY <1>1 DEF Take, TypeOK
<1>3. fifo' = [fifo EXCEPT ![s] = Tail(fifo[s])]
  BY <1>2 DEF Take
<1>4. /\ job \in Job /\ job = fifo[s][1] /\ 1 \in DOMAIN fifo[s]
      /\ fifo'[s] \in Seq(Job)
      /\ \A i \in DOMAIN fifo'[s] : i + 1 \in DOMAIN fifo[s] /\ fifo'[s][i] = fifo[s][i + 1]
  BY <1>2, <1>3, TailElements
<1>5. fifo' \in [Sessions -> Seq(Job)] /\ \A u \in Sessions : u # s => fifo'[u] = fifo[u]
  BY <1>2, <1>3, <1>4
<1>6. UNCHANGED <<linkVars, sessionVars, caller, manager, requests, answer>>
  BY DEF Take
<1>7. ~(s > created)
  BY <1>1, <1>2 DEF SessionInv
<1>8. \A i \in DOMAIN fifo'[s] : fifo'[s][i].kind = "close" => s \notin accepting
  BY <1>1, <1>4 DEF SessionInv
<1>9. SUFFICES /\ worker' \in [Sessions -> WorkerState] /\ ended' \subseteq Requests
               /\ \A u \in Sessions : u # s => worker'[u] = worker[u]
               /\ worker'[s].pc \in Exchanging => worker'[s].request \in Requests
               /\ worker'[s].pc \in {"idle", "close"} \/ (worker'[s].pc = "send" /\ s \in accepting)
               /\ worker'[s].pc = "close" => s \notin accepting
  <2>1. TypeOK'
    BY <1>1, <1>5, <1>6, <1>9 DEF TypeOK
  <2>2. SessionInv(s)'
    BY <1>1, <1>6, <1>7, <1>8, <1>9 DEF SessionInv
  <2> QED BY <1>5, <1>6, <1>9, <2>1, <2>2, OthersKept
<1>10. CASE job.kind = "close"
  <2>1. WorkerGoes(s, "idle", "close") /\ UNCHANGED ended
    BY <1>10 DEF Take
  <2>2. s \notin accepting
    BY <1>1, <1>4, <1>10 DEF SessionInv
  <2> QED BY <1>1, <1>2, <2>1, <2>2, WorkerMoves DEF Exchanging, Recovering, TypeOK
<1>11. CASE job.kind # "close" /\ s \in accepting
  <2>1. worker' = [worker EXCEPT ![s] = [pc |-> "send", request |-> job.request, query |-> job.kind = "query"]]
        /\ UNCHANGED ended
    BY <1>11 DEF Take
  <2>2. job.request \in Requests
    BY <1>4, <1>11, RequestJobs
  <2>3. [pc |-> "send", request |-> job.request, query |-> job.kind = "query"] \in WorkerState
    BY <2>2, BoundsAssumption DEF WorkerState, Requests
  <2> QED BY <1>1, <1>2, <1>11, <2>1, <2>2, <2>3 DEF TypeOK
<1>12. CASE job.kind # "close" /\ s \notin accepting
  <2>1. ended' = ended \cup {job.request} /\ UNCHANGED worker
    BY <1>12 DEF Take
  <2>2. job.request \in Requests
    BY <1>4, <1>12, RequestJobs
  <2> QED BY <1>1, <1>2, <2>1, <2>2 DEF Exchanging, Recovering, TypeOK
<1> QED BY <1>10, <1>11, <1>12

\* The exchange with the device.
LEMMA ExchangeInv ==
  ASSUME IInv, NEW s \in Sessions, Query(s) \/ Command(s) \/ Unreachable(s)
  PROVE  IInv'
<1> DEFINE r == worker[s].request
<1>1. TypeOK /\ SessionInv(s)
  BY DEF IInv
<1>2. worker[s].pc = "send"
  BY DEF Query, Command, Unreachable
<1>3. r \in Requests /\ s \in 1..created
  BY <1>2, WorkerSession DEF Exchanging
<1>4. UNCHANGED <<sessionVars, fifo, caller, manager, requests>>
  BY DEF Query, Command, Unreachable
<1>5. \A e \in BOOLEAN : [of |-> r, error |-> e] \in Reply
  BY <1>3 DEF Reply
<1>6. pipe \in Seq(Reply) /\ Requests \subseteq 0..MaxRequests
  BY <1>1, BoundsAssumption DEF TypeOK, Requests
<1>7. connected' \in BOOLEAN /\ pipe' \in Seq(Reply) /\ answer' \in [Requests -> 0..MaxRequests]
  <2>1. CASE Query(s)
    <3>1. PICK refused \in BOOLEAN : 
            LET coming == Append(pipe, [of |-> r, error |-> refused]) IN
            /\ pipe' \in {coming, Tail(coming)}
            /\ answer' \in {answer, [answer EXCEPT ![r] = Head(coming).of]}
      BY <2>1 DEF Query
    <3> DEFINE coming == Append(pipe, [of |-> r, error |-> refused])
    <3>2. coming \in Seq(Reply) /\ coming # <<>>
      BY <1>5, <1>6, AppendElements
    <3>3. Tail(coming) \in Seq(Reply) /\ Head(coming) \in Reply
      BY <3>2, TailElements
    <3>4. Head(coming).of \in 0..MaxRequests
      BY <1>6, <3>3 DEF Reply
    <3> QED BY <1>1, <1>3, <2>1, <3>1, <3>2, <3>3, <3>4 DEF Query, TypeOK
  <2>2. CASE Command(s)
    <3>1. PICK coming \in {pipe, Append(pipe, [of |-> r, error |-> TRUE])} :
            pipe' = coming \/ (coming # <<>> /\ pipe' = Tail(coming))
      BY <2>2 DEF Command
    <3>2. Append(pipe, [of |-> r, error |-> TRUE]) \in Seq(Reply)
      BY <1>5, <1>6, AppendElements
    <3>3. coming \in Seq(Reply)
      BY <1>6, <3>1, <3>2
    <3>4. coming # <<>> => Tail(coming) \in Seq(Reply)
      BY <3>3, TailElements
    <3> QED BY <1>1, <2>2, <3>1, <3>3, <3>4 DEF Command, TypeOK
  <2>3. CASE Unreachable(s)
    BY EmptyPipe, <1>1, <2>3 DEF Unreachable, Shut, TypeOK
  <2> QED BY <2>1, <2>2, <2>3
<1>8. /\ worker' \in [Sessions -> WorkerState] /\ ended' \subseteq Requests
      /\ worker'[s].pc \in {"idle", "reset", "invalidate"}
      /\ worker'[s].pc # "idle" => worker'[s].request = r
      /\ \A u \in Sessions : u # s => worker'[u] = worker[u]
  <2>1. CASE \E code : Recover(s, code)
    BY <1>1, <1>2, <1>3, <2>1, Recovers
  <2>2. CASE WorkerRests(s) /\ ended' = ended \cup {r}
    BY <1>1, <1>3, <2>2, WorkerStops, BoundsAssumption DEF TypeOK
  <2> QED BY <2>1, <2>2 DEF Query, Command, Unreachable
<1>9. TypeOK'
  BY <1>1, <1>4, <1>7, <1>8 DEF TypeOK
<1>10. SessionInv(s)'
  BY <1>1, <1>2, <1>3, <1>4, <1>8 DEF SessionInv, Exchanging, Recovering
<1> QED BY <1>4, <1>8, <1>9, <1>10, OthersKept

\* Recovery and the close job.
LEMMA RecoveryInv ==
  ASSUME IInv, NEW s \in Sessions, Reset(s) \/ Reconnect(s) \/ Invalidate(s) \/ Remove(s) \/ CloseJob(s)
  PROVE  IInv'
<1>1. TypeOK /\ SessionInv(s)
  BY DEF IInv
<1>2. worker[s].pc \in Recovering \cup {"close"}
  BY DEF Reset, Reconnect, Invalidate, Remove, CloseJob, Recovering, WorkerGoes
<1>3. /\ s \in 1..created
      /\ worker[s].pc # "close" => worker[s].request \in Requests
      /\ worker \in [Sessions -> WorkerState]
  BY <1>1, <1>2, WorkerSession DEF Exchanging, TypeOK, Recovering
<1>4. UNCHANGED <<created, fifo, caller, requests, answer>>
  BY DEF Reset, Reconnect, Invalidate, Remove, CloseJob
<1>5. CASE Reset(s)
  <2>1. WorkerGoes(s, "reset", "reconnect") /\ connected' = FALSE /\ pipe' = <<>>
    BY <1>5 DEF Reset, Shut
  <2>2. TypeOK'
    BY EmptyPipe, <1>1, <1>3, <1>5, <2>1, WorkerMoves DEF Reset, TypeOK
  <2>3. SessionInv(s)'
    BY <1>1, <1>3, <1>5, <2>1, WorkerMoves DEF Reset, SessionInv, Exchanging, Recovering, WorkerGoes
  <2> QED BY <1>3, <1>5, <2>1, <2>2, <2>3, OthersKept, WorkerMoves DEF Reset
<1>6. CASE Reconnect(s)
  <2>1. /\ connected' \in BOOLEAN /\ pipe' \in Seq(Reply)
        /\ UNCHANGED <<sessionVars, caller, manager>> /\ worker[s].pc = "reconnect"
    BY EmptyPipe, <1>1, <1>6 DEF Reconnect, Open, Shut, TypeOK
  <2>2. /\ worker' \in [Sessions -> WorkerState] /\ ended' \subseteq Requests
        /\ \A u \in Sessions : u # s => worker'[u] = worker[u]
        /\ worker'[s].pc \in {"idle", "invalidate"}
        /\ worker'[s].pc = "invalidate" => worker'[s].request = worker[s].request
    <3>1. CASE Fail(s)
      BY <1>1, <1>3, <2>1, <3>1, WorkerStops, BoundsAssumption DEF Fail, TypeOK
    <3>2. CASE WorkerGoes(s, "reconnect", "invalidate") /\ UNCHANGED ended
      BY <1>1, <1>3, <3>2, WorkerMoves DEF TypeOK
    <3> QED BY <1>6, <3>1, <3>2 DEF Reconnect
  <2>3. TypeOK'
    BY <1>1, <1>4, <2>1, <2>2 DEF TypeOK
  <2>4. SessionInv(s)'
    BY <1>1, <1>3, <1>4, <2>1, <2>2 DEF SessionInv, Exchanging, Recovering
  <2> QED BY <1>4, <2>1, <2>2, <2>3, <2>4, OthersKept
<1>7. CASE Invalidate(s)
  <2>1. WorkerGoes(s, "invalidate", "remove") /\ accepting' = accepting \ {s}
    BY <1>7 DEF Invalidate
  <2>2. TypeOK'
    BY <1>1, <1>3, <1>7, <2>1, WorkerMoves DEF Invalidate, TypeOK
  <2>3. SessionInv(s)'
    BY <1>1, <1>3, <1>7, <2>1, WorkerMoves DEF Invalidate, SessionInv, Exchanging, Recovering, WorkerGoes
  <2> QED BY <1>3, <1>7, <2>1, <2>2, <2>3, OthersKept, WorkerMoves DEF Invalidate
<1>8. CASE Remove(s)
  <2>1. /\ worker[s].pc = "remove" /\ WorkerRests(s) /\ ended' = ended \cup {worker[s].request}
        /\ shut' = shut \cup {s} /\ current' \in {0, current} /\ accepting' = accepting
    BY <1>8 DEF Remove, Fail
  <2>2. TypeOK'
    BY EmptyPipe, <1>1, <1>3, <1>8, <2>1, WorkerStops, BoundsAssumption DEF Remove, TypeOK
  <2>3. SessionInv(s)'
    BY <1>1, <1>3, <1>4, <2>1, WorkerStops, BoundsAssumption DEF SessionInv, Exchanging, Recovering
  <2> QED BY <1>3, <1>4, <1>8, <2>1, <2>2, <2>3, OthersKept, WorkerStops, BoundsAssumption DEF Remove
<1>9. CASE CloseJob(s)
  <2>1. /\ worker[s].pc = "close" /\ WorkerRests(s) /\ shut' = shut \cup {s} /\ accepting' = accepting
        /\ connected' = FALSE /\ pipe' = <<>>
    BY <1>9 DEF CloseJob, Shut
  <2>2. /\ manager' \in [Managers -> ManagerState]
        /\ \A m \in Managers : manager'[m].pc \in {"close", "await"} => manager'[m] = manager[m]
    BY <1>1, <1>9 DEF CloseJob, TypeOK, ManagerState
  <2>3. TypeOK'
    BY EmptyPipe, <1>1, <1>3, <1>9, <2>1, <2>2, WorkerStops, BoundsAssumption DEF CloseJob, TypeOK
  <2>4. SessionInv(s)'
    BY <1>1, <1>3, <1>4, <2>1, WorkerStops, BoundsAssumption DEF SessionInv, Exchanging, Recovering
  <2> QED BY <1>3, <1>4, <1>9, <2>1, <2>2, <2>3, <2>4, OthersKept, WorkerStops, BoundsAssumption DEF CloseJob
<1> QED BY <1>5, <1>6, <1>7, <1>8, <1>9
-----------------------------------------------------------------------------
(* Steps of managers.                                                      *)

\* Closing a session stops it before the close job is queued.
LEMMA CloseSessionInv ==
  ASSUME IInv, NEW m \in Managers, CloseSession(m)
  PROVE  IInv'
<1> DEFINE s == manager[m].session
           job == [kind |-> "close"]
<1>1. TypeOK /\ CallInv /\ \A u \in Sessions : SessionInv(u)
  BY DEF IInv
<1>2. PICK to \in {"idle", "await"} : ManagerGoes(m, "close", to)
  BY DEF CloseSession
<1>3. /\ manager' \in [Managers -> ManagerState]
      /\ manager[m].pc = "close" /\ manager'[m].session = s
      /\ \A n \in Managers : n # m => manager'[n] = manager[n]
  BY <1>1, <1>2, ManagerMoves DEF TypeOK
<1>4. s \in 1..created /\ s \in Sessions /\ ~(s > created)
  BY <1>1, <1>3, BoundsAssumption DEF CallInv, TypeOK, Sessions
<1>5. /\ UNCHANGED <<linkVars, current, created, shut, worker, caller, requestVars>>
      /\ accepting' = accepting \ {s}
  BY DEF CloseSession
<1>6. fifo' = fifo \/ fifo' = [fifo EXCEPT ![s] = Append(@, job)]
  BY DEF CloseSession
<1>7. job \in Job /\ fifo[s] \in Seq(Job)
  BY <1>1, <1>4 DEF TypeOK, Job
<1>8. Append(fifo[s], job) \in Seq(Job)
  BY <1>7, AppendElements
<1>9. fifo' \in [Sessions -> Seq(Job)] /\ \A u \in Sessions : u # s => fifo'[u] = fifo[u]
  BY <1>1, <1>4, <1>6, <1>8 DEF TypeOK
<1>10. TypeOK'
  BY <1>1, <1>3, <1>5, <1>9 DEF TypeOK
<1>11. CallInv'
  BY <1>1, <1>3, <1>4, <1>5 DEF CallInv
<1>12. ASSUME NEW u \in Sessions PROVE SessionInv(u)'
  <2>1. CASE u = s
    <3> HIDE DEF s
    <3> QED BY <1>1, <1>4, <1>5, <2>1 DEF SessionInv
  <2>2. CASE u # s
    <3> HIDE DEF s
    <3> QED BY <1>1, <1>5, <1>9, <2>2 DEF SessionInv
  <2> QED BY <2>1, <2>2
<1> QED BY <1>10, <1>11, <1>12 DEF IInv

\* A new session has never been accepting, shut or at work before.
LEMMA CreateSessionInv ==
  ASSUME IInv, NEW m \in Managers, CreateSession(m)
  PROVE  IInv'
<1>1. TypeOK /\ CallInv /\ \A u \in Sessions : SessionInv(u)
  BY DEF IInv
<1>2. /\ manager' \in [Managers -> ManagerState] /\ manager'[m].pc = "idle"
      /\ \A n \in Managers : n # m => manager'[n] = manager[n]
  BY <1>1, ManagerMoves DEF CreateSession, TypeOK
<1>3. UNCHANGED <<linkVars, shut, fifo, worker, caller, requestVars>>
  BY DEF CreateSession
<1>4. CASE UNCHANGED <<current, created, accepting>>
  <2>1. TypeOK'
    BY <1>1, <1>2, <1>3, <1>4 DEF TypeOK
  <2>2. CallInv'
    BY <1>1, <1>2, <1>3, <1>4 DEF CallInv
  <2> QED BY <1>1, <1>3, <1>4, <2>1, <2>2, SessionInvKept DEF IInv
<1>5. CASE created < MaxSessions /\ created' = created + 1 /\ current' = created + 1
           /\ accepting' = accepting \cup {created + 1}
  <2>1. TypeOK'
    BY <1>1, <1>2, <1>3, <1>5, BoundsAssumption DEF TypeOK
  <2>2. CallInv'
    BY <1>1, <1>2, <1>3, <1>5, BoundsAssumption DEF CallInv, TypeOK
  <2>3. ASSUME NEW u \in Sessions PROVE SessionInv(u)'
    <3>1. u \in Nat /\ created \in Nat /\ created + 1 \notin shut
      BY <1>1, BoundsAssumption DEF Sessions, TypeOK
    <3>2. CASE u = created + 1
      <4>1. worker[u].pc = "idle" /\ fifo[u] = <<>> /\ u \notin shut /\ DOMAIN fifo[u] = {}
        BY <1>1, <3>1, <3>2 DEF SessionInv
      <4> QED BY <1>1, <1>3, <1>5, <3>1, <3>2, <4>1 DEF SessionInv, Exchanging, Recovering
    <3>3. CASE u # created + 1
      BY <1>1, <1>3, <1>5, <3>1, <3>3 DEF SessionInv
    <3> QED BY <3>2, <3>3
  <2> QED BY <2>1, <2>2, <2>3 DEF IInv
<1> QED BY <1>4, <1>5 DEF CreateSession

LEMMA ManagerInv ==
  ASSUME IInv, NEW m \in Managers, ManagerStep(m)
  PROVE  IInv'
<1>1. TypeOK /\ CallInv /\ \A u \in Sessions : SessionInv(u)
  BY DEF IInv
<1>2. manager \in [Managers -> ManagerState] /\ manager[m] \in ManagerState /\ current \in 0..MaxSessions
      /\ current \in 0..created
  BY <1>1, BoundsAssumption DEF TypeOK
<1>3. CASE Connect(m)
  <2>1. connected' \in BOOLEAN /\ pipe' \in Seq(Reply)
    BY <1>1, <1>3, EmptyPipe DEF Connect, Open, Shut, TypeOK
  <2>2. /\ manager' \in [Managers -> ManagerState]
        /\ \A n \in Managers : manager'[n].pc \in {"close", "await"} => manager'[n] = manager[n]
    BY <1>2, <1>3 DEF Connect, ManagerState
  <2>3. TypeOK'
    BY <1>1, <1>3, <2>1, <2>2 DEF Connect, TypeOK
  <2>4. CallInv'
    BY <1>1, <1>3, <2>2 DEF Connect, CallInv
  <2> QED BY <1>1, <1>3, <2>3, <2>4, SessionInvKept DEF Connect, IInv
<1>4. CASE Disconnect(m)
  <2>1. PICK to \in {"direct", "close"} :
          /\ manager' = [manager EXCEPT ![m] = [@ EXCEPT !.pc = to, !.session = current]]
          /\ to = "close" => current # 0
    BY <1>2, <1>4 DEF Disconnect, ManagerState
  <2>2. [manager[m] EXCEPT !.pc = to, !.session = current] \in ManagerState
    BY <1>2 DEF ManagerState
  <2>3. /\ manager' \in [Managers -> ManagerState] /\ manager'[m].pc = to /\ manager'[m].session = current
        /\ \A n \in Managers : n # m => manager'[n] = manager[n]
    BY <1>2, <2>1, <2>2 DEF ManagerState
  <2>4. TypeOK'
    BY <1>1, <1>4, <2>3 DEF Disconnect, TypeOK
  <2>5. CallInv'
    BY <1>1, <1>2, <1>4, <2>1, <2>3 DEF Disconnect, CallInv, TypeOK
  <2> QED BY <1>1, <1>4, <2>4, <2>5, SessionInvKept DEF Disconnect, IInv
<1>5. CASE DisconnectDirectly(m)
  <2>1. [manager[m] EXCEPT !.pc = "idle", !.last = "disconnect"] \in ManagerState
    BY <1>2 DEF ManagerState
  <2>2. manager' = [manager EXCEPT ![m] = [@ EXCEPT !.pc = "idle", !.last = "disconnect"]]
    BY <1>2, <1>5 DEF DisconnectDirectly, ManagerState
  <2>3. /\ manager' \in [Managers -> ManagerState] /\ manager'[m].pc = "idle"
        /\ \A n \in Managers : n # m => manager'[n] = manager[n]
    BY <1>2, <2>1, <2>2 DEF ManagerState
  <2>4. TypeOK'
    BY <1>1, <1>5, <2>3, EmptyPipe DEF DisconnectDirectly, Shut, TypeOK
  <2>5. CallInv'
    BY <1>1, <1>5, <2>3 DEF DisconnectDirectly, CallInv
  <2> QED BY <1>1, <1>5, <2>4, <2>5, SessionInvKept DEF DisconnectDirectly, IInv
<1> QED BY <1>3, <1>4, <1>5, CloseSessionInv, CreateSessionInv DEF ManagerStep

-----------------------------------------------------------------------------
(* Theorems for any number of managers.                                    *)

LEMMA InvStart == Init => IInv
<1> SUFFICES ASSUME Init PROVE IInv
  OBVIOUS
<1> USE BoundsAssumption DEF Init
<1>1. /\ Idle \in WorkerState
      /\ [pc |-> "idle", session |-> 0, request |-> 0] \in CallerState
      /\ [pc |-> "idle", session |-> 0, last |-> "disconnect"] \in ManagerState
  BY DEF WorkerState, CallerState, ManagerState, Idle
<1>2. <<>> \in Seq(Reply) /\ <<>> \in Seq(Job)
  OBVIOUS
<1>3. TypeOK
  <2>1. fifo \in [Sessions -> Seq(Job)] /\ pipe \in Seq(Reply)
    BY <1>2
  <2>2. worker \in [Sessions -> WorkerState] /\ caller \in [Callers -> CallerState]
        /\ manager \in [Managers -> ManagerState]
    BY <1>1
  <2>3. requests \in 0..MaxRequests /\ answer \in [Requests -> 0..MaxRequests] /\ ended \subseteq Requests
    OBVIOUS
  <2>4. created \in 0..MaxSessions /\ current \in 0..created /\ accepting \subseteq 1..created
        /\ shut \subseteq 1..created
    OBVIOUS
  <2>5. connected \in BOOLEAN
    OBVIOUS
  <2> QED BY <2>1, <2>2, <2>3, <2>4, <2>5 DEF TypeOK
<1>4. CallInv
  BY DEF CallInv
<1>5. ASSUME NEW s \in Sessions PROVE SessionInv(s)
  BY DEF SessionInv, Idle, Exchanging, Recovering
<1> QED BY <1>3, <1>4, <1>5 DEF IInv

LEMMA InvStep == IInv /\ [Next]_vars => IInv'
<1> SUFFICES ASSUME IInv, [Next]_vars PROVE IInv'
  OBVIOUS
<1>1. CASE UNCHANGED vars
  BY <1>1 DEF IInv, TypeOK, CallInv, SessionInv
<1>2. ASSUME NEW s \in Sessions, WorkerStep(s) PROVE IInv'
  BY <1>2, TakeInv, ExchangeInv, RecoveryInv DEF WorkerStep
<1> QED BY <1>1, <1>2, CallerInv, ManagerInv DEF Next

LEMMA Invariance == SafetySpec => []IInv
BY InvStart, InvStep, PTL DEF SafetySpec

\* The coordinator's and the sessions' state keeps its types for every number
\* of scripts, HTTP threads, requests and sessions.
THEOREM TypeCorrect == SafetySpec => []TypeOK
<1>1. IInv => TypeOK
  BY DEF IInv
<1> QED BY <1>1, Invariance, PTL

\* closeAndDisconnect and invalidate: whatever a closed session still has in
\* its queue, nothing is sent and nothing is recovered for it.
THEOREM ShutSessionsAreSilent == SafetySpec => []ShutSessionIsSilent
<1>1. ASSUME IInv PROVE ShutSessionIsSilent
  <2>1. shut \subseteq Sessions
    BY <1>1, BoundsAssumption DEF IInv, TypeOK, Sessions
  <2> QED BY <1>1, <2>1 DEF IInv, SessionInv, ShutSessionIsSilent
<1> QED BY <1>1, Invariance, PTL
-----------------------------------------------------------------------------
(* One manager: the calls of connect() and disconnect() do not overlap.    *)

\* Every session but the newest is shut, the map holds the newest or none, and
\* what was disconnected stays so.
SerialInv(m) ==
  /\ current \in {0, created}
  /\ \A s \in Sessions : s < created => s \in shut
  /\ manager[m].pc \in {"close", "await"} => current = 0 /\ manager[m].session = created
  /\ current = 0 /\ created # 0 => created \in shut \/ manager[m].pc \in {"close", "await"}
  /\ manager[m].pc = "direct" => current = 0
  /\ manager[m].pc = "create" => manager[m].last = "connect"
  /\ manager[m].last = "disconnect" => ~connected /\ (created # 0 => created \in shut) /\ current = 0

\* Only a worker that is about to reset the link leaves replies of queries in it.
CleanPipe ==
  (\A s \in Sessions : worker[s].pc # "reset") => \A i \in DOMAIN pipe : pipe[i].error

\* With one manager only the newest session has a worker that talks to the device.
LEMMA OneTalks ==
  ASSUME IInv, NEW m \in Managers, SerialInv(m), NEW s \in Sessions, worker[s].pc \in Exchanging
  PROVE  s = created /\ s \notin shut /\ manager[m].last = "connect"
<1>1. s \in 1..created
  BY WorkerSession DEF Exchanging, Recovering
<1>2. s \notin shut
  BY DEF IInv, SessionInv, Exchanging, Recovering
<1>3. s = created
  BY <1>1, <1>2, BoundsAssumption DEF SerialInv, IInv, TypeOK, Sessions
<1>4. manager[m].last \in {"connect", "disconnect"}
  BY DEF IInv, TypeOK, ManagerState
<1> QED BY <1>1, <1>2, <1>3, <1>4 DEF SerialInv

LEMMA SerialStep ==
  ASSUME NEW m, Managers = {m}, IInv, SerialInv(m), [Next]_vars
  PROVE  SerialInv(m)'
<1>1. TypeOK /\ m \in Managers /\ manager[m] \in ManagerState /\ manager \in [Managers -> ManagerState]
  BY DEF IInv, TypeOK
<1>2. created \in Nat /\ shut \subseteq 1..created
  BY <1>1, BoundsAssumption DEF TypeOK
<1>3. CASE UNCHANGED <<connected, current, created, shut, manager>>
  BY <1>3 DEF SerialInv
<1>4. CASE UNCHANGED vars
  BY <1>3, <1>4
<1>5. ASSUME NEW c \in Callers, CallerStep(c) PROVE SerialInv(m)'
  BY <1>3, <1>5 DEF CallerStep, Find, Check, Enqueue, Return, Interrupt
<1>6. ASSUME NEW s \in Sessions, WorkerStep(s) PROVE SerialInv(m)'
  <2>1. CASE Take(s) \/ Query(s) \/ Command(s) \/ Invalidate(s)
    BY <1>3, <2>1 DEF Take, Query, Command, Invalidate
  <2>2. CASE Unreachable(s) \/ Reset(s)
    BY <2>2 DEF Unreachable, Reset, Shut, SerialInv
  <2>3. CASE Reconnect(s)
    <3>1. manager[m].last = "connect"
      BY <1>1, <2>3, OneTalks DEF Reconnect, Exchanging, Recovering
    <3> QED BY <2>3, <3>1 DEF Reconnect, SerialInv
  <2>4. CASE Remove(s)
    <3>1. s = created
      BY <1>1, <2>4, OneTalks DEF Remove, Exchanging, Recovering
    <3> QED BY <2>4, <3>1 DEF Remove, SerialInv
  <2>5. CASE CloseJob(s)
    <3>1. /\ connected' = FALSE /\ UNCHANGED <<current, created>> /\ shut' = shut \cup {s}
          /\ \/ manager'[m] = manager[m]
             \/ /\ manager[m].pc = "await" /\ manager[m].session = s
                /\ manager'[m] = [manager[m] EXCEPT !.pc = "idle", !.last = "disconnect"]
      BY <1>1, <2>5 DEF CloseJob, Shut
    <3>2. CASE manager'[m] = manager[m]
      BY <3>1, <3>2 DEF SerialInv
    <3>3. CASE manager[m].pc = "await" /\ manager[m].session = s
               /\ manager'[m] = [manager[m] EXCEPT !.pc = "idle", !.last = "disconnect"]
      <4>1. manager'[m].pc = "idle" /\ manager'[m].last = "disconnect" /\ s = created /\ current = 0
        BY <1>1, <3>3 DEF ManagerState, SerialInv
      <4> QED BY <3>1, <4>1 DEF SerialInv
    <3> QED BY <3>1, <3>2, <3>3
  <2> QED BY <1>6, <2>1, <2>2, <2>3, <2>4, <2>5 DEF WorkerStep
<1>7. ASSUME ManagerStep(m) PROVE SerialInv(m)'
  <2>1. CASE Connect(m)
    <3>1. UNCHANGED <<current, created, shut>>
      BY <2>1 DEF Connect
    <3>2. CASE manager' = [manager EXCEPT ![m].pc = "create", ![m].last = "connect"] /\ manager[m].pc = "idle"
      <4>1. manager'[m].pc = "create" /\ manager'[m].last = "connect"
        BY <1>1, <3>2 DEF ManagerState
      <4> QED BY <3>1, <3>2, <4>1 DEF SerialInv
    <3>3. CASE UNCHANGED manager /\ connected' = FALSE
      BY <3>1, <3>3 DEF SerialInv
    <3> QED BY <2>1, <3>2, <3>3 DEF Connect, Shut
  <2>2. CASE CreateSession(m)
    <3>1. /\ manager[m].pc = "create" /\ manager'[m].pc = "idle" /\ manager'[m].last = manager[m].last
      BY <1>1, <2>2, ManagerMoves DEF CreateSession
    <3>2. manager[m].last = "connect"
      BY <3>1 DEF SerialInv
    <3>3. CASE UNCHANGED <<current, created>> /\ current # 0
      BY <2>2, <3>1, <3>2, <3>3 DEF CreateSession, SerialInv
    <3>4. CASE current = 0 /\ created' = created + 1 /\ current' = created + 1
      <4>1. shut' = shut /\ (created # 0 => created \in shut)
        BY <2>2, <3>1, <3>4 DEF CreateSession, SerialInv
      <4>2. ASSUME NEW s \in Sessions, s < created' PROVE s \in shut'
        BY <1>2, <3>4, <4>1, <4>2, BoundsAssumption DEF SerialInv, Sessions
      <4> QED BY <1>2, <3>1, <3>2, <3>4, <4>2 DEF SerialInv
    <3> QED BY <2>2, <3>3, <3>4 DEF CreateSession
  <2>3. CASE Disconnect(m)
    <3>1. /\ UNCHANGED <<connected, created, shut>> /\ current' = 0 /\ manager[m].pc = "idle"
          /\ manager'[m].pc = IF current = 0 THEN "direct" ELSE "close"
          /\ manager'[m].session = current /\ manager'[m].last = manager[m].last
      BY <1>1, <2>3 DEF Disconnect, ManagerState
    <3> QED BY <3>1 DEF SerialInv
  <2>4. CASE DisconnectDirectly(m)
    <3>1. /\ UNCHANGED <<current, created, shut>> /\ connected' = FALSE /\ manager[m].pc = "direct"
          /\ manager'[m].pc = "idle" /\ manager'[m].last = "disconnect"
      BY <1>1, <2>4 DEF DisconnectDirectly, Shut, ManagerState
    <3> QED BY <3>1 DEF SerialInv
  <2>5. CASE CloseSession(m)
    <3>1. PICK to \in {"idle", "await"} :
            ManagerGoes(m, "close", to) /\ (to = "idle" => manager[m].session \in shut)
      BY <2>5 DEF CloseSession
    <3>2. /\ manager[m].pc = "close" /\ manager'[m].pc = to
          /\ manager'[m].session = manager[m].session /\ manager'[m].last = manager[m].last
      BY <1>1, <3>1, ManagerMoves
    <3> QED BY <2>5, <3>1, <3>2 DEF CloseSession, SerialInv
  <2> QED BY <1>7, <2>1, <2>2, <2>3, <2>4, <2>5 DEF ManagerStep
<1> QED BY <1>4, <1>5, <1>6, <1>7 DEF Next

\* A pipe of error lines stays one when error lines are added or the oldest is read.
LEMMA ErrorLines ==
  ASSUME NEW p \in Seq(Reply), NEW e \in Reply, \A i \in DOMAIN p : p[i].error
  PROVE  /\ p # <<>> => Head(Append(p, e)).error
         /\ p = <<>> => Head(Append(p, e)) = e /\ Tail(Append(p, e)) = <<>>
         /\ e.error => \A i \in DOMAIN Append(p, e) : Append(p, e)[i].error
         /\ p # <<>> => Tail(p) \in Seq(Reply) /\ \A i \in DOMAIN Tail(p) : Tail(p)[i].error
<1>1. p # <<>> => Head(Append(p, e)) = p[1] /\ 1 \in DOMAIN p
  OBVIOUS
<1>2. p = <<>> => Head(Append(p, e)) = e /\ Tail(Append(p, e)) = <<>>
  OBVIOUS
<1>3. e.error => \A i \in DOMAIN Append(p, e) : Append(p, e)[i].error
  BY AppendElements
<1>4. p # <<>> => Tail(p) \in Seq(Reply) /\ \A i \in DOMAIN Tail(p) : Tail(p)[i].error
  BY TailElements
<1> QED BY <1>1, <1>2, <1>3, <1>4

\* An exchange of the only talking worker gets its own reply or leads to a reset.
LEMMA ExchangeIsClean ==
  ASSUME NEW m \in Managers, IInv, SerialInv(m), CleanPipe, OwnReply,
         NEW s \in Sessions, Query(s) \/ Command(s)
  PROVE  CleanPipe' /\ OwnReply'
<1> DEFINE r == worker[s].request
<1>1. TypeOK /\ pipe \in Seq(Reply) /\ worker \in [Sessions -> WorkerState]
  BY DEF IInv, TypeOK
<1>2. worker[s].pc = "send"
  BY DEF Query, Command
<1>3. r \in Requests
  BY <1>2, WorkerSession DEF Exchanging
<1>4. \A u \in Sessions : worker[u].pc # "reset"
  <2>1. ASSUME NEW u \in Sessions, worker[u].pc = "reset" PROVE FALSE
    <3>1. u = s
      BY <1>2, <2>1, OneTalks DEF Exchanging, Recovering
    <3> QED BY <1>2, <2>1, <3>1
  <2> QED BY <2>1
<1>5. \A i \in DOMAIN pipe : pipe[i].error
  BY <1>4 DEF CleanPipe
<1>6. \A e \in BOOLEAN : [of |-> r, error |-> e] \in Reply
  BY <1>3 DEF Reply
<1>7. WorkerGoes(s, "send", "reset") => CleanPipe'
  BY <1>1, WorkerMoves DEF CleanPipe
<1>8. CASE Query(s)
  <2>1. PICK refused \in BOOLEAN :
          LET coming == Append(pipe, [of |-> r, error |-> refused]) IN
          \/ /\ pipe' = Tail(coming)
             /\ IF Head(coming).error
                THEN Recover(s, "SCPI_ERROR") /\ UNCHANGED answer
                ELSE /\ answer' = [answer EXCEPT ![r] = Head(coming).of]
                     /\ ended' = ended \cup {r}
                     /\ WorkerRests(s)
          \/ pipe' = coming /\ Recover(s, "TIMEOUT") /\ UNCHANGED answer
    BY <1>8 DEF Query
  <2> DEFINE e == [of |-> r, error |-> refused]
             coming == Append(pipe, e)
  <2>2. e \in Reply /\ e.of = r
    BY <1>6
  <2>3. CASE Recover(s, "SCPI_ERROR") \/ Recover(s, "TIMEOUT")
    <3>1. WorkerGoes(s, "send", "reset")
      BY <1>8, <2>3 DEF Recover, Query
    <3>2. UNCHANGED answer
      BY <1>1, <2>1, <3>1, WorkerMoves, WorkerStops, BoundsAssumption
    <3> QED BY <1>7, <3>1, <3>2 DEF OwnReply
  <2>4. CASE ~Head(coming).error /\ pipe' = Tail(coming)
             /\ answer' = [answer EXCEPT ![r] = Head(coming).of] /\ WorkerRests(s)
    <3>1. pipe = <<>> /\ Head(coming) = e /\ pipe' = <<>>
      BY <1>1, <1>5, <2>2, <2>4, ErrorLines
    <3>2. CleanPipe'
      BY <3>1 DEF CleanPipe
    <3>3. OwnReply'
      BY <1>1, <1>3, <2>2, <2>4, <3>1 DEF OwnReply, TypeOK
    <3> QED BY <3>2, <3>3
  <2> QED BY <2>1, <2>3, <2>4
<1>9. CASE Command(s)
  <2> DEFINE e == [of |-> r, error |-> TRUE]
  <2>1. PICK coming \in {pipe, Append(pipe, e)} :
          \/ pipe' = coming
          \/ coming # <<>> /\ pipe' = Tail(coming)
    BY <1>9 DEF Command
  <2>2. e \in Reply /\ e.error
    BY <1>6
  <2>3. coming \in Seq(Reply) /\ \A i \in DOMAIN coming : coming[i].error
    <3>1. CASE coming = pipe
      BY <1>1, <1>5, <3>1
    <3>2. CASE coming = Append(pipe, e)
      BY <1>1, <1>5, <2>2, <3>2, ErrorLines, AppendElements
    <3> QED BY <2>1, <3>1, <3>2
  <2>4. \A i \in DOMAIN pipe' : pipe'[i].error
    BY <2>1, <2>2, <2>3, ErrorLines
  <2> QED BY <1>9, <2>4 DEF Command, CleanPipe, OwnReply
<1> QED BY <1>8, <1>9

LEMMA CleanStep ==
  ASSUME NEW m, Managers = {m}, IInv, SerialInv(m), CleanPipe, OwnReply, [Next]_vars
  PROVE  CleanPipe' /\ OwnReply'
<1>1. worker \in [Sessions -> WorkerState] /\ m \in Managers
  BY DEF IInv, TypeOK
<1>2. CASE UNCHANGED <<pipe, worker, answer>>
  BY <1>2 DEF CleanPipe, OwnReply
<1>3. CASE pipe' = <<>> /\ UNCHANGED answer
  BY <1>3 DEF CleanPipe, OwnReply
<1>4. CASE UNCHANGED vars
  BY <1>2, <1>4
<1>5. ASSUME NEW c \in Callers, CallerStep(c) PROVE CleanPipe' /\ OwnReply'
  BY <1>2, <1>5 DEF CallerStep, Find, Check, Enqueue, Return, Interrupt
<1>6. ASSUME NEW n \in Managers, ManagerStep(n) PROVE CleanPipe' /\ OwnReply'
  BY <1>2, <1>3, <1>6
     DEF ManagerStep, Connect, CreateSession, Disconnect, DisconnectDirectly, CloseSession, Open, Shut
<1>7. ASSUME NEW s \in Sessions, WorkerStep(s) PROVE CleanPipe' /\ OwnReply'
  <2>1. CASE Query(s) \/ Command(s)
    BY <1>1, <2>1, ExchangeIsClean
  <2>2. CASE Unreachable(s) \/ Reset(s) \/ CloseJob(s)
    BY <1>3, <2>2 DEF Unreachable, Reset, CloseJob, Shut
  <2>3. CASE Take(s) \/ Reconnect(s) \/ Invalidate(s) \/ Remove(s)
    <3>1. pipe' \in {pipe, <<>>} /\ UNCHANGED answer
      BY <2>3 DEF Take, Reconnect, Invalidate, Remove, Open, Shut
    <3>2. worker[s].pc # "reset" /\ \A u \in Sessions : u # s => worker'[u] = worker[u]
      BY <1>1, <2>3 DEF Take, Reconnect, Invalidate, Remove, WorkerGoes, WorkerRests, Fail
    <3> QED BY <3>1, <3>2 DEF CleanPipe, OwnReply
  <2> QED BY <1>7, <2>1, <2>2, <2>3 DEF WorkerStep
<1> QED BY <1>4, <1>5, <1>6, <1>7 DEF Next

LEMMA SerialStart ==
  ASSUME NEW m, Managers = {m}, Init
  PROVE  SerialInv(m) /\ CleanPipe /\ OwnReply
BY BoundsAssumption DEF Init, SerialInv, CleanPipe, OwnReply, Requests, Sessions

\* DeviceSession: "a response cannot be consumed by a different script request".
\* A reply that came too late is never taken for the answer to another request,
\* as long as connect() and disconnect() of the device do not overlap.
THEOREM RepliesAreOwn ==
  ASSUME NEW CONSTANT m, Managers = {m}
  PROVE  SafetySpec => []OwnReply
<1>1. Init => SerialInv(m) /\ CleanPipe /\ OwnReply
  BY SerialStart
<1>2. IInv /\ SerialInv(m) /\ CleanPipe /\ OwnReply /\ [Next]_vars => (SerialInv(m) /\ CleanPipe /\ OwnReply)'
  BY SerialStep, CleanStep
<1> QED BY <1>1, <1>2, Invariance, PTL DEF SafetySpec

\* Recovery is over before the next request starts: only late ERR lines of
\* commands may be unread while every worker is idle.
THEOREM StreamIsCleanBetweenRequests ==
  ASSUME NEW CONSTANT m, Managers = {m}
  PROVE  SafetySpec => []SessionsAreSound
<1>1. Init => SerialInv(m) /\ CleanPipe /\ OwnReply
  BY SerialStart
<1>2. IInv /\ SerialInv(m) /\ CleanPipe /\ OwnReply /\ [Next]_vars => (SerialInv(m) /\ CleanPipe /\ OwnReply)'
  BY SerialStep, CleanStep
<1>3. IInv /\ CleanPipe => SessionsAreSound
  BY DEF IInv, CleanPipe, SessionsAreSound, CleanBetweenRequests
<1> QED BY <1>1, <1>2, <1>3, Invariance, PTL DEF SafetySpec

\* A recovering worker never connects a device that a manager has disconnected.
THEOREM DisconnectionLasts ==
  ASSUME NEW CONSTANT m, Managers = {m}
  PROVE  SafetySpec => []StaysDisconnected
<1>1. Init => SerialInv(m)
  BY SerialStart
<1>2. IInv /\ SerialInv(m) /\ [Next]_vars => SerialInv(m)'
  BY SerialStep
<1>3. IInv /\ SerialInv(m) => StaysDisconnected
  BY DEF IInv, TypeOK, ManagerState, SerialInv, StaysDisconnected
<1> QED BY <1>1, <1>2, <1>3, Invariance, PTL DEF SafetySpec
=============================================================================
