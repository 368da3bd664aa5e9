---------------------------- MODULE DeviceSessions ----------------------------
(***************************************************************************)
(* Scripts talking to one SCPI device: ScriptDeviceSessionCoordinator, its *)
(* DeviceSession FIFO workers, and the USB transport below them.           *)
(*                                                                         *)
(* Replies carry no request number, so a reply that arrives after its      *)
(* request timed out is read by whoever reads next.  Each session has one  *)
(* worker that runs a whole exchange, including the recovery from a        *)
(* failure, before the next.  Callers are script threads inside send(),    *)
(* managers are HTTP threads inside connect() or disconnect() of           *)
(* DeviceManagerController.                                                *)
(*                                                                         *)
(* DeviceConnectionManager is synchronized: one of its calls is one step.  *)
(* A request is a number; what is sent and answered is left out.           *)
(***************************************************************************)
EXTENDS Naturals, Sequences

CONSTANTS
  Callers, Managers,
  MaxRequests,   \* bound: requests of all callers
  MaxSessions    \* bound: DeviceSession objects

ASSUME BoundsAssumption == {MaxRequests, MaxSessions} \subseteq Nat \ {0}

Requests == 1..MaxRequests
Sessions == 1..MaxSessions

VARIABLES
  connected,  \* the transport in the connection manager is CONNECTED
  pipe,       \* replies the device has sent or will send, unread
  current,    \* the session in the coordinator's map, 0 for none
  created,    \* sessions made so far
  accepting,  \* sessions whose accepting flag is set
  shut,       \* sessions whose executor is shut down
  fifo,       \* per session: the executor's queue
  worker,     \* per session: what its thread is doing
  caller,     \* per caller: where send() is
  manager,    \* per manager: where it is, and what it last did with success
  requests,   \* requests submitted so far
  answer,     \* per request: the request whose reply it got, 0 for none
  ended       \* requests whose future is completed

linkVars == <<connected, pipe>>
sessionVars == <<current, created, accepting, shut>>
requestVars == <<requests, answer, ended>>
vars == <<linkVars, sessionVars, fifo, worker, caller, manager, requestVars>>

Reply == [of : Requests, error : BOOLEAN]
Job == [kind : {"query", "command"}, request : Requests] \cup [kind : {"close"}]
Idle == [pc |-> "idle", request |-> 0, query |-> FALSE]

WorkerState == [pc : {"idle", "send", "reset", "reconnect", "invalidate", "remove", "close"},
                request : 0..MaxRequests, query : BOOLEAN]
CallerState == [pc : {"idle", "check", "enqueue", "await"}, session : 0..MaxSessions, request : 0..MaxRequests]
ManagerState == [pc : {"idle", "create", "direct", "close", "await"}, session : 0..MaxSessions,
                 last : {"connect", "disconnect"}]

TypeOK ==
  /\ connected \in BOOLEAN
  /\ pipe \in Seq(Reply)
  /\ created \in 0..MaxSessions /\ current \in 0..created
  /\ accepting \subseteq 1..created /\ shut \subseteq 1..created
  /\ fifo \in [Sessions -> Seq(Job)]
  /\ worker \in [Sessions -> WorkerState]
  /\ caller \in [Callers -> CallerState]
  /\ manager \in [Managers -> ManagerState]
  /\ requests \in 0..MaxRequests
  /\ answer \in [Requests -> 0..MaxRequests]
  /\ ended \subseteq Requests

Init ==
  /\ connected = FALSE
  /\ pipe = <<>>
  /\ current = 0
  /\ created = 0
  /\ accepting = {}
  /\ shut = {}
  /\ fifo = [s \in Sessions |-> <<>>]
  /\ worker = [s \in Sessions |-> Idle]
  /\ caller = [c \in Callers |-> [pc |-> "idle", session |-> 0, request |-> 0]]
  /\ manager = [m \in Managers |-> [pc |-> "idle", session |-> 0, last |-> "disconnect"]]
  /\ requests = 0
  /\ answer = [r \in Requests |-> 0]
  /\ ended = {}

-----------------------------------------------------------------------------
(* The transport, under the connection manager's monitor.                  *)

\* A transport that is closed loses what it had not read.
Open == connected' = TRUE /\ pipe' = (IF connected THEN pipe ELSE <<>>)
Shut == connected' = FALSE /\ pipe' = <<>>

-----------------------------------------------------------------------------
(* send() of the coordinator and submit() of the session.                  *)

CallerGoes(c, from, to) == caller[c].pc = from /\ caller' = [caller EXCEPT ![c].pc = to]

Find(c) ==
  /\ caller[c].pc = "idle"
  /\ current \in accepting
  /\ caller' = [caller EXCEPT ![c].pc = "check", ![c].session = current]
  /\ UNCHANGED <<linkVars, sessionVars, fifo, worker, manager, requestVars>>

Check(c) ==
  /\ CallerGoes(c, "check", IF caller[c].session \in accepting THEN "enqueue" ELSE "idle")
  /\ UNCHANGED <<linkVars, sessionVars, fifo, worker, manager, requestVars>>

\* executor.execute: a shut executor rejects the request.
Enqueue(c) ==
  LET s == caller[c].session IN
  \/ /\ s \in shut
     /\ CallerGoes(c, "enqueue", "idle")
     /\ UNCHANGED <<linkVars, sessionVars, fifo, worker, manager, requestVars>>
  \/ /\ s \notin shut
     /\ requests < MaxRequests
     /\ caller[c].pc = "enqueue"
     /\ caller' = [caller EXCEPT ![c].pc = "await", ![c].request = requests + 1]
     /\ requests' = requests + 1
     /\ \E kind \in {"query", "command"} :
          fifo' = [fifo EXCEPT ![s] = Append(@, [kind |-> kind, request |-> requests + 1])]
     /\ UNCHANGED <<linkVars, sessionVars, worker, manager, answer, ended>>

\* result.get(): returns with the future, or at once when the script thread is
\* interrupted; the request itself goes on.
Return(c) ==
  /\ CallerGoes(c, "await", "idle")
  /\ caller[c].request \in ended
  /\ UNCHANGED <<linkVars, sessionVars, fifo, worker, manager, requestVars>>

Interrupt(c) ==
  /\ CallerGoes(c, "await", "idle")
  /\ UNCHANGED <<linkVars, sessionVars, fifo, worker, manager, requestVars>>

-----------------------------------------------------------------------------
(* execute(): the worker of a session.                                     *)

WorkerGoes(s, from, to) == worker[s].pc = from /\ worker' = [worker EXCEPT ![s].pc = to]
WorkerRests(s) == worker' = [worker EXCEPT ![s] = Idle]

\* Mutant: a request that finds its session closed is dropped.
TakeSilently(s) ==
  /\ worker[s].pc = "idle"
  /\ fifo[s] # <<>>
  /\ fifo' = [fifo EXCEPT ![s] = Tail(@)]
  /\ LET job == Head(fifo[s]) IN
     CASE job.kind = "close" -> WorkerGoes(s, "idle", "close")
       [] job.kind # "close" /\ s \in accepting ->
            worker' = [worker EXCEPT ![s] = [pc |-> "send", request |-> job.request,
                                             query |-> job.kind = "query"]]
       [] OTHER -> UNCHANGED worker
  /\ UNCHANGED <<linkVars, sessionVars, caller, manager, requestVars>>

\* The next job; a request that finds its session closed fails unsent.
Take(s) ==
  /\ worker[s].pc = "idle"
  /\ fifo[s] # <<>>
  /\ fifo' = [fifo EXCEPT ![s] = Tail(@)]
  /\ LET job == Head(fifo[s]) IN
     CASE job.kind = "close" -> WorkerGoes(s, "idle", "close") /\ UNCHANGED ended
       [] job.kind # "close" /\ s \in accepting ->
            /\ worker' = [worker EXCEPT ![s] = [pc |-> "send", request |-> job.request,
                                                query |-> job.kind = "query"]]
            /\ UNCHANGED ended
       [] OTHER -> ended' = ended \cup {job.request} /\ UNCHANGED worker
  /\ UNCHANGED <<linkVars, sessionVars, caller, manager, requests, answer>>

\* Mutant: only a lost connection is recovered from.
RecoverLossOnly(s, code) ==
  IF code \in {"CONNECTION_LOST", "DISCONNECTED"}
  THEN WorkerGoes(s, "send", "invalidate") /\ UNCHANGED ended
  ELSE WorkerRests(s) /\ ended' = ended \cup {worker[s].request}

\* recoverIfRequired: what follows an error response.
Recover(s, code) ==
  CASE code = "TIMEOUT" \/ (code = "SCPI_ERROR" /\ worker[s].query) ->
         WorkerGoes(s, "send", "reset") /\ UNCHANGED ended
    [] code \in {"CONNECTION_LOST", "DISCONNECTED"} ->
         WorkerGoes(s, "send", "invalidate") /\ UNCHANGED ended
    [] OTHER -> WorkerRests(s) /\ ended' = ended \cup {worker[s].request}

\* A query is written and the oldest unread reply is taken for its own; an
\* ERR line becomes SCPI_ERROR (normalizeDeviceError).
Query(s) ==
  LET r == worker[s].request IN
  /\ worker[s].pc = "send" /\ worker[s].query /\ connected
  /\ \E refused \in BOOLEAN :
       LET coming == Append(pipe, [of |-> r, error |-> refused]) IN
       \/ /\ pipe' = Tail(coming)
          /\ IF Head(coming).error
             THEN Recover(s, "SCPI_ERROR") /\ UNCHANGED answer
             ELSE /\ answer' = [answer EXCEPT ![r] = Head(coming).of]
                  /\ ended' = ended \cup {r}
                  /\ WorkerRests(s)
       \/ pipe' = coming /\ Recover(s, "TIMEOUT") /\ UNCHANGED answer
  /\ UNCHANGED <<connected, sessionVars, fifo, caller, manager, requests>>

\* A command has no reply, unless the device refuses it with an ERR line that
\* comes within writeResponseTimeout or later; a reply found there is an error.
Command(s) ==
  LET r == worker[s].request IN
  /\ worker[s].pc = "send" /\ ~worker[s].query /\ connected
  /\ \E coming \in {pipe, Append(pipe, [of |-> r, error |-> TRUE])} :
       \/ pipe' = coming /\ Recover(s, "SENT")
       \/ /\ coming # <<>>
          /\ pipe' = Tail(coming)
          /\ Recover(s, IF Head(coming).error THEN "SCPI_ERROR" ELSE "UNEXPECTED_WRITE_RESPONSE")
  /\ UNCHANGED <<connected, sessionVars, fifo, caller, manager, requests, answer>>

\* The link is down, or breaks during the exchange.
Unreachable(s) ==
  /\ worker[s].pc = "send"
  /\ Shut
  /\ Recover(s, "CONNECTION_LOST")
  /\ UNCHANGED <<sessionVars, fifo, caller, manager, requests, answer>>

\* resetTransport: disconnect, then connect, two calls of the manager.
Reset(s) ==
  /\ WorkerGoes(s, "reset", "reconnect")
  /\ Shut
  /\ UNCHANGED <<sessionVars, fifo, caller, manager, requestVars>>

Fail(s) == WorkerRests(s) /\ ended' = ended \cup {worker[s].request}

Reconnect(s) ==
  /\ worker[s].pc = "reconnect"
  /\ \/ Open /\ Fail(s)
     \/ ~connected /\ Shut /\ WorkerGoes(s, "reconnect", "invalidate") /\ UNCHANGED ended
  /\ UNCHANGED <<sessionVars, fifo, caller, manager, requests, answer>>

\* invalidate: stop accepting, then leave the coordinator's map, then shut down.
Invalidate(s) ==
  /\ WorkerGoes(s, "invalidate", "remove")
  /\ accepting' = accepting \ {s}
  /\ UNCHANGED <<linkVars, current, created, shut, fifo, caller, manager, requestVars>>

Remove(s) ==
  /\ worker[s].pc = "remove"
  /\ current' = IF current = s THEN 0 ELSE current
  /\ shut' = shut \cup {s}
  /\ Fail(s)
  /\ UNCHANGED <<linkVars, created, accepting, fifo, caller, manager, requests, answer>>

\* The job closeAndDisconnect() queued: disconnect, answer the manager, shut down.
CloseJob(s) ==
  /\ worker[s].pc = "close"
  /\ Shut
  /\ WorkerRests(s)
  /\ shut' = shut \cup {s}
  /\ manager' = [m \in Managers |->
       IF manager[m].pc = "await" /\ manager[m].session = s
       THEN [manager[m] EXCEPT !.pc = "idle", !.last = "disconnect"] ELSE manager[m]]
  /\ UNCHANGED <<current, created, accepting, fifo, caller, requestVars>>

-----------------------------------------------------------------------------
(* connect() and disconnect() of the coordinator; destroy() closes the     *)
(* session the same way.                                                   *)

ManagerGoes(m, from, to) == manager[m].pc = from /\ manager' = [manager EXCEPT ![m].pc = to]

Connect(m) ==
  /\ manager[m].pc = "idle"
  /\ \/ Open /\ manager' = [manager EXCEPT ![m].pc = "create", ![m].last = "connect"]
     \/ ~connected /\ Shut /\ UNCHANGED manager
  /\ UNCHANGED <<sessionVars, fifo, worker, caller, requestVars>>

CreateSession(m) ==
  /\ ManagerGoes(m, "create", "idle")
  /\ IF current # 0
     THEN UNCHANGED <<current, created, accepting>>
     ELSE /\ created < MaxSessions
          /\ created' = created + 1
          /\ current' = created + 1
          /\ accepting' = accepting \cup {created + 1}
  /\ UNCHANGED <<linkVars, shut, fifo, worker, caller, requestVars>>

Disconnect(m) ==
  /\ manager[m].pc = "idle"
  /\ current' = 0
  /\ manager' = [manager EXCEPT ![m].pc = IF current = 0 THEN "direct" ELSE "close",
                                ![m].session = current]
  /\ UNCHANGED <<linkVars, created, accepting, shut, fifo, worker, caller, requestVars>>

DisconnectDirectly(m) ==
  /\ manager[m].pc = "direct"
  /\ manager' = [manager EXCEPT ![m].pc = "idle", ![m].last = "disconnect"]
  /\ Shut
  /\ UNCHANGED <<sessionVars, fifo, worker, caller, requestVars>>

\* Mutant: the transport is disconnected beside the queue.
CloseBesideQueue(m) ==
  /\ manager[m].pc = "close"
  /\ manager' = [manager EXCEPT ![m].pc = "idle", ![m].last = "disconnect"]
  /\ accepting' = accepting \ {manager[m].session}
  /\ shut' = shut \cup {manager[m].session}
  /\ Shut
  /\ UNCHANGED <<current, created, fifo, worker, caller, requestVars>>

\* Mutant: goes on accepting until the close job runs.
CloseStillAccepting(m) ==
  LET s == manager[m].session IN
  /\ IF s \in shut
     THEN ManagerGoes(m, "close", "idle") /\ UNCHANGED fifo
     ELSE ManagerGoes(m, "close", "await") /\ fifo' = [fifo EXCEPT ![s] = Append(@, [kind |-> "close"])]
  /\ UNCHANGED <<linkVars, sessionVars, worker, caller, requestVars>>

\* A session that invalidated itself in between has no executor left: the
\* rejection ends disconnect() with an exception.
CloseSession(m) ==
  LET s == manager[m].session IN
  /\ accepting' = accepting \ {s}
  /\ IF s \in shut
     THEN ManagerGoes(m, "close", "idle") /\ UNCHANGED fifo
     ELSE ManagerGoes(m, "close", "await") /\ fifo' = [fifo EXCEPT ![s] = Append(@, [kind |-> "close"])]
  /\ UNCHANGED <<linkVars, current, created, shut, worker, caller, requestVars>>

-----------------------------------------------------------------------------
CallerStep(c) == Find(c) \/ Check(c) \/ Enqueue(c) \/ Return(c) \/ Interrupt(c)

WorkerStep(s) ==
  \/ Take(s) \/ Query(s) \/ Command(s) \/ Unreachable(s) \/ Reset(s) \/ Reconnect(s)
  \/ Invalidate(s) \/ Remove(s) \/ CloseJob(s)

ManagerStep(m) ==
  \/ Connect(m) \/ CreateSession(m) \/ Disconnect(m) \/ DisconnectDirectly(m)
  \/ CloseSession(m)

Next ==
  \/ \E c \in Callers : CallerStep(c)
  \/ \E s \in Sessions : WorkerStep(s)
  \/ \E m \in Managers : ManagerStep(m)

SafetySpec == Init /\ [][Next]_vars

\* Fairness: a worker with a job goes on; a waiting caller sees its future.
Spec ==
  /\ SafetySpec
  /\ \A s \in Sessions : WF_vars(WorkerStep(s))
  /\ \A c \in Callers : WF_vars(Return(c))

-----------------------------------------------------------------------------
\* DeviceSession: "a response cannot be consumed by a different script request".
OwnReply == \A r \in Requests : answer[r] \in {0, r}

\* Recovery is over before the next request starts: between two requests only
\* late ERR lines of commands may be unread, and those are recognized.
CleanBetweenRequests ==
  (\A s \in Sessions : worker[s].pc = "idle") => \A i \in DOMAIN pipe : pipe[i].error

\* Sessions are counted before they are found, and leave a clean stream.
SessionsAreSound == TypeOK /\ CleanBetweenRequests

\* At rest: no call in progress and nothing queued.
Quiet ==
  /\ \A s \in Sessions : worker[s].pc = "idle" /\ fifo[s] = <<>>
  /\ \A m \in Managers : manager[m].pc = "idle"
  /\ \A c \in Callers : caller[c].pc = "idle"

\* After disconnect() has answered nothing, a recovering worker included,
\* connects the device again.  last is the last operation that succeeded.
StaysDisconnected ==
  Quiet /\ connected => \E m \in Managers : manager[m].last = "connect"

\* closeAndDisconnect: "Queued operations observe the closed state and fail
\* without reaching the transport".  Once a session is closed no worker sends
\* or recovers for it, whatever its queue still holds.
ShutSessionIsSilent ==
  \A s \in shut : worker[s].pc \in {"idle", "close"} /\ s \notin accepting

\* Every request is answered or fails, also when its session is closed,
\* invalidated or recovering.
RequestEnds == \A r \in Requests : requests >= r ~> r \in ended
=============================================================================
