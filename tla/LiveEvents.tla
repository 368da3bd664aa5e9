------------------------------ MODULE LiveEvents ------------------------------
(***************************************************************************)
(* Live events of one script task: InMemoryScriptLiveEventPublisher and    *)
(* the SSE subscriptions of ScriptEventsController.                        *)
(*                                                                         *)
(* Publishers (the worker, the timer, an HTTP thread inside cancel())      *)
(* append events to the task's stream, subscribers attach to it, and the   *)
(* delivery pool drains one bounded queue per subscriber.  A monitor of    *)
(* the code (the streams map, a TaskStream, a Subscriber) is one step, and *)
(* so is every send to a browser.  close() takes two monitors one after    *)
(* the other; a closed subscriber ignores offers, so nothing can tell the  *)
(* moment between them and close() is one step.                            *)
(*                                                                         *)
(* An event is its sequence number.  A stream that was removed and is      *)
(* looked up again is a new TaskStream object.                             *)
(***************************************************************************)
EXTENDS Naturals, FiniteSets, Sequences, SequencesExt

CONSTANTS
  Publishers, Subscribers,
  Threads,             \* psu.scripts.executors.event-delivery-pool-size
  QueueCapacity,       \* psu.scripts.executors.event-delivery-queue-capacity
  ReplayCapacity,      \* events a stream keeps for late subscribers
  SubscriberCapacity,  \* events queued for one subscriber
  MaxEvents,           \* bound: events of one stream
  MaxStreams,          \* bound: TaskStream objects of the task
  Impatient            \* subscribers whose browser may go away

ASSUME CapacityAssumption ==
  /\ {QueueCapacity, ReplayCapacity, SubscriberCapacity} \subseteq Nat \ {0}
  /\ {MaxEvents, MaxStreams} \subseteq Nat \ {0}
  /\ Impatient \subseteq Subscribers /\ Subscribers # {}

Streams == 1..MaxStreams
Events == 1..MaxEvents

VARIABLES
  known,      \* the task is still in DefaultScriptRunnerService.tasks
  decided,    \* a thread has ended the task: its terminal event is to come
  current,    \* the stream in the streams map, 0 for none
  created,    \* TaskStream objects made so far
  sequence,   \* per stream: TaskStream.sequence
  terminal,   \* streams with the terminal flag
  attached,   \* per stream: TaskStream.subscribers
  pub,        \* per publisher: what it is doing
  sub,        \* per subscriber: where events() is
  streamOf,   \* per subscriber: the stream events() looked up
  queue, draining, closed,   \* Subscriber.queue, draining and closed
  overflowed, \* subscribers closed by offerLocked
  pool,       \* delivery thread -> what it is doing
  jobs,       \* the delivery executor's queue of drain jobs
  received,   \* what each browser got, in order
  sse         \* each emitter: "open", "complete" or "gone"

streamVars == <<current, created, sequence, terminal, attached>>
subVars == <<sub, streamOf>>
queueVars == <<queue, draining, closed, overflowed>>
deliveryVars == <<pool, jobs, received, sse>>
vars == <<known, decided, streamVars, pub, subVars, queueVars, deliveryVars>>

Resting == [pc |-> "idle", stream |-> 0, ends |-> FALSE, wake |-> {}]
Asleep == [pc |-> "idle", sub |-> CHOOSE s \in Subscribers : TRUE, event |-> 0]

PublisherState == [pc : {"idle", "append", "wake"}, stream : 0..MaxStreams, ends : BOOLEAN,
                   wake : SUBSET Subscribers]
ThreadState == [pc : {"idle", "poll", "send", "finally"}, sub : Subscribers, event : 0..MaxEvents]

TypeOK ==
  /\ known \in BOOLEAN /\ decided \in BOOLEAN
  /\ created \in 0..MaxStreams /\ current \in 0..created
  /\ sequence \in [Streams -> 0..MaxEvents]
  /\ terminal \subseteq Streams
  /\ attached \in [Streams -> SUBSET Subscribers]
  /\ pub \in [Publishers -> PublisherState]
  /\ sub \in [Subscribers -> {"new", "lookup", "attach", "wake", "return", "open", "refused"}]
  /\ streamOf \in [Subscribers -> 0..MaxStreams]
  /\ queue \in [Subscribers -> Seq(Events)]
  /\ \A s \in Subscribers : Len(queue[s]) <= SubscriberCapacity
  /\ draining \subseteq Subscribers /\ overflowed \subseteq closed /\ closed \subseteq Subscribers
  /\ pool \in [Threads -> ThreadState]
  /\ jobs \in Seq(Subscribers) /\ Len(jobs) <= QueueCapacity
  /\ received \in [Subscribers -> Seq(Events)]
  /\ sse \in [Subscribers -> {"open", "complete", "gone"}]

Init ==
  /\ known = TRUE
  /\ decided = FALSE
  /\ current = 0
  /\ created = 0
  /\ sequence = [o \in Streams |-> 0]
  /\ terminal = {}
  /\ attached = [o \in Streams |-> {}]
  /\ pub = [p \in Publishers |-> Resting]
  /\ sub = [s \in Subscribers |-> "new"]
  /\ streamOf = [s \in Subscribers |-> 0]
  /\ queue = [s \in Subscribers |-> <<>>]
  /\ draining = {}
  /\ closed = {}
  /\ overflowed = {}
  /\ pool = [w \in Threads |-> Asleep]
  /\ jobs = <<>>
  /\ received = [s \in Subscribers |-> <<>>]
  /\ sse = [s \in Subscribers |-> "open"]

-----------------------------------------------------------------------------
(* Subscriber.                                                             *)

Offered(s, e) == Append(queue[s], e)

\* offerLocked for every subscriber in S: a full queue closes its subscriber,
\* which keeps what it has queued and stays in the stream's list.
Offer(S, e) ==
  LET open == S \ closed
      full == {s \in open : Len(queue[s]) >= SubscriberCapacity}
  IN /\ queue' = [s \in Subscribers |-> IF s \in open \ full THEN Offered(s, e) ELSE queue[s]]
     /\ closed' = closed \cup full
     /\ overflowed' = overflowed \cup full

\* close(): drops the queue and leaves the stream, unless closed already.
Close(S) ==
  LET open == S \ closed
  IN /\ closed' = closed \cup S
     /\ queue' = [s \in Subscribers |-> IF s \in open THEN <<>> ELSE queue[s]]
     /\ attached' = [o \in Streams |-> attached[o] \ {s \in open : streamOf[s] = o}]
     /\ UNCHANGED overflowed

\* scheduleDrain: the flag admits one drain job; a saturated executor
\* (AbortPolicy) closes the subscription.
Saturated == Len(jobs) >= QueueCapacity

ScheduleDrain(s) ==
  IF s \in draining
  THEN UNCHANGED <<queue, draining, closed, overflowed, attached, jobs>>
  ELSE /\ draining' = draining \cup {s}
       /\ IF Saturated
          THEN Close({s}) /\ UNCHANGED jobs
          ELSE jobs' = Append(jobs, s) /\ UNCHANGED <<queue, closed, overflowed, attached>>

-----------------------------------------------------------------------------
(* publish().                                                              *)

\* stream(taskId): computeIfAbsent.
Lookup ==
  IF current # 0
  THEN UNCHANGED <<current, created>>
  ELSE created < MaxStreams /\ created' = created + 1 /\ current' = created + 1

\* Ending the task is decided once, in RunningScriptTask; other threads may
\* still publish until they learn of it.
PublishLookup(p) ==
  /\ pub[p].pc = "idle"
  /\ Lookup
  /\ \E ends \in BOOLEAN :
       /\ ends => ~decided
       /\ decided' = (decided \/ ends)
       /\ pub' = [pub EXCEPT ![p] = [pc |-> "append", stream |-> current', ends |-> ends, wake |-> {}]]
  /\ UNCHANGED <<known, sequence, terminal, attached, subVars, queueVars, deliveryVars>>

\* Assign the sequence number, remember the event, offer it; an ended stream throws.
PublishAppend(p) ==
  LET o == pub[p].stream IN
  /\ pub[p].pc = "append"
  /\ IF o \in terminal
     THEN /\ pub' = [pub EXCEPT ![p] = Resting]
          /\ UNCHANGED <<sequence, terminal, queue, closed, overflowed>>
     ELSE /\ sequence[o] < MaxEvents
          /\ sequence' = [sequence EXCEPT ![o] = @ + 1]
          /\ terminal' = IF pub[p].ends THEN terminal \cup {o} ELSE terminal
          /\ Offer(attached[o], sequence[o] + 1)
          /\ pub' = [pub EXCEPT ![p].pc = "wake", ![p].wake = attached[o]]
  /\ UNCHANGED <<known, decided, current, created, attached, subVars, draining, deliveryVars>>

PublishWake(p) ==
  /\ pub[p].pc = "wake"
  /\ \/ \E s \in pub[p].wake :
          /\ ScheduleDrain(s)
          /\ pub' = [pub EXCEPT ![p].wake = @ \ {s}]
     \/ /\ pub[p].wake = {}
        /\ pub' = [pub EXCEPT ![p] = Resting]
        /\ UNCHANGED <<queue, draining, closed, overflowed, attached, jobs>>
  /\ UNCHANGED <<known, decided, current, created, sequence, terminal, subVars, pool, received, sse>>

\* evictCompletedTasks forgets the ended task, then removes its stream.
Evict ==
  /\ decided
  /\ known
  /\ known' = FALSE
  /\ UNCHANGED <<decided, streamVars, pub, subVars, queueVars, deliveryVars>>

\* removeTask, by the eviction or by pruneCompletedStreams of any publication:
\* close every subscriber of the stream; nothing tells their emitters.
RemoveTask ==
  /\ current # 0
  /\ ~known \/ current \in terminal
  /\ current' = 0
  /\ Close(attached[current])
  /\ UNCHANGED <<known, decided, created, sequence, terminal, pub, subVars, draining, deliveryVars>>

-----------------------------------------------------------------------------
(* events(): a browser subscribes.                                         *)

SubscriberGoes(s, from, to) == sub[s] = from /\ sub' = [sub EXCEPT ![s] = to]

SubscribeCheck(s) ==
  /\ SubscriberGoes(s, "new", IF known THEN "lookup" ELSE "refused")
  /\ UNCHANGED <<known, decided, streamVars, pub, streamOf, queueVars, deliveryVars>>

SubscribeLookup(s) ==
  /\ SubscriberGoes(s, "lookup", "attach")
  /\ Lookup
  /\ streamOf' = [streamOf EXCEPT ![s] = current']
  /\ UNCHANGED <<known, decided, sequence, terminal, attached, pub, queueVars, deliveryVars>>

\* Mutant: joins the stream without what it missed.
Forgotten(o) == <<>>

\* The history the stream replays, for afterSequence 0.
Smaller(m, n) == IF m < n THEN m ELSE n
Replay(o) ==
  LET n == Smaller(sequence[o], ReplayCapacity) IN [i \in 1..n |-> sequence[o] - n + i]

\* Join the stream and queue its history in one monitor; a history longer than
\* the queue overflows it.
SubscribeAttach(s) ==
  LET o == streamOf[s] replay == Replay(o) IN
  /\ SubscriberGoes(s, "attach", "wake")
  /\ attached' = [attached EXCEPT ![o] = @ \cup {s}]
  /\ queue' = [queue EXCEPT ![s] = SubSeq(replay, 1, Smaller(Len(replay), SubscriberCapacity))]
  /\ IF Len(replay) > SubscriberCapacity
     THEN closed' = closed \cup {s} /\ overflowed' = overflowed \cup {s}
     ELSE UNCHANGED <<closed, overflowed>>
  /\ UNCHANGED <<known, decided, current, created, sequence, terminal, pub, streamOf, draining,
                 deliveryVars>>

SubscribeWake(s) ==
  /\ SubscriberGoes(s, "wake", "return")
  /\ ScheduleDrain(s)
  /\ UNCHANGED <<known, decided, current, created, sequence, terminal, pub, streamOf, pool, received,
                 sse>>

\* The handle becomes visible to the callbacks; a terminal event that was sent
\* before it was is noticed here.
SubscribeReturn(s) ==
  /\ SubscriberGoes(s, "return", "open")
  /\ IF sse[s] = "complete" THEN Close({s}) ELSE UNCHANGED <<queue, closed, overflowed, attached>>
  /\ UNCHANGED <<known, decided, current, created, sequence, terminal, pub, streamOf, draining,
                 deliveryVars>>

\* The browser goes away; the container calls onError/onCompletion.
Disconnect(s) ==
  /\ s \in Impatient
  /\ sub[s] = "open"
  /\ sse[s] = "open"
  /\ sse' = [sse EXCEPT ![s] = "gone"]
  /\ Close({s})
  /\ UNCHANGED <<known, decided, current, created, sequence, terminal, pub, subVars, draining, pool,
                 jobs, received>>

-----------------------------------------------------------------------------
(* drain(), on a thread of the delivery pool.                              *)

Take(w) ==
  /\ pool[w].pc = "idle"
  /\ jobs # <<>>
  /\ jobs' = Tail(jobs)
  /\ pool' = [pool EXCEPT ![w] = [pc |-> "poll", sub |-> Head(jobs), event |-> 0]]
  /\ UNCHANGED <<known, decided, streamVars, pub, subVars, queueVars, received, sse>>

\* Mutant: the flag is reset only on the way out, by the finally clause.
PollKeepsFlag(w) ==
  LET s == pool[w].sub IN
  /\ pool[w].pc = "poll"
  /\ IF queue[s] = <<>>
     THEN pool' = [pool EXCEPT ![w].pc = "finally"] /\ UNCHANGED queue
     ELSE /\ pool' = [pool EXCEPT ![w].pc = "send", ![w].event = Head(queue[s])]
          /\ queue' = [queue EXCEPT ![s] = Tail(@)]
  /\ UNCHANGED <<known, decided, streamVars, pub, subVars, closed, overflowed, draining, jobs, received, sse>>

\* Inside the subscriber's monitor the queue cannot fill again between the
\* poll and the second look at it.
Poll(w) ==
  LET s == pool[w].sub IN
  /\ pool[w].pc = "poll"
  /\ IF queue[s] = <<>>
     THEN /\ pool' = [pool EXCEPT ![w].pc = "finally"]
          /\ draining' = draining \ {s}
          /\ UNCHANGED queue
     ELSE /\ pool' = [pool EXCEPT ![w].pc = "send", ![w].event = Head(queue[s])]
          /\ queue' = [queue EXCEPT ![s] = Tail(@)]
          /\ UNCHANGED draining
  /\ UNCHANGED <<known, decided, streamVars, pub, subVars, closed, overflowed, jobs, received, sse>>

\* send(): the terminal event completes the emitter and closes the
\* subscription; an emitter that is over refuses the event.
Send(w) ==
  LET s == pool[w].sub
      e == pool[w].event
      ends == streamOf[s] \in terminal /\ e = sequence[streamOf[s]]
      handle == sub[s] = "open"
  IN
  /\ pool[w].pc = "send"
  /\ pool' = [pool EXCEPT ![w].pc = "poll", ![w].event = 0]
  /\ IF sse[s] = "open"
     THEN /\ received' = [received EXCEPT ![s] = Append(@, e)]
          /\ sse' = IF ends THEN [sse EXCEPT ![s] = "complete"] ELSE sse
     ELSE UNCHANGED <<received, sse>>
  /\ IF handle /\ (ends \/ sse[s] # "open")
     THEN Close({s})
     ELSE UNCHANGED <<queue, closed, overflowed, attached>>
  /\ UNCHANGED <<known, decided, current, created, sequence, terminal, pub, subVars, draining, jobs>>

\* The finally clause resets the flag outside the monitor, also when another
\* thread has set it again.
DrainEnds(w) ==
  /\ pool[w].pc = "finally"
  /\ pool' = [pool EXCEPT ![w] = Asleep]
  /\ draining' = draining \ {pool[w].sub}
  /\ UNCHANGED <<known, decided, streamVars, pub, subVars, queue, closed, overflowed, jobs, received, sse>>

-----------------------------------------------------------------------------
PublishStep(p) == PublishLookup(p) \/ PublishAppend(p) \/ PublishWake(p)
SubscribeStep(s) ==
  SubscribeCheck(s) \/ SubscribeLookup(s) \/ SubscribeAttach(s) \/ SubscribeWake(s) \/ SubscribeReturn(s)
DeliveryStep(w) == Take(w) \/ Poll(w) \/ Send(w) \/ DrainEnds(w)

Next ==
  \/ \E p \in Publishers : PublishStep(p)
  \/ Evict
  \/ RemoveTask
  \/ \E s \in Subscribers : SubscribeStep(s) \/ Disconnect(s)
  \/ \E w \in Threads : DeliveryStep(w)

SafetySpec == Init /\ [][Next]_vars

\* Fairness: a thread inside publish(), events() or drain() goes on, and a
\* decided task gets its terminal event.  Nothing is assumed of clients.
Spec ==
  /\ SafetySpec
  /\ \A p \in Publishers : WF_vars(PublishAppend(p)) /\ WF_vars(PublishWake(p))
  /\ \A s \in Subscribers : WF_vars(SubscribeStep(s) /\ sub[s] # "new")
  /\ \A w \in Threads : WF_vars(DeliveryStep(w))

-----------------------------------------------------------------------------
(* Safety.                                                                 *)

InHand(s) == {w \in Threads : pool[w].pc = "send" /\ pool[w].sub = s}
Pending(s) == ToSet(queue[s]) \cup {pool[w].event : w \in InHand(s)}

\* Replay and publication leave no gap and no duplicate: what a browser got,
\* what is being sent to it and what waits for it are, together, the stream's
\* latest events, each exactly once.
NoGap ==
  \A s \in Subscribers :
    sub[s] \in {"wake", "return", "open"} /\ s \notin closed /\ sse[s] = "open" =>
      LET last == sequence[streamOf[s]]
          had == ToSet(received[s]) \cup Pending(s)
      IN /\ had = {e \in 1..last : \E d \in had : d <= e}
         /\ had = {} => last = 0
         /\ Cardinality(had) = Len(received[s]) + Len(queue[s]) + Cardinality(InHand(s))

\* A queued event is never forgotten: a drain job is waiting or running, or a
\* thread is still to schedule one.  Not so for a subscriber that overflowed:
\* refused by the executor as well, it keeps its flag and its queue for ever.
NoForgottenEvent ==
  \A s \in Subscribers \ overflowed : queue[s] # <<>> =>
    \/ s \in ToSet(jobs)
    \/ \E w \in Threads : pool[w].sub = s /\ pool[w].pc \in {"poll", "send"}
    \/ \E p \in Publishers : s \in pub[p].wake
    \/ sub[s] = "wake"

\* Queues stay within their capacities, and no queued event is forgotten.
DeliveryIsSound == TypeOK /\ NoForgottenEvent

\* README: events are "ordered".  A browser receives increasing numbers.
InOrder ==
  \A s \in Subscribers : \A i, j \in DOMAIN received[s] : i < j => received[s][i] < received[s][j]

-----------------------------------------------------------------------------
(* Progress.                                                               *)

Listening(s) == sub[s] = "open" /\ sse[s] = "open" /\ streamOf[s] \in terminal

\* The same for subscriptions that neither overflowed nor were refused by the
\* delivery executor nor lost their stream.
OpenSubscriptionCompletes ==
  \A s \in Subscribers : Listening(s) /\ s \notin closed ~> sse[s] # "open" \/ s \in closed
=============================================================================
