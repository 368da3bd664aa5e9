--------------------------- MODULE LiveEventsProofs ---------------------------
(***************************************************************************)
(* Theorems about LiveEvents for every number of publishers, subscribers   *)
(* and delivery threads and every capacity.                                *)
(***************************************************************************)
EXTENDS LiveEvents, FiniteSetTheorems, TLAPS

\* What every step definition is built from.
USE DEF vars, streamVars, subVars, queueVars, deliveryVars

-----------------------------------------------------------------------------
(* The inductive invariant.                                                *)

\* Threads inside a call hold streams that exist; a publisher wakes only what
\* it has offered an event to.
CallInv ==
  /\ \A p \in Publishers : pub[p].pc # "idle" => pub[p].stream \in Streams
  /\ \A p \in Publishers : pub[p].pc # "wake" => pub[p].wake = {}
  /\ \A s \in Subscribers : sub[s] \in {"attach", "wake", "return", "open"} => streamOf[s] \in Streams
  /\ \A w \in Threads : pool[w].pc = "send" => pool[w].event \in Events

\* Until it joins its stream nobody knows of a subscriber.
Unjoined == {"new", "lookup", "attach", "refused"}
Absent(s) ==
  /\ s \notin closed /\ queue[s] = <<>> /\ received[s] = <<>>
  /\ \A o \in Streams : s \notin attached[o]
  /\ \A p \in Publishers : s \notin pub[p].wake
  /\ \A i \in DOMAIN jobs : jobs[i] # s
  /\ \A w \in Threads : pool[w].pc # "idle" => pool[w].sub # s

\* A drain job is waiting or running.
Served(s) ==
  \/ \E i \in DOMAIN jobs : jobs[i] = s
  \/ \E w \in Threads : pool[w].sub = s /\ pool[w].pc \in {"poll", "send"}

\* A set flag means a drain job, and what waits has a job or is about to get one.
Drained(s) ==
  /\ s \in closed \ overflowed => queue[s] = <<>>
  /\ s \in draining \ closed => Served(s)
  /\ s \notin closed /\ queue[s] # <<>> =>
       Served(s) \/ (\E p \in Publishers : s \in pub[p].wake) \/ sub[s] = "wake"

TypeInv == TypeOK /\ CallInv

SubscriberInv(s) ==
  /\ sub[s] \in Unjoined => Absent(s)
  /\ \A o \in Streams : s \in attached[o] => streamOf[s] = o
  /\ Drained(s)

DeliveryInv == TypeInv /\ \A s \in Subscribers : SubscriberInv(s)

\* Of its stream's latest events a subscriber has been sent all but those queued.
Handed(s, e) == \E w \in Threads : pool[w].pc = "send" /\ pool[w].sub = s /\ pool[w].event = e
Got(s, e) == \E i \in DOMAIN received[s] : received[s][i] = e
Sent(s) == sequence[streamOf[s]] - Len(queue[s])

Gapless(s) ==
  /\ \A i, j \in DOMAIN received[s] : received[s][i] = received[s][j] => i = j
  /\ \A v, w \in InHand(s) : pool[v].event = pool[w].event => v = w
  /\ \A e \in Events : ~(Got(s, e) /\ Handed(s, e))
  /\ \E first \in Nat \ {0} :
       /\ first <= Sent(s) + 1 
       /\ first <= sequence[streamOf[s]] \/ sequence[streamOf[s]] = 0
       /\ \A e \in Events : Got(s, e) \/ Handed(s, e) <=> first <= e /\ e <= Sent(s)

Joined(s) ==
  /\ s \in attached[streamOf[s]]
  /\ \A i \in DOMAIN queue[s] : queue[s][i] = Sent(s) + i
  /\ Sent(s) \in Nat
  /\ sse[s] = "open" => Gapless(s)

Gap(s) == sub[s] \notin Unjoined /\ s \notin closed => Joined(s)

-----------------------------------------------------------------------------
(* Sequences.                                                              *)

\* What is left after the first element is taken.
LEMMA TailElements ==
  ASSUME NEW S, NEW q \in Seq(S), q # <<>>
  PROVE  /\ Head(q) \in S /\ Head(q) = q[1] /\ 1 \in DOMAIN q
         /\ Tail(q) \in Seq(S) /\ Len(Tail(q)) = Len(q) - 1
         /\ \A i \in DOMAIN Tail(q) : i + 1 \in DOMAIN q /\ Tail(q)[i] = q[i + 1]
OBVIOUS

\* What one more element makes of a sequence.
LEMMA AppendElements ==
  ASSUME NEW S, NEW q \in Seq(S), NEW e \in S
  PROVE  /\ Append(q, e) \in Seq(S) /\ Append(q, e) # <<>>
         /\ Len(Append(q, e)) = Len(q) + 1
         /\ DOMAIN Append(q, e) = 1..(Len(q) + 1)
         /\ Append(q, e)[Len(q) + 1] = e
         /\ \A i \in 1..Len(q) : Append(q, e)[i] = q[i]
OBVIOUS

\* The history a stream replays: its latest events, in order.
LEMMA ReplayEvents ==
  ASSUME TypeOK, NEW o \in Streams
  PROVE  /\ Replay(o) \in Seq(Events)
         /\ Len(Replay(o)) <= sequence[o] /\ Len(Replay(o)) \in Nat
         /\ \A i \in 1..Len(Replay(o)) : Replay(o)[i] = sequence[o] - Len(Replay(o)) + i
         /\ Len(Replay(o)) = 0 => sequence[o] = 0
         /\ \A n \in 0..Len(Replay(o)) :
              /\ SubSeq(Replay(o), 1, n) \in Seq(Events)
              /\ Len(SubSeq(Replay(o), 1, n)) = n
              /\ \A i \in 1..n : SubSeq(Replay(o), 1, n)[i] = Replay(o)[i]
<1> DEFINE n == Smaller(sequence[o], ReplayCapacity)
<1>1. /\ sequence[o] \in 0..MaxEvents /\ MaxEvents \in Nat /\ ReplayCapacity \in Nat \ {0}
  BY CapacityAssumption DEF TypeOK
<1>2. /\ n \in Nat /\ n <= sequence[o] /\ (n = 0 => sequence[o] = 0)
  BY <1>1 DEF Smaller
<1>3. Replay(o) = [i \in 1..n |-> sequence[o] - n + i]
  BY DEF Replay
<1>4. \A i \in 1..n : sequence[o] - n + i \in Events
  BY <1>1, <1>2 DEF Events
<1> HIDE DEF n
<1>5. Replay(o) \in Seq(Events) /\ Len(Replay(o)) = n
  BY <1>2, <1>3, <1>4
<1>6. \A k \in 0..n : /\ SubSeq(Replay(o), 1, k) \in Seq(Events)
                      /\ Len(SubSeq(Replay(o), 1, k)) = k
                      /\ \A i \in 1..k : SubSeq(Replay(o), 1, k)[i] = Replay(o)[i]
  BY <1>2, <1>5
<1> QED BY <1>2, <1>3, <1>5, <1>6

-----------------------------------------------------------------------------
(* Type correctness.                                                       *)

\* Closing and offering.
LEMMA CloseTypes ==
  ASSUME TypeOK, NEW S \in SUBSET Subscribers, Close(S)
  PROVE  /\ queue' \in [Subscribers -> Seq(Events)] /\ \A s \in Subscribers : Len(queue'[s]) <= SubscriberCapacity
         /\ attached' \in [Streams -> SUBSET Subscribers]
         /\ overflowed' \subseteq closed' /\ closed' \subseteq Subscribers
<1>1. <<>> \in Seq(Events) /\ Len(<<>>) <= SubscriberCapacity
  BY CapacityAssumption
<1> QED BY <1>1 DEF Close, TypeOK

LEMMA OfferTypes ==
  ASSUME TypeOK, NEW S \in SUBSET Subscribers, NEW e \in Events, Offer(S, e)
  PROVE  /\ queue' \in [Subscribers -> Seq(Events)] /\ \A s \in Subscribers : Len(queue'[s]) <= SubscriberCapacity
         /\ overflowed' \subseteq closed' /\ closed' \subseteq Subscribers
<1>1. \A s \in Subscribers : /\ queue[s] \in Seq(Events) /\ Len(queue[s]) \in Nat
                             /\ Append(queue[s], e) \in Seq(Events)
                             /\ Len(Append(queue[s], e)) = Len(queue[s]) + 1
  BY AppendElements DEF TypeOK
<1>2. SubscriberCapacity \in Nat
  BY CapacityAssumption
<1>3. \A s \in Subscribers : queue'[s] = queue[s] \/ (queue'[s] = Append(queue[s], e) /\ Len(queue[s]) < SubscriberCapacity)
  BY <1>1, <1>2 DEF Offer, Offered
<1>4. queue' \in [Subscribers -> Seq(Events)]
  BY <1>1, <1>3 DEF Offer
<1>5. \A s \in Subscribers : Len(queue'[s]) <= SubscriberCapacity
  <2> SUFFICES ASSUME NEW s \in Subscribers PROVE Len(queue'[s]) <= SubscriberCapacity
    OBVIOUS
  <2>1. CASE queue'[s] = queue[s]
    BY <2>1 DEF TypeOK
  <2>2. CASE queue'[s] = Append(queue[s], e) /\ Len(queue[s]) < SubscriberCapacity
    BY <1>1, <1>2, <2>2
  <2> QED BY <1>3, <2>1, <2>2
<1>6. overflowed' \subseteq closed' /\ closed' \subseteq Subscribers
  BY DEF Offer, TypeOK
<1> QED BY <1>4, <1>5, <1>6

LEMMA ScheduleTypes ==
  ASSUME TypeOK, NEW s \in Subscribers, ScheduleDrain(s)
  PROVE  /\ queue' \in [Subscribers -> Seq(Events)] /\ \A u \in Subscribers : Len(queue'[u]) <= SubscriberCapacity
         /\ attached' \in [Streams -> SUBSET Subscribers]
         /\ overflowed' \subseteq closed' /\ closed' \subseteq Subscribers
         /\ draining' \subseteq Subscribers
         /\ jobs' \in Seq(Subscribers) /\ Len(jobs') <= QueueCapacity
<1>1. CASE s \in draining
  BY <1>1 DEF ScheduleDrain, TypeOK
<1>2. CASE s \notin draining /\ Saturated
  BY <1>2, CloseTypes DEF ScheduleDrain, TypeOK
<1>3. CASE s \notin draining /\ ~Saturated
  <2>1. Append(jobs, s) \in Seq(Subscribers) /\ Len(Append(jobs, s)) = Len(jobs) + 1 /\ Len(jobs) \in Nat
    BY AppendElements DEF TypeOK
  <2>2. Len(jobs) < QueueCapacity /\ QueueCapacity \in Nat
    BY <1>3, <2>1, CapacityAssumption DEF Saturated
  <2>3. jobs' = Append(jobs, s) /\ draining' = draining \cup {s}
        /\ UNCHANGED <<queue, closed, overflowed, attached>>
    BY <1>3 DEF ScheduleDrain
  <2>4. jobs' \in Seq(Subscribers) /\ Len(jobs') <= QueueCapacity
    BY <2>1, <2>2, <2>3
  <2> QED BY <2>3, <2>4 DEF TypeOK
<1> QED BY <1>1, <1>2, <1>3

\* Looking a stream up finds one or makes one.
LEMMA LookupTypes ==
  ASSUME TypeOK, Lookup
  PROVE  created' \in 0..MaxStreams /\ current' \in 0..created' /\ current' \in Streams
BY CapacityAssumption DEF TypeOK, Lookup, Streams

\* Every step keeps the types, and the streams that calls hold exist.
LEMMA PublishTypes ==
  ASSUME TypeInv, NEW p \in Publishers, PublishStep(p)
  PROVE  TypeInv'
<1>1. TypeOK /\ CallInv /\ pub \in [Publishers -> PublisherState] /\ pub[p] \in PublisherState
  BY DEF TypeInv, TypeOK
<1>2. CASE PublishLookup(p)
  <2>1. PICK ends \in BOOLEAN :
          /\ decided' = (decided \/ ends)
          /\ pub' = [pub EXCEPT ![p] = [pc |-> "append", stream |-> current', ends |-> ends, wake |-> {}]]
    BY <1>2 DEF PublishLookup
  <2>2. created' \in 0..MaxStreams /\ current' \in 0..created' /\ current' \in Streams
    BY <1>1, <1>2, LookupTypes DEF PublishLookup
  <2>3. [pc |-> "append", stream |-> current', ends |-> ends, wake |-> {}] \in PublisherState
    BY <2>2, CapacityAssumption DEF PublisherState, Streams
  <2>4. decided' \in BOOLEAN
    BY <2>1
  <2>5. TypeOK'
    BY <1>1, <1>2, <2>1, <2>2, <2>3, <2>4 DEF PublishLookup, TypeOK
  <2>6. CallInv'
    BY <1>1, <1>2, <2>1, <2>2 DEF PublishLookup, CallInv
  <2> QED BY <2>5, <2>6 DEF TypeInv
<1>3. CASE PublishAppend(p)
  <2> DEFINE o == pub[p].stream
  <2>1. o \in Streams /\ pub[p].pc = "append"
    BY <1>1, <1>3 DEF PublishAppend, CallInv
  <2>2. CASE o \in terminal
    <3>1. Resting \in PublisherState
      BY CapacityAssumption DEF PublisherState, Resting
    <3>2. pub' = [pub EXCEPT ![p] = Resting]
          /\ UNCHANGED <<sequence, terminal, queue, closed, overflowed, draining>>
      BY <1>3, <2>2 DEF PublishAppend
    <3>3. TypeOK'
      BY <1>1, <1>3, <3>1, <3>2 DEF PublishAppend, TypeOK
    <3>4. CallInv'
      BY <1>1, <1>3, <3>2 DEF PublishAppend, CallInv, Resting
    <3> QED BY <3>3, <3>4 DEF TypeInv
  <2>3. CASE o \notin terminal
    <3>1. /\ sequence[o] < MaxEvents /\ sequence' = [sequence EXCEPT ![o] = @ + 1]
          /\ terminal' \in {terminal, terminal \cup {o}} /\ Offer(attached[o], sequence[o] + 1)
          /\ pub' = [pub EXCEPT ![p].pc = "wake", ![p].wake = attached[o]]
      BY <1>3, <2>3 DEF PublishAppend
    <3>2. sequence[o] \in 0..MaxEvents /\ sequence[o] + 1 \in Events /\ attached[o] \in SUBSET Subscribers
      BY <1>1, <2>1, <3>1, CapacityAssumption DEF TypeOK, Events
    <3>3. /\ queue' \in [Subscribers -> Seq(Events)] /\ \A s \in Subscribers : Len(queue'[s]) <= SubscriberCapacity
          /\ overflowed' \subseteq closed' /\ closed' \subseteq Subscribers
      BY <1>1, <3>1, <3>2, OfferTypes
    <3>4. /\ pub' = [pub EXCEPT ![p] = [@ EXCEPT !.pc = "wake", !.wake = attached[o]]]
          /\ [pub[p] EXCEPT !.pc = "wake", !.wake = attached[o]] \in PublisherState
      BY <1>1, <3>1, <3>2 DEF PublisherState
    <3>5. sequence' \in [Streams -> 0..MaxEvents] /\ terminal' \subseteq Streams
      BY <1>1, <2>1, <3>1, <3>2 DEF TypeOK, Events
    <3>6. TypeOK'
      BY <1>1, <1>3, <3>3, <3>4, <3>5 DEF PublishAppend, TypeOK
    <3>7. CallInv'
      BY <1>1, <1>3, <2>1, <3>4 DEF PublishAppend, CallInv, PublisherState
    <3> QED BY <3>6, <3>7 DEF TypeInv
  <2> QED BY <2>2, <2>3
<1>4. CASE PublishWake(p)
  <2>1. UNCHANGED <<known, decided, current, created, sequence, terminal, sub, streamOf, pool, received, sse>>
        /\ pub[p].pc = "wake"
    BY <1>4 DEF PublishWake
  <2>2. CASE \E s \in pub[p].wake : ScheduleDrain(s) /\ pub' = [pub EXCEPT ![p].wake = @ \ {s}]
    <3>1. PICK s \in pub[p].wake : ScheduleDrain(s) /\ pub' = [pub EXCEPT ![p].wake = @ \ {s}]
      BY <2>2
    <3>2. s \in Subscribers
      BY <1>1, <3>1 DEF PublisherState
    <3>3. pub' \in [Publishers -> PublisherState] /\ pub'[p].pc = "wake" /\ pub'[p].stream = pub[p].stream
          /\ \A q \in Publishers : q # p => pub'[q] = pub[q]
      BY <1>1, <2>1, <3>1, <3>2 DEF PublisherState
    <3>4. TypeOK'
      BY <1>1, <2>1, <3>1, <3>2, <3>3, ScheduleTypes DEF TypeOK
    <3>5. CallInv'
      BY <1>1, <2>1, <3>3 DEF CallInv
    <3> QED BY <3>4, <3>5 DEF TypeInv
  <2>3. CASE pub' = [pub EXCEPT ![p] = Resting]
             /\ UNCHANGED <<queue, draining, closed, overflowed, attached, jobs>>
    <3>1. Resting \in PublisherState
      BY CapacityAssumption DEF PublisherState, Resting
    <3>2. TypeOK'
      BY <1>1, <2>1, <2>3, <3>1 DEF TypeOK
    <3>3. CallInv'
      BY <1>1, <2>1, <2>3 DEF CallInv, Resting
    <3> QED BY <3>2, <3>3 DEF TypeInv
  <2> QED BY <1>4, <2>2, <2>3 DEF PublishWake
<1> QED BY <1>2, <1>3, <1>4 DEF PublishStep

LEMMA RemovalTypes ==
  ASSUME TypeInv, Evict \/ RemoveTask
  PROVE  TypeInv'
<1>1. TypeOK /\ CallInv
  BY DEF TypeInv
<1>2. CASE Evict
  BY <1>1, <1>2 DEF Evict, TypeInv, TypeOK, CallInv
<1>3. CASE RemoveTask
  <2>1. current \in Streams
    BY <1>1, <1>3, CapacityAssumption DEF RemoveTask, TypeOK, Streams
  <2>2. attached[current] \in SUBSET Subscribers /\ Close(attached[current])
    BY <1>1, <1>3, <2>1 DEF RemoveTask, TypeOK
  <2>3. 0 \in 0..created
    BY <1>1, CapacityAssumption DEF TypeOK
  <2>4. TypeOK'
    BY <1>1, <1>3, <2>2, <2>3, CloseTypes DEF RemoveTask, TypeOK
  <2>5. CallInv'
    BY <1>1, <1>3 DEF RemoveTask, CallInv
  <2> QED BY <2>4, <2>5 DEF TypeInv
<1> QED BY <1>2, <1>3

LEMMA SubscribeTypes ==
  ASSUME TypeInv, NEW s \in Subscribers, SubscribeStep(s) \/ Disconnect(s)
  PROVE  TypeInv'
<1>1. TypeOK /\ CallInv
  BY DEF TypeInv
<1>2. CASE SubscribeCheck(s)
  <2>1. sub' = [sub EXCEPT ![s] = IF known THEN "lookup" ELSE "refused"]
        /\ UNCHANGED <<known, decided, streamVars, pub, streamOf, queueVars, deliveryVars>>
    BY <1>2 DEF SubscribeCheck, SubscriberGoes
  <2>2. TypeOK'
    BY <1>1, <2>1 DEF TypeOK
  <2>3. CallInv'
    BY <1>1, <2>1 DEF CallInv, TypeOK
  <2> QED BY <2>2, <2>3 DEF TypeInv
<1>3. CASE SubscribeLookup(s)
  <2>1. created' \in 0..MaxStreams /\ current' \in 0..created' /\ current' \in Streams
    BY <1>1, <1>3, LookupTypes DEF SubscribeLookup
  <2>2. sub' = [sub EXCEPT ![s] = "attach"] /\ streamOf' = [streamOf EXCEPT ![s] = current']
        /\ current' \in 0..MaxStreams
    BY <1>3, <2>1, CapacityAssumption DEF SubscribeLookup, SubscriberGoes, Streams
  <2>3. TypeOK'
    BY <1>1, <1>3, <2>1, <2>2 DEF SubscribeLookup, TypeOK
  <2>4. CallInv'
    BY <1>1, <1>3, <2>1, <2>2 DEF SubscribeLookup, CallInv, TypeOK
  <2> QED BY <2>3, <2>4 DEF TypeInv
<1>4. CASE SubscribeAttach(s)
  <2> DEFINE o == streamOf[s]
             n == Smaller(Len(Replay(o)), SubscriberCapacity)
  <2>1. o \in Streams /\ sub' = [sub EXCEPT ![s] = "wake"] /\ sub[s] = "attach"
    BY <1>1, <1>4 DEF SubscribeAttach, SubscriberGoes, CallInv
  <2>2. n \in 0..Len(Replay(o)) /\ n <= SubscriberCapacity
    BY <1>1, <2>1, ReplayEvents, CapacityAssumption DEF Smaller
  <2>3. SubSeq(Replay(o), 1, n) \in Seq(Events) /\ Len(SubSeq(Replay(o), 1, n)) <= SubscriberCapacity
    BY <1>1, <2>1, <2>2, ReplayEvents
  <2>4. queue' = [queue EXCEPT ![s] = SubSeq(Replay(o), 1, n)]
        /\ attached' = [attached EXCEPT ![o] = @ \cup {s}]
    BY <1>4 DEF SubscribeAttach
  <2>5. overflowed' \subseteq closed' /\ closed' \subseteq Subscribers
    BY <1>1, <1>4 DEF SubscribeAttach, TypeOK
  <2>6. UNCHANGED <<known, decided, current, created, sequence, terminal, pub, streamOf, draining, deliveryVars>>
    BY <1>4 DEF SubscribeAttach
  <2> HIDE DEF o, n
  <2>7. queue' \in [Subscribers -> Seq(Events)] /\ \A u \in Subscribers : Len(queue'[u]) <= SubscriberCapacity
    BY <1>1, <2>3, <2>4 DEF TypeOK
  <2>8. attached' \in [Streams -> SUBSET Subscribers]
    BY <1>1, <2>4 DEF TypeOK
  <2>9. TypeOK'
    BY <1>1, <2>1, <2>5, <2>6, <2>7, <2>8 DEF TypeOK
  <2>10. CallInv'
    BY <1>1, <2>1, <2>6 DEF CallInv, TypeOK
  <2> QED BY <2>9, <2>10 DEF TypeInv
<1>5. CASE SubscribeWake(s)
  <2>1. sub' = [sub EXCEPT ![s] = "return"] /\ sub[s] = "wake" /\ ScheduleDrain(s)
        /\ UNCHANGED <<known, decided, current, created, sequence, terminal, pub, streamOf, pool, received, sse>>
    BY <1>5 DEF SubscribeWake, SubscriberGoes
  <2>2. TypeOK'
    BY <1>1, <2>1, ScheduleTypes DEF TypeOK
  <2>3. CallInv'
    BY <1>1, <2>1 DEF CallInv, TypeOK
  <2> QED BY <2>2, <2>3 DEF TypeInv
<1>6. CASE SubscribeReturn(s)
  <2>1. sub' = [sub EXCEPT ![s] = "open"] /\ sub[s] = "return"
        /\ UNCHANGED <<known, decided, current, created, sequence, terminal, pub, streamOf, draining, deliveryVars>>
    BY <1>6 DEF SubscribeReturn, SubscriberGoes
  <2>2. Close({s}) \/ UNCHANGED <<queue, closed, overflowed, attached>>
    BY <1>6 DEF SubscribeReturn
  <2>3. TypeOK'
    BY <1>1, <2>1, <2>2, CloseTypes DEF TypeOK
  <2>4. CallInv'
    BY <1>1, <2>1 DEF CallInv, TypeOK
  <2> QED BY <2>3, <2>4 DEF TypeInv
<1>7. CASE Disconnect(s)
  <2>1. Close({s}) /\ sse' = [sse EXCEPT ![s] = "gone"]
    BY <1>7 DEF Disconnect
  <2>2. TypeOK'
    BY <1>1, <1>7, <2>1, CloseTypes DEF Disconnect, TypeOK
  <2>3. CallInv'
    BY <1>1, <1>7 DEF Disconnect, CallInv
  <2> QED BY <2>2, <2>3 DEF TypeInv
<1> QED BY <1>2, <1>3, <1>4, <1>5, <1>6, <1>7 DEF SubscribeStep

LEMMA DeliveryTypes ==
  ASSUME TypeInv, NEW w \in Threads, DeliveryStep(w)
  PROVE  TypeInv'
<1>1. TypeOK /\ CallInv /\ pool \in [Threads -> ThreadState] /\ pool[w] \in ThreadState
  BY DEF TypeInv, TypeOK
<1> DEFINE s == pool[w].sub
<1>2. s \in Subscribers /\ queue[s] \in Seq(Events)
  BY <1>1 DEF ThreadState, TypeOK
<1>3. CASE Take(w)
  <2>1. /\ jobs # <<>> /\ jobs' = Tail(jobs) /\ jobs \in Seq(Subscribers) /\ Len(jobs) \in Nat
        /\ pool' = [pool EXCEPT ![w] = [pc |-> "poll", sub |-> Head(jobs), event |-> 0]]
    BY <1>1, <1>3 DEF Take, TypeOK
  <2>2. Head(jobs) \in Subscribers /\ Tail(jobs) \in Seq(Subscribers) /\ Len(Tail(jobs)) = Len(jobs) - 1
    BY <2>1, TailElements
  <2>3. [pc |-> "poll", sub |-> Head(jobs), event |-> 0] \in ThreadState
    BY <2>2, CapacityAssumption DEF ThreadState
  <2>4. Len(jobs') <= QueueCapacity
    BY <1>1, <2>1, <2>2, CapacityAssumption DEF TypeOK
  <2>5. TypeOK'
    BY <1>1, <1>3, <2>1, <2>2, <2>3, <2>4 DEF Take, TypeOK
  <2>6. CallInv'
    BY <1>1, <1>3, <2>1 DEF Take, CallInv
  <2> QED BY <2>5, <2>6 DEF TypeInv
<1>4. CASE Poll(w) /\ queue[s] = <<>>
  <2>1. pool' = [pool EXCEPT ![w].pc = "finally"] /\ draining' = draining \ {s} /\ UNCHANGED queue
    BY <1>4 DEF Poll
  <2>2. pool' \in [Threads -> ThreadState] /\ pool'[w].pc = "finally" /\ \A v \in Threads : v # w => pool'[v] = pool[v]
    BY <1>1, <2>1 DEF ThreadState
  <2>3. TypeOK'
    BY <1>1, <1>4, <2>1, <2>2 DEF Poll, TypeOK
  <2>4. CallInv'
    BY <1>1, <1>4, <2>2 DEF Poll, CallInv
  <2> QED BY <2>3, <2>4 DEF TypeInv
<1>5. CASE Poll(w) /\ queue[s] # <<>>
  <2>1. /\ pool' = [pool EXCEPT ![w].pc = "send", ![w].event = Head(queue[s])]
        /\ queue' = [queue EXCEPT ![s] = Tail(@)] /\ UNCHANGED draining
    BY <1>5 DEF Poll
  <2>2. /\ Head(queue[s]) \in Events /\ Tail(queue[s]) \in Seq(Events) /\ Len(queue[s]) \in Nat
        /\ Len(Tail(queue[s])) = Len(queue[s]) - 1
    BY <1>2, <1>5, TailElements
  <2>3. Head(queue[s]) \in 0..MaxEvents
    BY <2>2, CapacityAssumption DEF Events
  <2>4. /\ pool' = [pool EXCEPT ![w] = [@ EXCEPT !.pc = "send", !.event = Head(queue[s])]]
        /\ [pool[w] EXCEPT !.pc = "send", !.event = Head(queue[s])] \in ThreadState
    BY <1>1, <2>1, <2>3 DEF ThreadState
  <2>5. Len(Tail(queue[s])) <= SubscriberCapacity
    BY <1>1, <1>2, <2>2, CapacityAssumption DEF TypeOK
  <2>6. queue' \in [Subscribers -> Seq(Events)] /\ \A u \in Subscribers : Len(queue'[u]) <= SubscriberCapacity
    BY <1>1, <1>2, <2>1, <2>2, <2>5 DEF TypeOK
  <2>7. TypeOK'
    BY <1>1, <1>5, <2>1, <2>4, <2>6 DEF Poll, TypeOK
  <2>8. CallInv'
    BY <1>1, <1>5, <2>2, <2>4 DEF Poll, CallInv, ThreadState
  <2> QED BY <2>7, <2>8 DEF TypeInv
<1>6. CASE Send(w)
  <2> DEFINE e == pool[w].event
  <2>1. e \in Events /\ pool[w].pc = "send"
    BY <1>1, <1>6 DEF Send, CallInv
  <2>2. /\ received' = received \/ received' = [received EXCEPT ![s] = Append(received[s], e)]
        /\ sse' \in {sse, [sse EXCEPT ![s] = "complete"]}
        /\ Close({s}) \/ UNCHANGED <<queue, closed, overflowed, attached>>
        /\ pool' = [pool EXCEPT ![w].pc = "poll", ![w].event = 0]
        /\ UNCHANGED <<known, decided, current, created, sequence, terminal, pub, sub, streamOf, draining, jobs>>
    BY <1>6 DEF Send
  <2>3. received[s] \in Seq(Events) /\ Append(received[s], e) \in Seq(Events)
    BY <1>1, <1>2, <2>1, AppendElements DEF TypeOK
  <2>4. received' \in [Subscribers -> Seq(Events)]
    <3>1. received \in [Subscribers -> Seq(Events)]
      BY <1>1 DEF TypeOK
    <3>2. CASE received' = received
      BY <3>1, <3>2
    <3>3. CASE received' = [received EXCEPT ![s] = Append(received[s], e)]
      <4> HIDE DEF s, e
      <4> QED BY <2>3, <3>1, <3>3
    <3> QED BY <2>2, <3>2, <3>3
  <2>5. sse' \in [Subscribers -> {"open", "complete", "gone"}]
    BY <1>1, <1>2, <2>2 DEF TypeOK
  <2>6. /\ pool' = [pool EXCEPT ![w] = [@ EXCEPT !.pc = "poll", !.event = 0]]
        /\ [pool[w] EXCEPT !.pc = "poll", !.event = 0] \in ThreadState
    <3>1. 0 \in 0..MaxEvents
      BY CapacityAssumption
    <3>2. pool' = [pool EXCEPT ![w] = [@ EXCEPT !.pc = "poll", !.event = 0]]
      BY <1>1, <2>2 DEF ThreadState
    <3> QED BY <1>1, <3>1, <3>2 DEF ThreadState
  <2>7. TypeOK'
    <3>1. /\ queue' \in [Subscribers -> Seq(Events)] /\ \A u \in Subscribers : Len(queue'[u]) <= SubscriberCapacity
          /\ attached' \in [Streams -> SUBSET Subscribers]
          /\ overflowed' \subseteq closed' /\ closed' \subseteq Subscribers
      <4>1. CASE Close({s})
        BY <1>1, <1>2, <4>1, CloseTypes
      <4>2. CASE UNCHANGED <<queue, closed, overflowed, attached>>
        BY <1>1, <4>2 DEF TypeOK
      <4> QED BY <2>2, <4>1, <4>2
    <3>2. pool' \in [Threads -> ThreadState]
      BY <1>1, <2>6
    <3> QED BY <1>1, <2>2, <2>4, <2>5, <3>1, <3>2 DEF TypeOK
  <2>8. CallInv'
    BY <1>1, <2>2, <2>6 DEF CallInv, ThreadState
  <2> QED BY <2>7, <2>8 DEF TypeInv
<1>7. CASE DrainEnds(w)
  <2>1. Asleep \in ThreadState
    BY CapacityAssumption DEF Asleep, ThreadState
  <2>2. pool' = [pool EXCEPT ![w] = Asleep] /\ draining' = draining \ {s}
    BY <1>7 DEF DrainEnds
  <2>3. TypeOK'
    BY <1>1, <1>7, <2>1, <2>2 DEF DrainEnds, TypeOK
  <2>4. CallInv'
    BY <1>1, <1>7, <2>2 DEF DrainEnds, CallInv, Asleep
  <2> QED BY <2>3, <2>4 DEF TypeInv
<1> QED BY <1>3, <1>4, <1>5, <1>6, <1>7 DEF DeliveryStep

LEMMA TypeStart == Init => TypeInv
<1> SUFFICES ASSUME Init PROVE TypeInv
  OBVIOUS
<1> USE CapacityAssumption DEF Init
<1>1. Resting \in PublisherState /\ Asleep \in ThreadState
  BY DEF Resting, Asleep, PublisherState, ThreadState
<1>2. /\ <<>> \in Seq(Events) /\ Len(<<>>) = 0 /\ <<>> \in Seq(Subscribers)
      /\ SubscriberCapacity \in Nat /\ QueueCapacity \in Nat
  OBVIOUS
<1>3. known \in BOOLEAN /\ decided \in BOOLEAN
  OBVIOUS
<1>4. created \in 0..MaxStreams /\ current \in 0..created /\ sequence \in [Streams -> 0..MaxEvents]
      /\ streamOf \in [Subscribers -> 0..MaxStreams]
  OBVIOUS
<1>5. queue \in [Subscribers -> Seq(Events)] /\ received \in [Subscribers -> Seq(Events)]
      /\ \A s \in Subscribers : Len(queue[s]) <= SubscriberCapacity
  BY <1>2
<1>6. jobs \in Seq(Subscribers) /\ Len(jobs) <= QueueCapacity
  BY <1>2
<1>7. TypeOK
  BY <1>1, <1>3, <1>4, <1>5, <1>6 DEF TypeOK
<1>8. CallInv
  BY DEF CallInv, Resting, Asleep
<1> QED BY <1>7, <1>8 DEF TypeInv

LEMMA TypeStep == TypeInv /\ [Next]_vars => TypeInv'
<1> SUFFICES ASSUME TypeInv, [Next]_vars PROVE TypeInv'
  OBVIOUS
<1>1. CASE UNCHANGED vars
  BY <1>1 DEF TypeInv, TypeOK, CallInv
<1> QED BY <1>1, PublishTypes, RemovalTypes, SubscribeTypes, DeliveryTypes DEF Next
-----------------------------------------------------------------------------
(* No queued event is forgotten.                                           *)

\* A subscription that is over and was emptied, or overflowed, asks for nothing.
LEMMA ClosedKept ==
  ASSUME NEW s \in Subscribers, s \in closed', s \in overflowed' \/ queue'[s] = <<>>, sub'[s] \notin Unjoined,
         \A o \in Streams : s \in attached'[o] => streamOf'[s] = o
  PROVE  SubscriberInv(s)'
BY DEF SubscriberInv, Drained

\* What another thread did to a subscriber: at most it has been given more jobs.
LEMMA Undisturbed ==
  ASSUME NEW s \in Subscribers, SubscriberInv(s),
         sub'[s] = sub[s], streamOf'[s] = streamOf[s], queue'[s] = queue[s], received'[s] = received[s],
         s \in closed' <=> s \in closed, s \in overflowed' <=> s \in overflowed,
         s \in draining' => s \in draining,
         \A o \in Streams : s \in attached'[o] => s \in attached[o],
         \A p \in Publishers : s \in pub'[p].wake <=> s \in pub[p].wake,
         \A i \in DOMAIN jobs' : jobs'[i] = s => \E j \in DOMAIN jobs : jobs[j] = s,
         \A w \in Threads : pool'[w].pc # "idle" /\ pool'[w].sub = s => pool[w].pc # "idle" /\ pool[w].sub = s,
         Served(s) => Served(s)'
  PROVE  SubscriberInv(s)'
<1>1. Drained(s)'
  BY DEF SubscriberInv, Drained
<1>2. sub'[s] \in Unjoined => Absent(s)'
  BY DEF SubscriberInv, Absent
<1> QED BY <1>1, <1>2 DEF SubscriberInv

\* Whoever waits, is served or has joined a stream is no longer unjoined.
LEMMA JoinedOnes ==
  ASSUME NEW s \in Subscribers, SubscriberInv(s),
         \/ s \in closed \/ queue[s] # <<>> \/ (\E o \in Streams : s \in attached[o])
         \/ (\E p \in Publishers : s \in pub[p].wake)
         \/ (\E i \in DOMAIN jobs : jobs[i] = s) \/ (\E w \in Threads : pool[w].pc # "idle" /\ pool[w].sub = s)
  PROVE  sub[s] \notin Unjoined
BY DEF SubscriberInv, Absent

\* Closing subscriptions.
LEMMA ClosingDelivers ==
  ASSUME DeliveryInv, NEW S \in SUBSET Subscribers, Close(S), \A s \in S : sub'[s] \notin Unjoined,
         UNCHANGED <<pub, streamOf, jobs, draining>>,
         \A s \in Subscribers \ S : sub'[s] = sub[s] /\ received'[s] = received[s],
         \A s \in Subscribers : sub[s] \notin Unjoined => sub'[s] \notin Unjoined,
         \A w \in Threads : pool'[w].pc \in {"poll", "send"} <=> pool[w].pc \in {"poll", "send"},
         \A w \in Threads : pool'[w].sub = pool[w].sub /\ (pool'[w].pc # "idle" => pool[w].pc # "idle")
  PROVE  \A s \in Subscribers : SubscriberInv(s)'
<1> SUFFICES ASSUME NEW s \in Subscribers PROVE SubscriberInv(s)'
  OBVIOUS
<1>1. TypeOK /\ SubscriberInv(s)
  BY DEF DeliveryInv, TypeInv
<1>2. \A o \in Streams : s \in attached'[o] => s \in attached[o]
  BY <1>1 DEF Close, TypeOK
<1>3. \A o \in Streams : s \in attached'[o] => streamOf'[s] = o
  BY <1>1, <1>2 DEF SubscriberInv
<1>4. CASE s \in closed'
  <2>1. s \in overflowed' \/ queue'[s] = <<>>
    BY <1>1, <1>4 DEF Close, SubscriberInv, Drained
  <2>2. sub'[s] \notin Unjoined
    BY <1>1, <1>4, JoinedOnes DEF Close
  <2> QED BY <1>3, <1>4, <2>1, <2>2, ClosedKept
<1>5. CASE s \notin closed'
  <2>1. s \notin S /\ s \notin closed /\ queue'[s] = queue[s] /\ (s \in overflowed' <=> s \in overflowed)
    BY <1>1, <1>5 DEF Close, TypeOK
  <2>2. Served(s) => Served(s)'
    BY DEF Served
  <2> QED BY <1>1, <1>2, <1>5, <2>1, <2>2, Undisturbed
<1> QED BY <1>4, <1>5

\* Scheduling a drain: from then on the subscriber is served or closed.
LEMMA SchedulingDelivers ==
  ASSUME DeliveryInv, NEW s \in Subscribers, ScheduleDrain(s), sub[s] \notin Unjoined, sub'[s] \notin Unjoined,
         UNCHANGED <<streamOf, pool, received>>,
         \A u \in Subscribers : u # s => sub'[u] = sub[u],
         \A u \in Subscribers : u # s => \A p \in Publishers : u \in pub'[p].wake <=> u \in pub[p].wake
  PROVE  \A u \in Subscribers : SubscriberInv(u)'
<1>1. TypeOK /\ SubscriberInv(s) /\ jobs \in Seq(Subscribers)
  BY DEF DeliveryInv, TypeInv, TypeOK
<1>2. \A o \in Streams : \A u \in Subscribers : u \in attached'[o] => u \in attached[o]
  BY <1>1 DEF ScheduleDrain, Close, TypeOK
<1>3. jobs' = jobs \/ jobs' = Append(jobs, s)
  BY DEF ScheduleDrain
<1>4. /\ \A i \in DOMAIN jobs : i \in DOMAIN jobs' /\ jobs'[i] = jobs[i]
      /\ \A i \in DOMAIN jobs' : jobs'[i] = s \/ (i \in DOMAIN jobs /\ jobs[i] = jobs'[i])
  BY <1>1, <1>3, AppendElements
<1>5. ASSUME NEW u \in Subscribers, u # s PROVE SubscriberInv(u)'
  <2>1. /\ queue'[u] = queue[u] /\ (u \in closed' <=> u \in closed) /\ (u \in overflowed' <=> u \in overflowed)
        /\ (u \in draining' <=> u \in draining)
    BY <1>1, <1>5 DEF ScheduleDrain, Close, TypeOK
  <2>2. Served(u) => Served(u)'
    BY <1>4 DEF Served
  <2>3. SubscriberInv(u)
    BY DEF DeliveryInv
  <2> QED BY <1>2, <1>4, <1>5, <2>1, <2>2, <2>3, Undisturbed
<1>6. SubscriberInv(s)'
  <2>1. \A o \in Streams : s \in attached'[o] => streamOf'[s] = o
    BY <1>1, <1>2 DEF SubscriberInv
  <2>2. CASE s \in closed'
    <3>1. s \in overflowed' \/ queue'[s] = <<>>
      BY <1>1, <2>2 DEF ScheduleDrain, Close, SubscriberInv, Drained
    <3> QED BY <2>1, <2>2, <3>1, ClosedKept
  <2>3. CASE s \notin closed'
    <3>1. s \notin closed /\ queue' = queue
      BY <2>3 DEF ScheduleDrain, Close
    <3>2. CASE s \in draining
      <4>1. Served(s)
        BY <1>1, <3>1, <3>2 DEF SubscriberInv, Drained
      <4>2. Served(s)'
        BY <1>4, <4>1 DEF Served
      <4> QED BY <2>1, <2>3, <4>2 DEF SubscriberInv, Drained
    <3>3. CASE s \notin draining
      <4>1. jobs' = Append(jobs, s)
        BY <2>3, <3>3 DEF ScheduleDrain, Close
      <4>2. Len(jobs) + 1 \in DOMAIN jobs' /\ jobs'[Len(jobs) + 1] = s
        BY <1>1, <4>1, AppendElements
      <4>3. Served(s)'
        BY <4>2 DEF Served
      <4> QED BY <2>1, <2>3, <4>3 DEF SubscriberInv, Drained
    <3> QED BY <3>2, <3>3
  <2> QED BY <2>2, <2>3
<1> QED BY <1>5, <1>6

\* Publishing an event: who gets it is about to be woken.
LEMMA PublishDelivers ==
  ASSUME DeliveryInv, NEW p \in Publishers, PublishStep(p)
  PROVE  \A s \in Subscribers : SubscriberInv(s)'
<1>1. TypeOK /\ CallInv /\ pub \in [Publishers -> PublisherState] /\ \A s \in Subscribers : SubscriberInv(s)
  BY DEF DeliveryInv, TypeInv, TypeOK
<1>2. CASE /\ UNCHANGED <<attached, sub, streamOf, queue, draining, closed, overflowed, pool, jobs, received>>
           /\ \A q \in Publishers : pub'[q].wake = pub[q].wake
  <2>1. \A s \in Subscribers : Served(s) => Served(s)'
    BY <1>2 DEF Served
  <2> QED BY <1>1, <1>2, <2>1, Undisturbed
<1>3. CASE PublishLookup(p)
  <2>1. \A q \in Publishers : pub'[q].wake = pub[q].wake
    <3>1. PICK ends \in BOOLEAN :
            pub' = [pub EXCEPT ![p] = [pc |-> "append", stream |-> current', ends |-> ends, wake |-> {}]]
      BY <1>3 DEF PublishLookup
    <3>2. pub[p].wake = {}
      BY <1>1, <1>3 DEF PublishLookup, CallInv
    <3> QED BY <1>1, <3>1, <3>2
  <2> QED BY <1>2, <1>3, <2>1 DEF PublishLookup
<1>4. CASE PublishAppend(p) /\ pub[p].stream \in terminal
  <2>1. \A q \in Publishers : pub'[q].wake = pub[q].wake
    <3>1. pub[p].wake = {} /\ pub' = [pub EXCEPT ![p] = Resting]
      BY <1>1, <1>4 DEF PublishAppend, CallInv
    <3> QED BY <1>1, <3>1 DEF Resting
  <2> QED BY <1>2, <1>4, <2>1 DEF PublishAppend
<1>5. CASE PublishAppend(p) /\ pub[p].stream \notin terminal
  <2> DEFINE o == pub[p].stream
             e == sequence[o] + 1
  <2>1. /\ o \in Streams /\ Offer(attached[o], e) /\ sequence[o] < MaxEvents
        /\ pub' = [pub EXCEPT ![p].pc = "wake", ![p].wake = attached[o]]
        /\ UNCHANGED <<attached, sub, streamOf, draining, pool, jobs, received>>
    BY <1>1, <1>5 DEF PublishAppend, CallInv
  <2>2. e \in Events /\ attached[o] \subseteq Subscribers
    BY <1>1, <2>1, CapacityAssumption DEF TypeOK, Events
  <2>3. /\ pub[p].wake = {} /\ pub'[p].wake = attached[o]
        /\ \A q \in Publishers : q # p => pub'[q] = pub[q]
    BY <1>1, <1>5, <2>1 DEF PublishAppend, CallInv, PublisherState
  <2> HIDE DEF o, e
  <2> SUFFICES ASSUME NEW s \in Subscribers PROVE SubscriberInv(s)'
    OBVIOUS
  <2>4. Served(s) => Served(s)'
    BY <2>1 DEF Served
  <2>5. CASE s \in closed'
    <3>1. s \in overflowed' \/ queue'[s] = <<>>
      BY <1>1, <2>1, <2>5 DEF Offer, SubscriberInv, Drained
    <3>2. sub'[s] \notin Unjoined
      BY <1>1, <2>1, <2>5, JoinedOnes DEF Offer
    <3> QED BY <1>1, <2>1, <2>5, <3>1, <3>2, ClosedKept DEF SubscriberInv
  <2>6. CASE s \notin closed' /\ s \notin attached[o]
    <3>1. queue'[s] = queue[s] /\ s \notin closed /\ (s \in overflowed' <=> s \in overflowed)
      BY <2>1, <2>6 DEF Offer
    <3>2. \A q \in Publishers : s \in pub'[q].wake <=> s \in pub[q].wake
      BY <2>3, <2>6
    <3> QED BY <1>1, <2>1, <2>4, <2>6, <3>1, <3>2, Undisturbed
  <2>7. CASE s \notin closed' /\ s \in attached[o]
    <3>1. s \notin closed /\ s \in pub'[p].wake
      BY <2>1, <2>3, <2>7 DEF Offer
    <3>2. sub'[s] \notin Unjoined
      BY <1>1, <2>1, <2>7, JoinedOnes
    <3> QED BY <1>1, <2>1, <2>4, <2>7, <3>1, <3>2 DEF SubscriberInv, Drained
  <2> QED BY <2>5, <2>6, <2>7
<1>6. CASE PublishWake(p)
  <2>1. UNCHANGED <<sub, streamOf, pool, received>> /\ pub[p].pc = "wake"
    BY <1>6 DEF PublishWake
  <2>2. CASE \E s \in pub[p].wake : ScheduleDrain(s) /\ pub' = [pub EXCEPT ![p].wake = @ \ {s}]
    <3>1. PICK s \in pub[p].wake : ScheduleDrain(s) /\ pub' = [pub EXCEPT ![p].wake = @ \ {s}]
      BY <2>2
    <3>2. s \in Subscribers
      BY <1>1, <3>1 DEF PublisherState
    <3>3. sub[s] \notin Unjoined
      BY <1>1, <3>1, <3>2, JoinedOnes
    <3>4. \A u \in Subscribers : u # s => \A q \in Publishers : u \in pub'[q].wake <=> u \in pub[q].wake
      BY <1>1, <3>1 DEF PublisherState
    <3> QED BY <2>1, <3>1, <3>2, <3>3, <3>4, SchedulingDelivers
  <2>3. CASE pub[p].wake = {} /\ pub' = [pub EXCEPT ![p] = Resting]
             /\ UNCHANGED <<queue, draining, closed, overflowed, attached, jobs>>
    <3>1. \A q \in Publishers : pub'[q].wake = pub[q].wake
      BY <1>1, <2>3 DEF Resting
    <3> QED BY <1>2, <2>1, <2>3, <3>1
  <2> QED BY <1>6, <2>2, <2>3 DEF PublishWake
<1> QED BY <1>3, <1>4, <1>5, <1>6 DEF PublishStep

\* Evicting the task.
LEMMA RemovalDelivers ==
  ASSUME DeliveryInv, Evict \/ RemoveTask
  PROVE  \A s \in Subscribers : SubscriberInv(s)'
<1>1. TypeOK /\ \A s \in Subscribers : SubscriberInv(s)
  BY DEF DeliveryInv, TypeInv
<1>2. CASE Evict
  <2>1. \A s \in Subscribers : Served(s) => Served(s)'
    BY <1>2 DEF Evict, Served
  <2> QED BY <1>1, <1>2, <2>1, Undisturbed DEF Evict
<1>3. CASE RemoveTask
  <2>1. current \in Streams
    BY <1>1, <1>3, CapacityAssumption DEF RemoveTask, TypeOK, Streams
  <2>2. attached[current] \in SUBSET Subscribers /\ Close(attached[current])
    BY <1>1, <1>3, <2>1 DEF RemoveTask, TypeOK
  <2>3. \A s \in attached[current] : sub[s] \notin Unjoined
    BY <1>1, <2>1, <2>2, JoinedOnes
  <2>4. UNCHANGED <<pub, sub, streamOf, jobs, draining, pool, received>>
    BY <1>3 DEF RemoveTask
  <2> QED BY <2>2, <2>3, <2>4, ClosingDelivers
<1> QED BY <1>2, <1>3

\* Subscribing.
LEMMA SubscribeDelivers ==
  ASSUME DeliveryInv, NEW s \in Subscribers, SubscribeStep(s) \/ Disconnect(s)
  PROVE  \A u \in Subscribers : SubscriberInv(u)'
<1>1. TypeOK /\ CallInv /\ \A u \in Subscribers : SubscriberInv(u)
  BY DEF DeliveryInv, TypeInv
<1>2. CASE SubscribeCheck(s) \/ SubscribeLookup(s)
  <2>1. /\ UNCHANGED <<attached, pub, queue, draining, closed, overflowed, pool, jobs, received>>
        /\ sub[s] \in Unjoined /\ sub'[s] \in Unjoined
        /\ \A u \in Subscribers : u # s => sub'[u] = sub[u] /\ streamOf'[u] = streamOf[u]
    BY <1>1, <1>2 DEF SubscribeCheck, SubscribeLookup, SubscriberGoes, Unjoined, TypeOK
  <2>2. \A u \in Subscribers : Served(u) => Served(u)'
    BY <2>1 DEF Served
  <2>3. ASSUME NEW u \in Subscribers, u # s PROVE SubscriberInv(u)'
    BY <1>1, <2>1, <2>2, <2>3, Undisturbed
  <2>4. Absent(s)
    BY <1>1, <2>1 DEF SubscriberInv
  <2>5. SubscriberInv(s)'
    <3>1. Absent(s)'
      BY <2>1, <2>4 DEF Absent
    <3>2. Drained(s)'
      BY <1>1, <2>1, <2>2, <2>4 DEF SubscriberInv, Drained, Absent
    <3> QED BY <2>1, <2>4, <3>1, <3>2 DEF SubscriberInv, Absent
  <2> QED BY <2>3, <2>5
<1>3. CASE SubscribeAttach(s)
  <2> DEFINE o == streamOf[s]
  <2>1. /\ UNCHANGED <<streamOf, pub, draining, pool, jobs, received>>
        /\ sub[s] = "attach" /\ sub'[s] = "wake" /\ o \in Streams
        /\ attached' = [attached EXCEPT ![o] = @ \cup {s}]
        /\ \A u \in Subscribers : u # s =>
             /\ sub'[u] = sub[u] /\ queue'[u] = queue[u]
             /\ u \in closed' <=> u \in closed
             /\ u \in overflowed' <=> u \in overflowed
        /\ s \in closed' \ closed => s \in overflowed'
        /\ UNCHANGED <<closed, overflowed>> \/ s \in closed'
    BY <1>1, <1>3 DEF SubscribeAttach, SubscriberGoes, TypeOK, CallInv
  <2>2. \A u \in Subscribers : Served(u) => Served(u)'
    BY <2>1 DEF Served
  <2>3. ASSUME NEW u \in Subscribers, u # s PROVE SubscriberInv(u)'
    <3>1. \A r \in Streams : u \in attached'[r] => u \in attached[r]
      BY <1>1, <2>1, <2>3 DEF TypeOK
    <3> QED BY <1>1, <2>1, <2>2, <2>3, <3>1, Undisturbed
  <2>4. Absent(s)
    BY <1>1, <2>1 DEF SubscriberInv, Unjoined
  <2>5. \A r \in Streams : s \in attached'[r] => streamOf'[s] = r
    BY <1>1, <2>1, <2>4 DEF Absent, TypeOK
  <2>6. SubscriberInv(s)'
    <3>1. sub'[s] \notin Unjoined
      BY <2>1 DEF Unjoined
    <3>2. CASE s \in closed'
      <4>1. s \in overflowed'
        BY <2>1, <2>4, <3>2 DEF Absent
      <4> QED BY <2>5, <3>1, <3>2, <4>1, ClosedKept
    <3>3. CASE s \notin closed'
      <4>1. s \in draining' => Served(s)'
        BY <1>1, <2>1, <2>2, <2>4 DEF SubscriberInv, Drained, Absent
      <4> QED BY <2>1, <2>5, <3>1, <3>3, <4>1 DEF SubscriberInv, Drained
    <3> QED BY <3>2, <3>3
  <2> QED BY <2>3, <2>6
<1>4. CASE SubscribeWake(s)
  <2>1. /\ ScheduleDrain(s) /\ UNCHANGED <<pub, streamOf, pool, received>>
        /\ sub[s] \notin Unjoined /\ sub'[s] \notin Unjoined
        /\ \A u \in Subscribers : u # s => sub'[u] = sub[u]
    BY <1>1, <1>4 DEF SubscribeWake, SubscriberGoes, Unjoined, TypeOK
  <2> QED BY <2>1, SchedulingDelivers
<1>5. CASE SubscribeReturn(s)
  <2>1. /\ UNCHANGED <<pub, streamOf, draining, pool, jobs, received>>
        /\ sub[s] = "return" /\ sub'[s] = "open"
        /\ \A u \in Subscribers : u # s => sub'[u] = sub[u]
        /\ Close({s}) \/ UNCHANGED <<queue, closed, overflowed, attached>>
    BY <1>1, <1>5 DEF SubscribeReturn, SubscriberGoes, TypeOK
  <2>2. sub[s] \notin Unjoined /\ sub'[s] \notin Unjoined
    BY <2>1 DEF Unjoined
  <2>3. CASE Close({s})
    BY <2>1, <2>2, <2>3, ClosingDelivers
  <2>4. CASE UNCHANGED <<queue, closed, overflowed, attached>>
    <3>1. \A u \in Subscribers : Served(u) => Served(u)'
      BY <2>1 DEF Served
    <3>2. ASSUME NEW u \in Subscribers, u # s PROVE SubscriberInv(u)'
      BY <1>1, <2>1, <2>4, <3>1, <3>2, Undisturbed
    <3>3. SubscriberInv(s)'
      BY <1>1, <2>1, <2>2, <2>4, <3>1 DEF SubscriberInv, Drained
    <3> QED BY <3>2, <3>3
  <2> QED BY <2>1, <2>3, <2>4
<1>6. CASE Disconnect(s)
  <2>1. Close({s}) /\ UNCHANGED <<pub, sub, streamOf, draining, pool, jobs, received>> /\ sub[s] = "open"
    BY <1>6 DEF Disconnect
  <2> QED BY <2>1, ClosingDelivers DEF Unjoined
<1> QED BY <1>2, <1>3, <1>4, <1>5, <1>6 DEF SubscribeStep

\* Delivering: the flag and the queue are looked at in one monitor.
LEMMA DeliveryDelivers ==
  ASSUME DeliveryInv, NEW w \in Threads, DeliveryStep(w)
  PROVE  \A u \in Subscribers : SubscriberInv(u)'
<1>1. /\ TypeOK /\ CallInv /\ pool \in [Threads -> ThreadState] /\ pool[w] \in ThreadState
      /\ jobs \in Seq(Subscribers)
      /\ \A u \in Subscribers : SubscriberInv(u)
  BY DEF DeliveryInv, TypeInv, TypeOK
<1>2. PICK s \in Subscribers : s = pool[w].sub
  BY <1>1 DEF ThreadState
<1>3. CASE Take(w)
  <2>1. /\ jobs # <<>> /\ jobs' = Tail(jobs) /\ pool[w].pc = "idle"
        /\ pool' = [pool EXCEPT ![w] = [pc |-> "poll", sub |-> Head(jobs), event |-> 0]]
        /\ UNCHANGED <<sub, streamOf, queue, received, closed, overflowed, draining, attached, pub>>
    BY <1>3 DEF Take
  <2>2. /\ Head(jobs) = jobs[1] /\ 1 \in DOMAIN jobs
        /\ \A i \in DOMAIN jobs' : i + 1 \in DOMAIN jobs /\ jobs'[i] = jobs[i + 1]
    BY <1>1, <2>1, TailElements
  <2>3. \A i \in DOMAIN jobs : i = 1 \/ (i - 1 \in DOMAIN jobs' /\ jobs'[i - 1] = jobs[i])
    BY <1>1, <2>1
  <2>4. /\ pool'[w].pc = "poll" /\ pool'[w].sub = jobs[1]
        /\ \A v \in Threads : v # w => pool'[v] = pool[v]
    BY <1>1, <2>1, <2>2
  <2> SUFFICES ASSUME NEW u \in Subscribers PROVE SubscriberInv(u)'
    OBVIOUS
  <2>5. Served(u) => Served(u)'
    BY <2>1, <2>3, <2>4 DEF Served
  <2>6. \A i \in DOMAIN jobs' : jobs'[i] = u => \E j \in DOMAIN jobs : jobs[j] = u
    BY <2>2
  <2>7. CASE sub[u] \in Unjoined
    <3>1. Absent(u)
      BY <1>1, <2>7 DEF SubscriberInv
    <3>2. \A v \in Threads : pool'[v].pc # "idle" => pool'[v].sub # u
      BY <2>2, <2>4, <3>1 DEF Absent
    <3> QED BY <1>1, <2>1, <2>5, <2>6, <3>2, Undisturbed
  <2>8. CASE sub[u] \notin Unjoined
    BY <1>1, <2>1, <2>5, <2>8 DEF SubscriberInv, Drained
  <2> QED BY <2>7, <2>8
<1>4. CASE Poll(w) /\ queue[s] = <<>>
  <2>1. /\ pool' = [pool EXCEPT ![w].pc = "finally"] /\ draining' = draining \ {s} /\ UNCHANGED queue
        /\ UNCHANGED <<sub, streamOf, received, closed, overflowed, attached, pub, jobs>> /\ pool[w].pc = "poll"
    BY <1>2, <1>4 DEF Poll
  <2>2. /\ pool'[w].pc = "finally" /\ pool'[w].sub = s
        /\ \A v \in Threads : v # w => pool'[v] = pool[v]
    BY <1>1, <1>2, <2>1 DEF ThreadState
  <2>3. ASSUME NEW u \in Subscribers, u # s PROVE SubscriberInv(u)'
    <3>1. Served(u) => Served(u)'
      BY <2>1, <2>2, <2>3 DEF Served
    <3> QED BY <1>1, <2>1, <2>2, <2>3, <3>1, Undisturbed
  <2>4. SubscriberInv(s)'
    <3>1. sub[s] \notin Unjoined
      BY <1>1, <1>2, <2>1, JoinedOnes
    <3> QED BY <1>1, <1>2, <1>4, <2>1, <3>1 DEF SubscriberInv, Drained
  <2> QED BY <2>3, <2>4
<1>5. CASE Poll(w) /\ queue[s] # <<>>
  <2>1. /\ pool' = [pool EXCEPT ![w].pc = "send", ![w].event = Head(queue[s])]
        /\ queue' = [queue EXCEPT ![s] = Tail(@)] /\ pool[w].pc = "poll"
        /\ UNCHANGED <<sub, streamOf, received, closed, overflowed, attached, pub, jobs, draining>>
    BY <1>2, <1>5 DEF Poll
  <2>2. /\ pool'[w].pc = "send" /\ pool'[w].sub = s
        /\ \A v \in Threads : v # w => pool'[v] = pool[v]
    BY <1>1, <1>2, <2>1 DEF ThreadState
  <2>3. ASSUME NEW u \in Subscribers, u # s PROVE SubscriberInv(u)'
    <3>1. Served(u) => Served(u)'
      BY <1>2, <2>1, <2>2, <2>3 DEF Served
    <3>2. queue'[u] = queue[u]
      BY <1>1, <2>1, <2>3 DEF TypeOK
    <3> QED BY <1>1, <2>1, <2>2, <2>3, <3>1, <3>2, Undisturbed
  <2>4. SubscriberInv(s)'
    <3>1. sub[s] \notin Unjoined
      BY <1>1, <1>2, <2>1, JoinedOnes
    <3>2. Served(s)'
      BY <2>2 DEF Served
    <3>3. s \in closed' \ overflowed' => queue'[s] = <<>>
      BY <1>1, <1>2, <1>5, <2>1 DEF SubscriberInv, Drained
    <3> QED BY <1>1, <1>2, <2>1, <3>1, <3>2, <3>3 DEF SubscriberInv, Drained
  <2> QED BY <2>3, <2>4
<1>6. CASE Send(w)
  <2>1. /\ pool' = [pool EXCEPT ![w].pc = "poll", ![w].event = 0] /\ pool[w].pc = "send"
        /\ Close({s}) \/ UNCHANGED <<queue, closed, overflowed, attached>>
        /\ UNCHANGED <<sub, streamOf, pub, jobs, draining>>
    BY <1>2, <1>6 DEF Send
  <2>2. /\ pool'[w].pc = "poll" /\ pool'[w].sub = s
        /\ \A v \in Threads : v # w => pool'[v] = pool[v]
    BY <1>1, <1>2, <2>1 DEF ThreadState
  <2>3. \A u \in Subscribers : u # s => received'[u] = received[u]
    BY <1>1, <1>2, <1>6 DEF Send, TypeOK
  <2>4. sub[s] \notin Unjoined
    BY <1>1, <1>2, <2>1, JoinedOnes
  <2>5. CASE Close({s})
    <3>1. \A v \in Threads : pool'[v].pc \in {"poll", "send"} <=> pool[v].pc \in {"poll", "send"}
      BY <2>1, <2>2
    <3>2. \A v \in Threads : pool'[v].sub = pool[v].sub /\ (pool'[v].pc # "idle" => pool[v].pc # "idle")
      BY <1>2, <2>1, <2>2
    <3> QED BY <1>2, <2>1, <2>3, <2>4, <2>5, <3>1, <3>2, ClosingDelivers
  <2>6. CASE UNCHANGED <<queue, closed, overflowed, attached>>
    <3>1. \A u \in Subscribers : Served(u) => Served(u)'
      BY <1>2, <2>1, <2>2 DEF Served
    <3>2. \A v \in Threads : pool'[v].sub = pool[v].sub /\ (pool'[v].pc # "idle" => pool[v].pc # "idle")
      BY <1>2, <2>1, <2>2
    <3>3. ASSUME NEW u \in Subscribers, u # s PROVE SubscriberInv(u)'
      BY <1>1, <2>1, <2>3, <2>6, <3>1, <3>2, <3>3, Undisturbed
    <3>4. SubscriberInv(s)'
      BY <1>1, <1>2, <2>1, <2>4, <2>6, <3>1 DEF SubscriberInv, Drained
    <3> QED BY <3>3, <3>4
  <2> QED BY <2>1, <2>5, <2>6
<1>7. CASE DrainEnds(w)
  <2>1. /\ pool' = [pool EXCEPT ![w] = Asleep] /\ draining' = draining \ {s} /\ pool[w].pc = "finally"
        /\ UNCHANGED <<sub, streamOf, queue, received, closed, overflowed, attached, pub, jobs>>
    BY <1>2, <1>7 DEF DrainEnds
  <2>2. /\ pool'[w].pc = "idle"
        /\ \A v \in Threads : v # w => pool'[v] = pool[v]
    BY <1>1, <2>1 DEF Asleep
  <2>3. \A u \in Subscribers : Served(u) => Served(u)'
    BY <2>1, <2>2 DEF Served
  <2> QED BY <1>1, <2>1, <2>2, <2>3, Undisturbed
<1> QED BY <1>3, <1>4, <1>5, <1>6, <1>7 DEF DeliveryStep

LEMMA DeliveryStart == Init => DeliveryInv
<1> SUFFICES ASSUME Init PROVE DeliveryInv
  OBVIOUS
<1>1. ASSUME NEW s \in Subscribers PROVE SubscriberInv(s)
  BY DEF Init, SubscriberInv, Absent, Drained, Resting, Asleep
<1> QED BY <1>1, TypeStart DEF DeliveryInv

LEMMA DeliveryKept == DeliveryInv /\ [Next]_vars => DeliveryInv'
<1> SUFFICES ASSUME DeliveryInv, [Next]_vars PROVE DeliveryInv'
  OBVIOUS
<1>1. TypeInv'
  BY TypeStep DEF DeliveryInv
<1>2. CASE UNCHANGED vars
  BY <1>1, <1>2 DEF DeliveryInv, SubscriberInv, Absent, Drained, Served
<1> QED BY <1>1, <1>2, PublishDelivers, RemovalDelivers, SubscribeDelivers, DeliveryDelivers DEF Next, DeliveryInv

LEMMA Delivery == SafetySpec => []DeliveryInv
BY DeliveryStart, DeliveryKept, PTL DEF SafetySpec

\* InMemoryScriptLiveEventPublisher: queues stay within their capacities, and
\* an event that waits for a browser has a drain job or is about to get one.
THEOREM EventsAreDelivered == SafetySpec => []DeliveryIsSound
<1>1. ASSUME DeliveryInv PROVE NoForgottenEvent
  <2>1. \A s \in Subscribers : SubscriberInv(s) /\ (s \in closed \ overflowed => queue[s] = <<>>)
    BY <1>1 DEF DeliveryInv, SubscriberInv, Drained
  <2>2. \A s \in Subscribers : Served(s) =>
          s \in ToSet(jobs) \/ \E w \in Threads : pool[w].sub = s /\ pool[w].pc \in {"poll", "send"}
    BY DEF Served, ToSet
  <2> QED BY <1>1, <2>1, <2>2 DEF NoForgottenEvent, SubscriberInv, Drained, DeliveryInv
<1>2. DeliveryInv => DeliveryIsSound
  BY <1>1 DEF DeliveryInv, TypeInv, DeliveryIsSound
<1> QED BY <1>2, Delivery, PTL

-----------------------------------------------------------------------------
(* Replay and publication leave no gap.                                    *)

GapInv == \A s \in Subscribers : Gap(s)

\* Numbers of events.
LEMMA EventNumbers ==
  ASSUME TypeInv, NEW s \in Subscribers, sub[s] \notin Unjoined
  PROVE  /\ streamOf[s] \in Streams /\ sequence[streamOf[s]] \in Nat /\ Len(queue[s]) \in Nat
         /\ DOMAIN queue[s] = 1..Len(queue[s])
         /\ queue[s] \in Seq(Events) /\ received[s] \in Seq(Events)
         /\ Events \subseteq Nat \ {0}
<1>1. sub[s] \in {"wake", "return", "open"}
  BY DEF TypeInv, TypeOK, Unjoined
<1> QED BY <1>1, CapacityAssumption DEF TypeInv, TypeOK, CallInv, Events

\* A subscriber keeps its queue and its place in its stream.
Keeps(s) ==
  /\ queue'[s] = queue[s]
  /\ s \in attached[streamOf[s]] => s \in attached'[streamOf[s]]

\* Closing others, or scheduling a drain, takes nothing from an open subscription.
LEMMA OpenOnesKeep ==
  ASSUME TypeInv, NEW s \in Subscribers, sub[s] \notin Unjoined, s \notin closed',
         NEW S, NEW u, Close(S) \/ ScheduleDrain(u) \/ UNCHANGED <<queue, closed, overflowed, attached>>
  PROVE  Keeps(s) /\ s \notin closed
<1>1. streamOf[s] \in Streams /\ TypeOK
  BY EventNumbers DEF TypeInv
<1>2. CASE \E R : Close(R)
  <2>1. PICK R : Close(R)
    BY <1>2
  <2> QED BY <1>1, <2>1 DEF Close, Keeps, TypeOK
<1> QED BY <1>2 DEF ScheduleDrain, Keeps

\* A step that does not concern a subscriber, or closes it.
LEMMA GapKept ==
  ASSUME NEW s \in Subscribers, Gap(s), sub'[s] \notin Unjoined => sub[s] \notin Unjoined,
         s \in closed => s \in closed', streamOf'[s] = streamOf[s],
         sequence'[streamOf[s]] = sequence[streamOf[s]],
         sub[s] \notin Unjoined /\ s \notin closed' => Keeps(s),
         sse'[s] = "open" => /\ sse[s] = "open" /\ received'[s] = received[s]
                             /\ \A w \in Threads : /\ w \in InHand(s)' <=> w \in InHand(s)
                                                   /\ w \in InHand(s) => pool'[w].event = pool[w].event
  PROVE  Gap(s)'
<1> SUFFICES ASSUME sub'[s] \notin Unjoined, s \notin closed' PROVE Joined(s)'
  BY DEF Gap
<1>1. Joined(s)
  BY DEF Gap
<1>2. Sent(s)' = Sent(s)
  BY DEF Sent, Keeps
<1>3. ASSUME sse'[s] = "open" PROVE Gapless(s)'
  <2>1. Gapless(s)
    BY <1>1, <1>3 DEF Joined
  <2>2. \A e \in Events : (Got(s, e)' <=> Got(s, e)) /\ (Handed(s, e)' <=> Handed(s, e))
    BY <1>3 DEF Got, Handed, InHand
  <2>3. \A i, j \in DOMAIN received'[s] : received'[s][i] = received'[s][j] => i = j
    BY <1>3, <2>1 DEF Gapless
  <2>4. \A v, w \in InHand(s)' : pool'[v].event = pool'[w].event => v = w
    BY <1>3, <2>1 DEF Gapless, InHand
  <2>5. \E first \in Nat \ {0} :
          /\ first <= Sent(s)' + 1
          /\ first <= sequence'[streamOf'[s]] \/ sequence'[streamOf'[s]] = 0
          /\ \A e \in Events : Got(s, e)' \/ Handed(s, e)' <=> first <= e /\ e <= Sent(s)'
    BY <1>2, <2>1, <2>2 DEF Gapless
  <2> QED BY <2>1, <2>2, <2>3, <2>4, <2>5 DEF Gapless
<1> QED BY <1>1, <1>2, <1>3 DEF Joined, Keeps

\* Publishing an event adds it to the queue of who has joined.
LEMMA PublishLeavesNoGap ==
  ASSUME DeliveryInv, GapInv, NEW p \in Publishers, PublishStep(p)
  PROVE  GapInv'
<1>1. TypeOK /\ TypeInv /\ CallInv /\ \A s \in Subscribers : SubscriberInv(s) /\ Gap(s)
  BY DEF DeliveryInv, TypeInv, GapInv
<1> SUFFICES ASSUME NEW s \in Subscribers PROVE Gap(s)'
  BY DEF GapInv
<1>2. CASE PublishLookup(p) \/ (PublishAppend(p) /\ pub[p].stream \in terminal)
  BY <1>1, <1>2, GapKept DEF PublishLookup, PublishAppend, InHand, Keeps
<1>3. CASE PublishWake(p)
  <2>1. UNCHANGED <<sub, streamOf, sequence, pool, received, sse>> /\ closed \subseteq closed'
    BY <1>1, <1>3 DEF PublishWake, ScheduleDrain, Close
  <2>2. PICK u : ScheduleDrain(u) \/ UNCHANGED <<queue, closed, overflowed, attached>>
    BY <1>3 DEF PublishWake
  <2> QED BY <1>1, <2>1, <2>2, GapKept, OpenOnesKeep DEF InHand
<1>4. CASE PublishAppend(p) /\ pub[p].stream \notin terminal
  <2> DEFINE o == pub[p].stream
  <2>1. /\ o \in Streams /\ Offer(attached[o], sequence[o] + 1)
        /\ sequence' = [sequence EXCEPT ![o] = @ + 1]
        /\ UNCHANGED <<attached, sub, streamOf, pool, received, sse>> /\ closed \subseteq closed'
    BY <1>1, <1>4 DEF PublishAppend, CallInv, Offer
  <2>2. CASE sub[s] \in Unjoined \/ s \in closed'
    BY <2>1, <2>2 DEF Gap
  <2>3. CASE sub[s] \notin Unjoined /\ s \notin closed' /\ streamOf[s] # o
    <3>1. s \notin attached[o] /\ sequence'[streamOf[s]] = sequence[streamOf[s]]
      BY <1>1, <2>1, <2>3, EventNumbers DEF SubscriberInv, TypeOK
    <3>2. Keeps(s)
      BY <2>1, <2>3, <3>1 DEF Offer, Keeps
    <3> QED BY <1>1, <2>1, <2>3, <3>1, <3>2, GapKept DEF InHand
  <2>4. CASE sub[s] \notin Unjoined /\ s \notin closed' /\ streamOf[s] = o
    <3> DEFINE last == sequence[streamOf[s]]
               n == Len(queue[s])
    <3>1. /\ last \in Nat /\ n \in Nat /\ DOMAIN queue[s] = 1..n
          /\ queue[s] \in Seq(Events) /\ Events \subseteq Nat \ {0}
      BY <1>1, <2>4, EventNumbers
    <3>2. Joined(s) /\ s \in attached[o]
      BY <1>1, <2>1, <2>4 DEF Gap, Joined
    <3>3. queue'[s] = Append(queue[s], last + 1) /\ sequence'[streamOf'[s]] = last + 1
      BY <1>1, <2>1, <2>4, <3>2 DEF Offer, Offered, TypeOK
    <3>4. last + 1 \in Events
      BY <1>1, <1>4, <2>1, <2>4, <3>1, CapacityAssumption DEF PublishAppend, Events, TypeOK
    <3>5. /\ Len(queue'[s]) = n + 1 /\ DOMAIN queue'[s] = 1..(n + 1)
          /\ queue'[s][n + 1] = last + 1 /\ \A i \in 1..n : queue'[s][i] = queue[s][i]
      BY <3>1, <3>3, <3>4, AppendElements
    <3>6. Sent(s) = last - n /\ Sent(s)' = last - n
      <4>1. Sent(s) = last - n
        BY DEF Sent
      <4>2. Sent(s)' = (last + 1) - (n + 1)
        BY <3>3, <3>5 DEF Sent
      <4> HIDE DEF last, n
      <4> QED BY <3>1, <4>1, <4>2
    <3>7. \A i \in DOMAIN queue'[s] : queue'[s][i] = Sent(s)' + i
      <4>1. \A i \in 1..n : queue[s][i] = Sent(s) + i
        BY <3>1, <3>2 DEF Joined
      <4> HIDE DEF last, n
      <4>2. ASSUME NEW i \in 1..(n + 1) PROVE queue'[s][i] = (last - n) + i
        <5>1. CASE i = n + 1
          BY <3>1, <3>5, <5>1
        <5>2. CASE i \in 1..n
          BY <3>5, <3>6, <4>1, <5>2
        <5> QED BY <3>1, <5>1, <5>2
      <4> QED BY <3>5, <3>6, <4>2
    <3>8. ASSUME sse'[s] = "open" PROVE Gapless(s)'
      <4>1. Gapless(s)
        BY <2>1, <3>2, <3>8 DEF Joined
      <4>2. /\ \A e \in Events : (Got(s, e)' <=> Got(s, e)) /\ (Handed(s, e)' <=> Handed(s, e))
            /\ InHand(s)' = InHand(s)
        BY <2>1 DEF Got, Handed, InHand
      <4>3. PICK first \in Nat \ {0} :
              /\ first <= Sent(s) + 1
              /\ first <= last \/ last = 0
              /\ \A e \in Events : Got(s, e) \/ Handed(s, e) <=> first <= e /\ e <= Sent(s)
        BY <4>1 DEF Gapless
      <4>4. first <= last + 1
        BY <3>1, <3>6, <4>3
      <4> QED BY <2>1, <3>3, <3>6, <4>1, <4>2, <4>3, <4>4 DEF Gapless
    <3> QED BY <2>1, <3>2, <3>6, <3>7, <3>8 DEF Gap, Joined
  <2> QED BY <2>2, <2>3, <2>4
<1> QED BY <1>2, <1>3, <1>4 DEF PublishStep

\* Subscribing joins the stream with its history queued.
LEMMA SubscribeLeavesNoGap ==
  ASSUME DeliveryInv, GapInv, NEW u \in Subscribers, SubscribeStep(u) \/ Disconnect(u)
  PROVE  GapInv'
<1>1. TypeOK /\ TypeInv /\ CallInv /\ \A s \in Subscribers : SubscriberInv(s) /\ Gap(s)
  BY DEF DeliveryInv, TypeInv, GapInv
<1> SUFFICES ASSUME NEW s \in Subscribers PROVE Gap(s)'
  BY DEF GapInv
<1>2. CASE SubscribeCheck(u) \/ SubscribeLookup(u)
  <2>1. CASE s = u
    BY <1>1, <1>2, <2>1 DEF SubscribeCheck, SubscribeLookup, SubscriberGoes, Unjoined, Gap, TypeOK
  <2>2. CASE s # u
    <3>1. /\ UNCHANGED <<sequence, attached, queue, closed, pool, received, sse>>
          /\ sub'[s] = sub[s] /\ streamOf'[s] = streamOf[s]
      BY <1>1, <1>2, <2>2 DEF SubscribeCheck, SubscribeLookup, SubscriberGoes, TypeOK
    <3> QED BY <1>1, <3>1, GapKept DEF Keeps, InHand
  <2> QED BY <2>1, <2>2
<1>3. CASE SubscribeWake(u) \/ SubscribeReturn(u) \/ Disconnect(u)
  <2>1. /\ UNCHANGED <<streamOf, sequence, pool, received>> /\ closed \subseteq closed'
        /\ sub'[s] \notin Unjoined => sub[s] \notin Unjoined
        /\ sse'[s] = "open" => sse[s] = "open"
    BY <1>1, <1>3 DEF SubscribeWake, SubscribeReturn, Disconnect, SubscriberGoes, ScheduleDrain, Close,
                      Unjoined, TypeOK
  <2>2. Close({u}) \/ ScheduleDrain(u) \/ UNCHANGED <<queue, closed, overflowed, attached>>
    BY <1>3 DEF SubscribeWake, SubscribeReturn, Disconnect
  <2> QED BY <1>1, <2>1, <2>2, GapKept, OpenOnesKeep DEF InHand
<1>4. CASE SubscribeAttach(u) /\ s # u
  <2>1. /\ UNCHANGED <<streamOf, sequence, pool, received, sse>> /\ closed \subseteq closed'
        /\ sub'[s] = sub[s] /\ queue'[s] = queue[s]
    BY <1>1, <1>4 DEF SubscribeAttach, SubscriberGoes, TypeOK
  <2>2. s \in attached[streamOf[s]] => s \in attached'[streamOf[s]]
    BY <1>1, <1>4 DEF SubscribeAttach, TypeOK
  <2> QED BY <1>1, <2>1, <2>2, GapKept DEF Keeps, InHand
<1>5. CASE SubscribeAttach(u) /\ s = u /\ s \notin closed'
  <2> DEFINE o == streamOf[s]
             n == Len(Replay(o))
  <2>1. /\ sub[s] = "attach" /\ o \in Streams /\ UNCHANGED <<streamOf, sequence, pool, received, sse>>
        /\ attached' = [attached EXCEPT ![o] = @ \cup {s}]
        /\ queue'[s] = SubSeq(Replay(o), 1, Smaller(n, SubscriberCapacity))
        /\ ~(n > SubscriberCapacity)
    BY <1>1, <1>5 DEF SubscribeAttach, SubscriberGoes, CallInv, TypeOK
  <2>2. /\ sequence[o] \in Nat /\ SubscriberCapacity \in Nat /\ n \in Nat /\ n <= sequence[o]
        /\ n = 0 => sequence[o] = 0
    <3>1. sequence[o] \in Nat /\ SubscriberCapacity \in Nat
      BY <1>1, <2>1, CapacityAssumption DEF TypeOK
    <3>2. Len(Replay(o)) <= sequence[o] /\ Len(Replay(o)) \in Nat /\ (Len(Replay(o)) = 0 => sequence[o] = 0)
      BY <1>1, <2>1, ReplayEvents
    <3> QED BY <3>1, <3>2
  <2>3. Smaller(n, SubscriberCapacity) = n /\ n \in 0..n
    BY <2>1, <2>2 DEF Smaller
  <2>4. queue'[s] \in Seq(Events) /\ Len(queue'[s]) = n /\ \A i \in 1..n : queue'[s][i] = sequence[o] - n + i
    BY <1>1, <2>1, <2>3, ReplayEvents
  <2>5. Sent(s)' = sequence[o] - n /\ sequence'[streamOf'[s]] = sequence[o]
    BY <2>1, <2>4 DEF Sent
  <2>6. DOMAIN queue'[s] = 1..n
    BY <2>4
  <2>7. Absent(s)
    BY <1>1, <2>1 DEF SubscriberInv, Unjoined
  <2>8. s \in attached'[streamOf'[s]]
    BY <1>1, <2>1 DEF TypeOK
  <2> HIDE DEF o, n
  <2>9. Gapless(s)'
    <3>1. \A e \in Events : ~Got(s, e)' /\ ~Handed(s, e)'
      BY <2>1, <2>7 DEF Absent, Got, Handed
    <3>2. InHand(s)' = {} /\ DOMAIN received'[s] = {}
      BY <2>1, <2>7 DEF Absent, InHand
    <3>3. \E first \in Nat \ {0} :
            /\ first <= sequence[o] - n + 1
            /\ first <= sequence[o] \/ sequence[o] = 0
            /\ \A e \in Events : ~(first <= e /\ e <= sequence[o] - n)
      <4> DEFINE first == sequence[o] - n + 1
      <4>1. first \in Nat \ {0} /\ (first <= sequence[o] \/ sequence[o] = 0)
        BY <2>2
      <4>2. \A e \in Events : ~(first <= e /\ e <= sequence[o] - n)
        BY <2>2 DEF Events
      <4> QED BY <4>1, <4>2
    <3> QED BY <2>5, <3>1, <3>2, <3>3 DEF Gapless
  <2>10. Sent(s)' \in Nat
    BY <2>2, <2>5
  <2> QED BY <2>4, <2>5, <2>6, <2>8, <2>9, <2>10 DEF Gap, Joined
<1>6. CASE s \in closed'
  BY <1>6 DEF Gap
<1> QED BY <1>2, <1>3, <1>4, <1>5, <1>6 DEF SubscribeStep

\* Evicting the task closes its subscriptions.
LEMMA RemovalLeavesNoGap ==
  ASSUME DeliveryInv, GapInv, Evict \/ RemoveTask
  PROVE  GapInv'
<1>1. TypeInv /\ \A s \in Subscribers : Gap(s)
  BY DEF DeliveryInv, GapInv
<1>2. /\ UNCHANGED <<sub, streamOf, sequence, pool, received, sse>> /\ closed \subseteq closed'
      /\ Close(attached[current]) \/ UNCHANGED <<queue, closed, overflowed, attached>>
  BY DEF Evict, RemoveTask, Close
<1> QED BY <1>1, <1>2, GapKept, OpenOnesKeep DEF GapInv, InHand

\* An event goes from the queue to a thread and from there to the browser.
LEMMA DeliveryLeavesNoGap ==
  ASSUME DeliveryInv, GapInv, NEW w \in Threads, DeliveryStep(w)
  PROVE  GapInv'
<1>1. /\ TypeOK /\ TypeInv /\ CallInv /\ \A s \in Subscribers : SubscriberInv(s) /\ Gap(s)
      /\ pool \in [Threads -> ThreadState] /\ pool[w] \in ThreadState
  BY DEF DeliveryInv, TypeInv, TypeOK, GapInv
<1> SUFFICES ASSUME NEW s \in Subscribers PROVE Gap(s)'
  BY DEF GapInv
<1>2. CASE Take(w) \/ DrainEnds(w) \/ (Poll(w) /\ queue[pool[w].sub] = <<>>)
  <2>1. UNCHANGED <<sub, streamOf, sequence, received, sse, queue, attached, closed>>
    BY <1>2 DEF Take, DrainEnds, Poll
  <2>2. pool[w].pc # "send" /\ pool'[w].pc # "send" /\ \A v \in Threads : v # w => pool'[v] = pool[v]
    BY <1>1, <1>2 DEF Take, DrainEnds, Poll, ThreadState, Asleep
  <2> QED BY <1>1, <2>1, <2>2, GapKept DEF Keeps, InHand
<1>3. CASE (Poll(w) \/ Send(w)) /\ pool[w].sub # s
  <2>1. /\ UNCHANGED <<sub, streamOf, sequence>> /\ closed \subseteq closed'
        /\ received'[s] = received[s] /\ sse'[s] = sse[s]
    BY <1>1, <1>3 DEF Poll, Send, Close, TypeOK
  <2>2. pool'[w].sub = pool[w].sub /\ \A v \in Threads : v # w => pool'[v] = pool[v]
    BY <1>1, <1>3 DEF Poll, Send, ThreadState
  <2>3. sub[s] \notin Unjoined /\ s \notin closed' => Keeps(s)
    <3>1. CASE Poll(w)
      BY <1>1, <1>3, <3>1 DEF Poll, Keeps, TypeOK
    <3>2. CASE Send(w)
      <4>1. Close({pool[w].sub}) \/ UNCHANGED <<queue, closed, overflowed, attached>>
        BY <3>2 DEF Send
      <4> QED BY <1>1, <4>1, OpenOnesKeep
    <3> QED BY <1>3, <3>1, <3>2
  <2> QED BY <1>1, <1>3, <2>1, <2>2, <2>3, GapKept DEF InHand
<1>4. CASE sub'[s] \in Unjoined \/ s \in closed'
  BY <1>4 DEF Gap
<1>5. CASE Poll(w) /\ pool[w].sub = s /\ queue[s] # <<>> /\ sub'[s] \notin Unjoined /\ s \notin closed'
  <2> DEFINE last == sequence[streamOf[s]]
             n == Len(queue[s])
             e == Head(queue[s])
  <2>1. /\ pool' = [pool EXCEPT ![w].pc = "send", ![w].event = e] /\ queue' = [queue EXCEPT ![s] = Tail(@)]
        /\ UNCHANGED <<sub, streamOf, sequence, received, sse, attached, closed>> /\ pool[w].pc = "poll"
    BY <1>5 DEF Poll
  <2>2. /\ last \in Nat /\ n \in Nat /\ DOMAIN queue[s] = 1..n
        /\ queue[s] \in Seq(Events) /\ Events \subseteq Nat \ {0}
    BY <1>1, <1>5, <2>1, EventNumbers
  <2>3. /\ e \in Events /\ e = queue[s][1] /\ 1 \in DOMAIN queue[s] /\ queue'[s] = Tail(queue[s])
        /\ queue'[s] \in Seq(Events) /\ Len(queue'[s]) = n - 1
        /\ \A i \in DOMAIN queue'[s] : i + 1 \in DOMAIN queue[s] /\ queue'[s][i] = queue[s][i + 1]
    BY <1>1, <1>5, <2>1, <2>2, TailElements DEF TypeOK
  <2>4. Joined(s)
    BY <1>1, <1>5, <2>1 DEF Gap
  <2>5. Sent(s) = last - n /\ Sent(s)' = last - (n - 1) /\ sequence'[streamOf'[s]] = last
    BY <2>1, <2>3 DEF Sent
  <2>6. /\ pool'[w].pc = "send" /\ pool'[w].event = e /\ pool'[w].sub = s
        /\ \A v \in Threads : v # w => pool'[v] = pool[v]
    BY <1>1, <1>5, <2>1 DEF ThreadState
  <2> HIDE DEF last, n, e
  <2>7. Sent(s) \in Nat /\ Sent(s)' = Sent(s) + 1 /\ e = Sent(s) + 1
    BY <2>2, <2>3, <2>4, <2>5 DEF Joined
  <2>8. \A i \in DOMAIN queue'[s] : queue'[s][i] = Sent(s)' + i
    <3> SUFFICES ASSUME NEW i \in DOMAIN queue'[s] PROVE queue'[s][i] = Sent(s)' + i
      OBVIOUS
    <3>1. i \in Nat /\ queue'[s][i] = Sent(s) + (i + 1)
      BY <2>3, <2>4 DEF Joined
    <3> QED BY <2>7, <3>1
  <2>9. ASSUME sse'[s] = "open" PROVE Gapless(s)'
    <3>1. Gapless(s)
      BY <2>1, <2>4, <2>9 DEF Joined
    <3>2. PICK first \in Nat \ {0} :
            /\ first <= Sent(s) + 1
            /\ first <= last \/ last = 0
            /\ \A d \in Events : Got(s, d) \/ Handed(s, d) <=> first <= d /\ d <= Sent(s)
      BY <3>1 DEF Gapless, last
    <3>3. \A d \in Events : (Got(s, d)' <=> Got(s, d)) /\ (Handed(s, d)' <=> Handed(s, d) \/ d = e)
      BY <2>1, <2>6 DEF Got, Handed
    <3>4. InHand(s)' = InHand(s) \cup {w} /\ w \notin InHand(s)
      BY <2>1, <2>6 DEF InHand
    <3>5. ~Got(s, e) /\ ~Handed(s, e)
      BY <2>3, <2>7, <3>2
    <3>6. \A v \in InHand(s) : pool'[v].event = pool[v].event /\ pool[v].event # e
      BY <1>5, <2>1, <2>6, <3>4, <3>5 DEF InHand, Handed
    <3>7. \A v, x \in InHand(s)' : pool'[v].event = pool'[x].event => v = x
      BY <2>6, <3>1, <3>4, <3>6 DEF Gapless
    <3>8. \A i, j \in DOMAIN received'[s] : received'[s][i] = received'[s][j] => i = j
      BY <2>1, <3>1 DEF Gapless
    <3>9. \A d \in Events : ~(Got(s, d)' /\ Handed(s, d)')
      BY <3>1, <3>3, <3>5 DEF Gapless
    <3>10. \A d \in Events : Got(s, d)' \/ Handed(s, d)' <=> first <= d /\ d <= Sent(s)'
      <4> SUFFICES ASSUME NEW d \in Events
                   PROVE  Got(s, d)' \/ Handed(s, d)' <=> first <= d /\ d <= Sent(s)'
        OBVIOUS
      <4>1. d \in Nat /\ (d <= Sent(s)' <=> d <= Sent(s) \/ d = e)
        BY <2>2, <2>7
      <4>2. first <= e
        BY <2>7, <3>2
      <4> QED BY <3>2, <3>3, <4>1, <4>2
    <3>11. first <= Sent(s)' + 1
      BY <2>7, <3>2
    <3> QED BY <2>5, <3>2, <3>7, <3>8, <3>9, <3>10, <3>11 DEF Gapless
  <2>10. s \in attached'[streamOf'[s]] /\ Sent(s)' \in Nat
    BY <2>1, <2>4, <2>7 DEF Joined
  <2> QED BY <2>8, <2>9, <2>10 DEF Gap, Joined
<1>6. CASE Send(w) /\ pool[w].sub = s /\ sub'[s] \notin Unjoined /\ s \notin closed'
  <2> DEFINE e == pool[w].event
  <2>1. /\ UNCHANGED <<sub, streamOf, sequence>> /\ closed \subseteq closed' /\ pool[w].pc = "send"
        /\ Close({s}) \/ UNCHANGED <<queue, closed, overflowed, attached>>
        /\ pool' = [pool EXCEPT ![w].pc = "poll", ![w].event = 0]
        /\ sse'[s] = "open" => sse[s] = "open"
    BY <1>1, <1>6 DEF Send, Close, TypeOK
  <2>2. Keeps(s) /\ s \notin closed
    BY <1>1, <1>6, <2>1, OpenOnesKeep
  <2>3. Joined(s)
    BY <1>1, <1>6, <2>1, <2>2 DEF Gap
  <2>4. Sent(s)' = Sent(s)
    BY <2>1, <2>2 DEF Sent, Keeps
  <2>5. ASSUME sse'[s] = "open" PROVE Gapless(s)'
    <3>1. /\ received[s] \in Seq(Events) /\ e \in Events /\ sse[s] = "open"
          /\ received'[s] = Append(received[s], e)
      BY <1>1, <1>6, <2>1, <2>5 DEF Send, TypeOK, CallInv
    <3>2. Gapless(s)
      BY <2>3, <3>1 DEF Joined
    <3>3. /\ pool'[w].pc = "poll" /\ \A v \in Threads : v # w => pool'[v] = pool[v]
      BY <1>1, <2>1 DEF ThreadState
    <3>4. /\ w \in InHand(s) /\ InHand(s)' = InHand(s) \ {w}
          /\ \A v \in InHand(s)' : pool'[v].event = pool[v].event
      BY <1>6, <2>1, <3>3 DEF InHand
    <3>5. /\ DOMAIN received'[s] = 1..(Len(received[s]) + 1) /\ DOMAIN received[s] = 1..Len(received[s])
          /\ received'[s][Len(received[s]) + 1] = e
          /\ \A i \in 1..Len(received[s]) : received'[s][i] = received[s][i]
          /\ Len(received[s]) \in Nat
      BY <3>1, AppendElements
    <3>6. Handed(s, e) /\ ~Got(s, e)
      BY <1>6, <2>1, <3>1, <3>2 DEF Handed, Gapless
    <3>7. \A d \in Events : Got(s, d)' <=> Got(s, d) \/ d = e
      BY <3>5 DEF Got
    <3>8. \A d \in Events : Handed(s, d)' <=> Handed(s, d) /\ d # e
      <4>1. \A v \in Threads : pool[v].pc = "send" /\ pool[v].sub = s /\ pool[v].event = e => v = w
        BY <3>2, <3>4 DEF Gapless, InHand
      <4> QED BY <1>6, <2>1, <3>3, <4>1 DEF Handed
    <3>9. \A i, j \in DOMAIN received'[s] : received'[s][i] = received'[s][j] => i = j
      <4> DEFINE n == Len(received[s])
      <4>1. /\ \A i, j \in 1..n : received[s][i] = received[s][j] => i = j
            /\ \A i \in 1..n : received[s][i] # e
        BY <3>2, <3>5, <3>6 DEF Gapless, Got
      <4> SUFFICES ASSUME NEW i \in 1..(n + 1), NEW j \in 1..(n + 1), received'[s][i] = received'[s][j]
                   PROVE  i = j
        BY <3>5
      <4> HIDE DEF n
      <4>2. (i \in 1..n \/ i = n + 1) /\ (j \in 1..n \/ j = n + 1)
        BY <3>5 DEF n
      <4> QED BY <3>5, <4>1, <4>2 DEF n
    <3>10. \A v, x \in InHand(s)' : pool'[v].event = pool'[x].event => v = x
      BY <3>2, <3>4 DEF Gapless
    <3>11. \A d \in Events : ~(Got(s, d)' /\ Handed(s, d)')
      BY <3>2, <3>7, <3>8 DEF Gapless
    <3>12. PICK first \in Nat \ {0} :
             /\ first <= Sent(s) + 1
             /\ first <= sequence[streamOf[s]] \/ sequence[streamOf[s]] = 0
             /\ \A d \in Events : Got(s, d) \/ Handed(s, d) <=> first <= d /\ d <= Sent(s)
      BY <3>2 DEF Gapless
    <3>13. \A d \in Events : Got(s, d)' \/ Handed(s, d)' <=> Got(s, d) \/ Handed(s, d)
      BY <3>6, <3>7, <3>8
    <3>14. \E least \in Nat \ {0} :
             /\ least <= Sent(s)' + 1
             /\ least <= sequence'[streamOf'[s]] \/ sequence'[streamOf'[s]] = 0
             /\ \A d \in Events : Got(s, d)' \/ Handed(s, d)' <=> least <= d /\ d <= Sent(s)'
      BY <2>1, <2>4, <3>12, <3>13
    <3> QED BY <3>9, <3>10, <3>11, <3>14 DEF Gapless
  <2> QED BY <2>1, <2>2, <2>3, <2>4, <2>5 DEF Gap, Joined, Keeps
<1>7. CASE Poll(w) /\ pool[w].sub = s /\ queue[s] # <<>>
  BY <1>4, <1>5, <1>7
<1>8. CASE Send(w) /\ pool[w].sub = s
  BY <1>4, <1>6, <1>8
<1> QED BY <1>2, <1>3, <1>7, <1>8 DEF DeliveryStep

LEMMA GapStart == Init => GapInv
BY DEF Init, GapInv, Gap, Unjoined

LEMMA GapStep == DeliveryInv /\ GapInv /\ [Next]_vars => GapInv'
<1> SUFFICES ASSUME DeliveryInv, GapInv, [Next]_vars PROVE GapInv'
  OBVIOUS
<1>1. CASE UNCHANGED vars
  BY <1>1, GapKept DEF GapInv, Keeps, InHand
<1> QED BY <1>1, PublishLeavesNoGap, RemovalLeavesNoGap, SubscribeLeavesNoGap, DeliveryLeavesNoGap DEF Next

\* Disjoint finite sets.
LEMMA Disjoint ==
  ASSUME NEW S, NEW T, IsFiniteSet(S), IsFiniteSet(T), S \cap T = {}
  PROVE  IsFiniteSet(S \cup T) /\ Cardinality(S \cup T) = Cardinality(S) + Cardinality(T)
<1>1. Cardinality(S) \in Nat /\ Cardinality(T) \in Nat /\ Cardinality(S \cap T) = 0
  BY FS_CardinalityType, FS_EmptySet
<1>2. IsFiniteSet(S \cup T) /\ Cardinality(S \cup T) = Cardinality(S) + Cardinality(T) - Cardinality(S \cap T)
  BY FS_Union
<1> QED BY <1>1, <1>2

\* What a subscriber had of its stream is as many events as were received, are
\* queued and are in hand: no event is there twice.
LEMMA EachOnce ==
  ASSUME TypeInv, NEW s \in Subscribers, sub[s] \notin Unjoined, Joined(s), Gapless(s)
  PROVE  Cardinality(ToSet(received[s]) \cup Pending(s))
           = Len(received[s]) + Len(queue[s]) + Cardinality(InHand(s))
<1> DEFINE R == ToSet(received[s])
           Q == ToSet(queue[s])
           H == {pool[v].event : v \in InHand(s)}
<1>1. /\ received[s] \in Seq(Events) /\ queue[s] \in Seq(Events) /\ Events \subseteq Nat
      /\ DOMAIN queue[s] = 1..Len(queue[s]) /\ DOMAIN received[s] = 1..Len(received[s])
      /\ Len(queue[s]) \in Nat /\ Len(received[s]) \in Nat /\ Sent(s) \in Nat
  BY EventNumbers DEF Joined
<1>2. \A v \in InHand(s) : pool[v].event \in Events
  BY DEF TypeInv, CallInv, InHand
<1>3. R \subseteq Events /\ Q \subseteq Events /\ H \subseteq Events
  BY <1>1, <1>2 DEF ToSet
<1>4. IsFiniteSet(Events)
  BY FS_Interval, CapacityAssumption DEF Events
<1>5. IsFiniteSet(R) /\ IsFiniteSet(Q) /\ IsFiniteSet(H)
  BY <1>3, <1>4, FS_Subset
<1>6. \A e \in Events : (e \in R <=> Got(s, e)) /\ (e \in H <=> Handed(s, e))
  BY DEF Got, Handed, InHand, ToSet
<1>7. R \cap H = {}
  BY <1>3, <1>6 DEF Gapless
<1>8. (R \cup H) \cap Q = {}
  <2>1. \A e \in R \cup H : e <= Sent(s)
    BY <1>3, <1>6 DEF Gapless
  <2>2. \A e \in Q : e > Sent(s)
    BY <1>1 DEF Joined, ToSet
  <2> QED BY <1>1, <1>3, <2>1, <2>2
<1>9. Cardinality(R) = Len(received[s])
  <2> DEFINE f == [i \in 1..Len(received[s]) |-> received[s][i]]
  <2>1. f \in Bijection(1..Len(received[s]), R)
    BY <1>1 DEF Gapless, ToSet, Bijection, Injection, Surjection, IsInjective
  <2>2. ExistsBijection(1..Len(received[s]), R)
    BY <2>1 DEF ExistsBijection
  <2> QED BY <1>1, <1>5, <2>2, FS_CountingElements, FS_CardinalityType
<1>10. Cardinality(Q) = Len(queue[s])
  <2> DEFINE f == [i \in 1..Len(queue[s]) |-> queue[s][i]]
  <2>1. f \in Bijection(1..Len(queue[s]), Q)
    BY <1>1 DEF Joined, ToSet, Bijection, Injection, Surjection, IsInjective
  <2>2. ExistsBijection(1..Len(queue[s]), Q)
    BY <2>1 DEF ExistsBijection
  <2> QED BY <1>1, <1>5, <2>2, FS_CountingElements, FS_CardinalityType
<1>11. Cardinality(H) = Cardinality(InHand(s)) /\ IsFiniteSet(InHand(s))
  <2> DEFINE f == [v \in InHand(s) |-> pool[v].event]
  <2>1. f \in Bijection(InHand(s), H)
    BY DEF Gapless, Bijection, Injection, Surjection, IsInjective
  <2>2. f \in Injection(InHand(s), H) /\ ExistsBijection(InHand(s), H)
    BY <2>1 DEF ExistsBijection, Bijection
  <2> HIDE DEF f, H
  <2>3. IsFiniteSet(InHand(s))
    BY <1>5, <2>2, FS_Injection
  <2> QED BY <2>2, <2>3, FS_Bijection
<1>12. Cardinality(R \cup H) = Cardinality(R) + Cardinality(H) /\ IsFiniteSet(R \cup H)
  BY <1>5, <1>7, Disjoint
<1>13. Cardinality((R \cup H) \cup Q) = Cardinality(R \cup H) + Cardinality(Q)
  BY <1>5, <1>8, <1>12, Disjoint
<1>14. ToSet(received[s]) \cup Pending(s) = (R \cup H) \cup Q
  BY DEF Pending
<1>15. Cardinality(InHand(s)) \in Nat
  BY <1>11, FS_CardinalityType
<1> HIDE DEF R, Q, H
<1>16. Cardinality((R \cup H) \cup Q) = (Len(received[s]) + Cardinality(InHand(s))) + Len(queue[s])
  BY <1>9, <1>10, <1>11, <1>12, <1>13
<1>17. \A a, b, c \in Nat : (a + b) + c = a + c + b
  OBVIOUS
<1>18. Len(received[s]) \in Nat /\ Len(queue[s]) \in Nat
  BY <1>1
<1> QED BY <1>14, <1>15, <1>16, <1>17, <1>18

\* Replay and publication under one monitor: what a browser got, what is being
\* sent to it and what waits for it are its stream's latest events, each once.
THEOREM NoEventIsMissed == SafetySpec => []NoGap
<1>1. ASSUME DeliveryInv, GapInv PROVE NoGap
  <2> SUFFICES ASSUME NEW s \in Subscribers, sub[s] \in {"wake", "return", "open"}, s \notin closed,
                      sse[s] = "open"
               PROVE  LET last == sequence[streamOf[s]]
                          had == ToSet(received[s]) \cup Pending(s)
                      IN /\ had = {e \in 1..last : \E d \in had : d <= e}
                         /\ had = {} => last = 0
                         /\ Cardinality(had) = Len(received[s]) + Len(queue[s]) + Cardinality(InHand(s))
    BY DEF NoGap
  <2> DEFINE last == sequence[streamOf[s]]
             had == ToSet(received[s]) \cup Pending(s)
  <2>1. TypeInv /\ sub[s] \notin Unjoined
    BY <1>1 DEF DeliveryInv, Unjoined
  <2>2. Joined(s) /\ Gapless(s)
    BY <1>1, <2>1 DEF GapInv, Gap, Joined
  <2>3. Cardinality(had) = Len(received[s]) + Len(queue[s]) + Cardinality(InHand(s))
    BY <2>1, <2>2, EachOnce
  <2>4. /\ last \in Nat /\ Len(queue[s]) \in Nat /\ DOMAIN queue[s] = 1..Len(queue[s])
        /\ queue[s] \in Seq(Events) /\ received[s] \in Seq(Events) /\ Events \subseteq Nat \ {0}
    BY <2>1, EventNumbers
  <2>5. PICK first \in Nat \ {0} :
          /\ first <= Sent(s) + 1
          /\ first <= last \/ last = 0
          /\ \A d \in Events : Got(s, d) \/ Handed(s, d) <=> first <= d /\ d <= Sent(s)
    BY <2>2 DEF Gapless
  <2>6. 1..last \subseteq Events /\ Sent(s) = last - Len(queue[s]) /\ Sent(s) \in Nat
    <3>1. streamOf[s] \in Streams /\ last \in 0..MaxEvents
      BY <2>1, EventNumbers DEF TypeInv, TypeOK
    <3>2. 1..last \subseteq Events
      BY <3>1, CapacityAssumption DEF Events
    <3> QED BY <2>2, <3>2 DEF Sent, Joined
  <2>7. had \subseteq Events
    BY <2>1, <2>4 DEF ToSet, Pending, InHand, TypeInv, CallInv
  <2>8. \A e \in Events : e \in had <=> Got(s, e) \/ Handed(s, e) \/ \E i \in 1..Len(queue[s]) : e = Sent(s) + i
    BY <2>2, <2>4 DEF ToSet, Pending, InHand, Got, Handed, Joined
  <2> HIDE DEF last, had
  <2>9. \A e \in Events : e \in had <=> first <= e /\ e <= last
    <3> SUFFICES ASSUME NEW e \in Events PROVE e \in had <=> first <= e /\ e <= last
      OBVIOUS
    <3>1. /\ e \in Nat
          /\ (\E i \in 1..Len(queue[s]) : e = Sent(s) + i) <=> (Sent(s) < e /\ e <= last)
      <4>1. e \in Nat
        BY <2>4
      <4>2. ASSUME Sent(s) < e, e <= last PROVE \E i \in 1..Len(queue[s]) : e = Sent(s) + i
        <5>1. e - Sent(s) \in 1..Len(queue[s]) /\ e = Sent(s) + (e - Sent(s))
          <6> DEFINE n == Len(queue[s])
                     q == Sent(s)
          <6>1. n \in Nat /\ q \in Nat /\ q = last - n /\ q < e /\ e <= last
            BY <2>4, <2>6, <4>2
          <6> HIDE DEF n, q
          <6>2. e - q \in 1..n /\ e = q + (e - q)
            BY <2>4, <4>1, <6>1
          <6> QED BY <6>2 DEF n, q
        <5> QED BY <5>1
      <4>3. ASSUME NEW i \in 1..Len(queue[s]), e = Sent(s) + i PROVE Sent(s) < e /\ e <= last
        <5> DEFINE n == Len(queue[s])
                   q == Sent(s)
        <5>1. n \in Nat /\ q \in Nat /\ q = last - n /\ i \in 1..n /\ e = q + i
          BY <2>4, <2>6, <4>3
        <5> HIDE DEF n, q
        <5>2. q < e /\ e <= last
          BY <2>4, <5>1
        <5> QED BY <5>2 DEF q
      <4> QED BY <4>1, <4>2, <4>3
    <3>2. e \in had <=> (Got(s, e) \/ Handed(s, e)) \/ (Sent(s) < e /\ e <= last)
      BY <2>8, <3>1
    <3>3. Got(s, e) \/ Handed(s, e) <=> first <= e /\ e <= Sent(s)
      BY <2>5
    <3> DEFINE q == Sent(s)
               n == Len(queue[s])
    <3>4. /\ q \in Nat /\ n \in Nat /\ last \in Nat /\ first \in Nat /\ e \in Nat
          /\ q = last - n /\ first <= q + 1
      BY <2>4, <2>5, <2>6, <3>1
    <3>5. e \in had <=> (first <= e /\ e <= q) \/ (q < e /\ e <= last)
      BY <3>2, <3>3
    <3> HIDE DEF q, n
    <3>6. (first <= e /\ e <= q) \/ (q < e /\ e <= last) <=> first <= e /\ e <= last
      BY <3>4
    <3> QED BY <3>5, <3>6
  <2>10. had = {e \in 1..last : \E d \in had : d <= e}
    <3>1. ASSUME NEW e \in had PROVE e \in 1..last /\ e <= e
      BY <2>4, <2>7, <2>9
    <3>2. ASSUME NEW e \in 1..last, NEW d \in had, d <= e PROVE e \in had
      BY <2>4, <2>6, <2>7, <2>9, <3>2
    <3> QED BY <3>1, <3>2
  <2>11. had = {} => last = 0
    <3>1. ASSUME last # 0 PROVE last \in had
      BY <2>4, <2>5, <2>6, <2>9, <3>1
    <3> QED BY <3>1
  <2> QED BY <2>3, <2>10, <2>11 DEF last, had
<1>2. Init => DeliveryInv /\ GapInv
  BY DeliveryStart, GapStart
<1> QED BY <1>1, <1>2, DeliveryKept, GapStep, PTL DEF SafetySpec
=============================================================================
