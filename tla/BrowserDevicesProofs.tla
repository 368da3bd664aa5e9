------------------------ MODULE BrowserDevicesProofs ------------------------
(***************************************************************************)
(* Theorems about BrowserDevices for every number of clicks, lost links    *)
(* and broken sockets, with and without auto-connect.                      *)
(***************************************************************************)
EXTENDS BrowserDevices, FiniteSetTheorems, TLAPS

-----------------------------------------------------------------------------
(* The inductive invariant, as a predicate of pages.                       *)

Timed(u) == (u.state = "CONNECTING") = u.pending /\ u.pending = u.timer

\* A device that may be retried has been retried as often as it has attempts.
Counted(u) ==
  /\ u.tries <= Retries
  /\ u.eligible => u.tries <= u.attempts
  /\ u.eligible /\ u.retryTimer => u.attempts < Retries

Identified(u) == u.identity \/ u.idnReq # None => u.state = "CONNECTED" /\ u.asked

Finite(u) == IsFiniteSet(u.connectReq) /\ IsFiniteSet(u.disconnectReq)

Steady(u) == u \in Page /\ Finite(u) /\ Counted(u) /\ Identified(u)
Sound(u)  == Steady(u) /\ Timed(u)

\* v differs from u in nothing the invariant is about.
Alike(u, v) ==
  /\ v.state = u.state /\ v.pending = u.pending /\ v.timer = u.timer
  /\ v.connectReq = u.connectReq /\ v.disconnectReq = u.disconnectReq
  /\ v.eligible = u.eligible /\ v.attempts = u.attempts /\ v.tries = u.tries
  /\ v.retryTimer = u.retryTimer /\ v.manual = u.manual
  /\ v.idnReq = u.idnReq /\ v.identity = u.identity /\ v.asked = u.asked
  /\ v.listed = u.listed /\ v.autoTimer = u.autoTimer /\ v.socket = u.socket

\* One list is asked for when a socket opens, and the page is listed when it
\* has come.
NoList(q)  == \A i \in DOMAIN q : q[i].kind # "list"
OneList(q) == \A i, j \in DOMAIN q : q[i].kind = "list" /\ q[j].kind = "list" => i = j
Listing ==
  /\ ui.listed => NoList(ui.out) /\ NoList(inn)
  /\ OneList(ui.out) /\ OneList(inn) /\ (NoList(ui.out) \/ NoList(inn))
  /\ ui.socket # "open" => ui.out = <<>> /\ inn = <<>>
  /\ ui.socket = "closed" => ~ui.listed

\* After a manual disconnect nothing is left that would connect.
Revoked == revoked => ui.manual /\ ~ui.eligible /\ ~ui.autoTimer /\ ui.listed

IInv == TypeOK /\ Sound(ui) /\ Listing /\ Revoked

LEMMA AlikeSound ==
  ASSUME NEW u, NEW v \in Page, Alike(u, v), Sound(u)
  PROVE  Sound(v)
BY DEF Alike, Sound, Steady, Finite, Timed, Counted, Identified

-----------------------------------------------------------------------------
(* Frames.                                                                 *)

Kinds == {"list", "status", "connect", "disconnect", "idn", "poll"}

\* v has sent at most one more frame than u, of one of these kinds, and only
\* over an open socket.
Sends(u, v, kinds) ==
  \/ v.out = u.out
  \/ /\ u.socket = "open"
     /\ \E k \in kinds, i \in Ids : v.out = Append(u.out, [kind |-> k, id |-> i])

\* What refers to an identifier is finite.
LEMMA IdsOfSequence ==
  ASSUME NEW S, NEW q \in Seq(S)
  PROVE  IsFiniteSet(Range(q))
<1>1. IsFiniteSet(1 .. Len(q)) /\ DOMAIN q = 1 .. Len(q)
  BY FS_Interval
<1>2. q \in Surjection(1 .. Len(q), Range(q))
  BY <1>1 DEF Surjection, Range
<1> QED BY <1>1, <1>2, FS_Surjection

LEMMA NewIdIsId ==
  ASSUME NEW u \in Page, Finite(u), inn \in Seq(Reply)
  PROVE  NewId(u) \in Ids /\ NewId(u) \notin InUse(u)
<1> DEFINE M == Range(u.out) \cup Range(inn)
           f == [m \in M |-> m.id]
           N == InUse(u)
           n == Cardinality(N)
<1>1. IsFiniteSet(M)
  <2>1. u.out \in Seq(Frame)
    BY DEF Page
  <2> QED BY <2>1, IdsOfSequence, FS_Union
<1>2. IsFiniteSet({m.id : m \in M})
  <2>1. f \in Surjection(M, {m.id : m \in M})
    BY DEF Surjection
  <2> QED BY <1>1, <2>1, FS_Surjection
<1>3. IsFiniteSet({u.statusReq, u.idnReq, u.poll})
  <2>1. IsFiniteSet({u.statusReq}) /\ IsFiniteSet({u.idnReq}) /\ IsFiniteSet({u.poll})
    BY FS_Singleton
  <2>2. IsFiniteSet({u.statusReq} \cup {u.idnReq})
    BY <2>1, FS_Union
  <2>3. IsFiniteSet(({u.statusReq} \cup {u.idnReq}) \cup {u.poll})
    BY <2>1, <2>2, FS_Union
  <2>4. {u.statusReq, u.idnReq, u.poll} = ({u.statusReq} \cup {u.idnReq}) \cup {u.poll}
    OBVIOUS
  <2> QED BY <2>3, <2>4
<1>4. IsFiniteSet(N)
  BY <1>2, <1>3, FS_Union DEF InUse, Finite
<1>5. n \in Nat
  BY <1>4, FS_CardinalityType
<1> HIDE DEF N, n
<1>6. IsFiniteSet(1 .. n + 1) /\ Cardinality(1 .. n + 1) = n + 1
  BY <1>5, FS_Interval
<1>7. \E i \in 1 .. n + 1 : i \notin N
  <2>1. SUFFICES ASSUME 1 .. n + 1 \subseteq N PROVE FALSE
    OBVIOUS
  <2>2. Cardinality(1 .. n + 1) <= n
    BY <1>4, <2>1, FS_Subset DEF n
  <2> QED BY <1>5, <1>6, <2>2
<1>8. NewId(u) \in 1 .. n + 1 /\ NewId(u) \notin N
  BY <1>7 DEF NewId, N, n
<1> QED BY <1>5, <1>8 DEF Ids, N

LEMMA Sent ==
  ASSUME NEW u \in Page, Finite(u), u.socket = "open", inn \in Seq(Reply), NEW k \in Kinds
  PROVE  /\ Send(u, k) \in Page
         /\ Alike(u, Send(u, k))
         /\ Sends(u, Send(u, k), {k})
         /\ NewId(u) \in Ids
<1> DEFINE e == [kind |-> k, id |-> NewId(u)]
           o == Append(u.out, e)
<1>1. NewId(u) \in Ids
  BY NewIdIsId
<1>2. e \in Frame
  BY <1>1 DEF Frame, Kinds
<1>3. o \in Seq(Frame)
  BY <1>2 DEF Page
<1>4. Send(u, k) = [u EXCEPT !.out = o]
  BY DEF Send
<1>5. Sends(u, Send(u, k), {k})
  BY <1>1, <1>4 DEF Sends, Page
<1> HIDE DEF o
<1>6. Send(u, k) \in Page
  BY <1>3, <1>4 DEF Page
<1>7. Alike(u, Send(u, k))
  BY <1>4 DEF Page, Alike
<1> QED BY <1>1, <1>5, <1>6, <1>7

-----------------------------------------------------------------------------
(* Pages and what is done to them.                                         *)

\* What a new state does to the counts and to the identity.
LEMMA Patched ==
  ASSUME NEW u \in Page, NEW s \in States
  PROVE  LET p == Patch(u, s)
         IN /\ p \in Page
            /\ p.state = s
            /\ p.pending = u.pending /\ p.timer = u.timer /\ p.manual = u.manual
            /\ p.connectReq = u.connectReq /\ p.disconnectReq = u.disconnectReq
            /\ p.retryTimer = u.retryTimer
            /\ p.listed = u.listed /\ p.autoTimer = u.autoTimer /\ p.socket = u.socket /\ p.out = u.out
            /\ p.eligible => \/ s = "CONNECTED" /\ ~u.manual /\ p.tries = 0 /\ p.attempts = 0
                             \/ u.eligible /\ p.attempts = u.attempts
            /\ p.tries = IF s = "CONNECTED" THEN 0 ELSE u.tries
            /\ s = "CONNECTED" => p.idnReq = u.idnReq /\ p.identity = u.identity /\ p.asked = u.asked
            /\ s # "CONNECTED" => p.idnReq = None /\ ~p.identity
<1> DEFINE earned == s = "CONNECTED" /\ ~u.manual
           spent == IF earned THEN 0 ELSE u.attempts
           ok == (u.eligible \/ earned) /\ ~(s = "DISCONNECTED" /\ spent >= Retries)
           rec == ok /\ s \in {"DISCONNECTED", "CONNECTING"}
           r == [u EXCEPT !.attempts = spent, !.eligible = ok, !.reconnecting = rec]
           q == [r EXCEPT !.state = s, !.stale = TRUE]
<1>1. RecordState(u, s) = r
  BY DEF RecordState
<1>2. spent \in 0 .. Retries /\ ok \in BOOLEAN /\ rec \in BOOLEAN
  BY DEF Page, Retries
<1> HIDE DEF spent, ok, rec
<1>3. /\ r \in Page
      /\ r.attempts = spent /\ r.eligible = ok
      /\ r.pending = u.pending /\ r.timer = u.timer /\ r.manual = u.manual
      /\ r.connectReq = u.connectReq /\ r.disconnectReq = u.disconnectReq
      /\ r.retryTimer = u.retryTimer /\ r.tries = u.tries
      /\ r.listed = u.listed /\ r.autoTimer = u.autoTimer /\ r.socket = u.socket /\ r.out = u.out
      /\ r.idnReq = u.idnReq /\ r.identity = u.identity /\ r.asked = u.asked
  BY <1>2, ZenonT(60) DEF Page
<1> HIDE DEF r
<1>4. /\ q \in Page
      /\ q.attempts = spent /\ q.eligible = ok /\ q.state = s
      /\ q.pending = u.pending /\ q.timer = u.timer /\ q.manual = u.manual
      /\ q.connectReq = u.connectReq /\ q.disconnectReq = u.disconnectReq
      /\ q.retryTimer = u.retryTimer /\ q.tries = u.tries
      /\ q.listed = u.listed /\ q.autoTimer = u.autoTimer /\ q.socket = u.socket /\ q.out = u.out
      /\ q.idnReq = u.idnReq /\ q.identity = u.identity /\ q.asked = u.asked
  BY <1>3 DEF Page
<1>5. Patch(u, s) = IF s = "CONNECTED" THEN [q EXCEPT !.tries = 0]
                    ELSE [q EXCEPT !.asked = FALSE, !.idnReq = None, !.identity = FALSE]
  BY <1>1 DEF Patch
<1>6. ok => \/ s = "CONNECTED" /\ ~u.manual /\ spent = 0
            \/ u.eligible /\ spent = u.attempts
  BY DEF ok, spent
<1> HIDE DEF q
<1>7. CASE s = "CONNECTED"
  <2> DEFINE e == [q EXCEPT !.tries = 0]
  <2>1. Patch(u, s) = e
    BY <1>5, <1>7
  <2>2. e \in Page /\ e.tries = 0
    BY <1>4 DEF Page
  <2>3. /\ e.attempts = spent /\ e.eligible = ok /\ e.state = s
        /\ e.pending = u.pending /\ e.timer = u.timer /\ e.manual = u.manual
        /\ e.connectReq = u.connectReq /\ e.disconnectReq = u.disconnectReq
        /\ e.retryTimer = u.retryTimer
        /\ e.listed = u.listed /\ e.autoTimer = u.autoTimer /\ e.socket = u.socket /\ e.out = u.out
        /\ e.idnReq = u.idnReq /\ e.identity = u.identity /\ e.asked = u.asked
    BY <1>4 DEF Page
  <2> HIDE DEF e
  <2> QED BY <1>6, <1>7, <2>1, <2>2, <2>3
<1>8. CASE s # "CONNECTED"
  <2> DEFINE e == [q EXCEPT !.asked = FALSE, !.idnReq = None, !.identity = FALSE]
  <2>1. Patch(u, s) = e
    BY <1>5, <1>8
  <2>2. e \in Page
    <3>1. q \in Page /\ None \in Ids \cup {None}
      BY <1>4
    <3> QED BY <3>1, ZenonT(60) DEF Page
  <2>3. e.idnReq = None /\ e.identity = FALSE
    BY <1>4 DEF Page
  <2>4. /\ e.attempts = q.attempts /\ e.eligible = q.eligible /\ e.state = q.state
        /\ e.pending = q.pending /\ e.timer = q.timer /\ e.manual = q.manual
    BY <1>4 DEF Page
  <2>5. /\ e.connectReq = q.connectReq /\ e.disconnectReq = q.disconnectReq
        /\ e.retryTimer = q.retryTimer /\ e.tries = q.tries
        /\ e.listed = q.listed /\ e.autoTimer = q.autoTimer /\ e.socket = q.socket /\ e.out = q.out
    BY <1>4 DEF Page
  <2> HIDE DEF e
  <2> QED BY <1>4, <1>6, <1>8, <2>1, <2>2, <2>3, <2>4, <2>5
<1> QED BY <1>7, <1>8

\* A new state agrees with what is pending.
LEMMA Repatched ==
  ASSUME NEW u, Steady(u), u.pending = u.timer,
         NEW s \in States, (s = "CONNECTING") = u.pending
  PROVE  Sound(Patch(u, s))
<1> DEFINE p == Patch(u, s)
<1>1. u \in Page
  BY DEF Steady
<1> HIDE DEF p
<1>2. p \in Page /\ Finite(p) /\ Timed(p)
  BY <1>1, Patched DEF Steady, Finite, Timed, p
<1>3. Counted(p)
  <2>1. /\ p.tries = IF s = "CONNECTED" THEN 0 ELSE u.tries
        /\ p.retryTimer = u.retryTimer
        /\ p.eligible => \/ p.tries = 0 /\ p.attempts = 0
                         \/ u.eligible /\ p.attempts = u.attempts
    BY <1>1, Patched DEF p
  <2>2. Counted(u) /\ u.attempts \in Nat /\ u.tries \in Nat
    BY <1>1 DEF Steady, Page
  <2>3. p.tries <= u.tries /\ p.tries \in Nat
    BY <2>1, <2>2
  <2> QED BY <2>1, <2>2, <2>3 DEF Counted, Retries
<1>4. Identified(p)
  BY <1>1, Patched DEF Steady, Identified, p
<1> QED BY <1>2, <1>3, <1>4 DEF Sound, Steady, p

LEMMA Finished ==
  ASSUME NEW u \in Page
  PROVE  LET f == Finish(u)
         IN /\ f \in Page
            /\ f.pending = FALSE /\ f.timer = FALSE /\ f.connectReq = {}
            /\ f.state = u.state /\ f.disconnectReq = u.disconnectReq
            /\ f.eligible = u.eligible /\ f.attempts = u.attempts /\ f.tries = u.tries
            /\ f.retryTimer = u.retryTimer /\ f.manual = u.manual
            /\ f.idnReq = u.idnReq /\ f.identity = u.identity /\ f.asked = u.asked
            /\ f.listed = u.listed /\ f.autoTimer = u.autoTimer /\ f.socket = u.socket /\ f.out = u.out
BY DEF Finish, Page

\* An attempt that is over.
LEMMA Ended ==
  ASSUME NEW u, Steady(u), NEW s \in States \ {"CONNECTING"}
  PROVE  LET p == Patch(Finish(u), s)
         IN /\ Sound(p)
            /\ p.state = s /\ p.pending = FALSE /\ p.manual = u.manual
            /\ p.eligible => u.eligible \/ (s = "CONNECTED" /\ ~u.manual)
            /\ p.listed = u.listed /\ p.autoTimer = u.autoTimer /\ p.socket = u.socket /\ p.out = u.out
<1> DEFINE f == Finish(u)
           p == Patch(f, s)
<1>1. u \in Page
  BY DEF Steady
<1> HIDE DEF f, p
<1>2. /\ f \in Page /\ f.pending = FALSE /\ f.timer = FALSE
      /\ f.eligible = u.eligible /\ f.manual = u.manual
      /\ f.listed = u.listed /\ f.autoTimer = u.autoTimer /\ f.socket = u.socket /\ f.out = u.out
  BY <1>1, Finished DEF f
<1>3. Finite(f)
  BY <1>1, Finished, FS_EmptySet DEF f, Steady, Finite
<1>4. Counted(f) /\ Identified(f)
  BY <1>1, Finished DEF f, Steady, Counted, Identified
<1>5. Sound(p)
  BY <1>2, <1>3, <1>4, Repatched DEF p, Steady
<1>6. /\ p.state = s /\ p.pending = f.pending /\ p.manual = f.manual
      /\ p.listed = f.listed /\ p.autoTimer = f.autoTimer /\ p.socket = f.socket /\ p.out = f.out
  BY <1>2, Patched DEF p
<1>7. p.eligible => f.eligible \/ (s = "CONNECTED" /\ ~f.manual)
  BY <1>2, Patched DEF p
<1> QED BY <1>2, <1>5, <1>6, <1>7 DEF p, f

-----------------------------------------------------------------------------
(* What the hooks do, one operator of BrowserDevices after another.        *)

Placed(u, v) == v.listed = u.listed /\ v.autoTimer = u.autoTimer /\ v.socket = u.socket

\* After a manual disconnect v is no more eligible for retries than u.
Minds(u, v) == Placed(u, v) /\ (u.manual => v.manual /\ (v.eligible => u.eligible))

\* A frame sent, and its request noted.
LEMMA Noted ==
  ASSUME NEW u, Sound(u), u.socket = "open", inn \in Seq(Reply), NEW k \in Kinds
  PROVE  LET n == Send(u, k)
             i == NewId(u)
         IN /\ Sound(n) /\ Alike(u, n) /\ Sends(u, n, {k}) /\ i \in Ids
            /\ Sound([n EXCEPT !.connectReq = @ \cup {i}])
            /\ Sound([n EXCEPT !.disconnectReq = @ \cup {i}])
            /\ Sound([n EXCEPT !.statusReq = i])
            /\ Sound([n EXCEPT !.poll = i])
            /\ u.state = "CONNECTED" => Sound([n EXCEPT !.asked = TRUE, !.idnReq = i])
<1> DEFINE n == Send(u, k)
           i == NewId(u)
<1>1. n \in Page /\ Alike(u, n) /\ Sends(u, n, {k}) /\ i \in Ids /\ Sound(n)
  BY Sent, AlikeSound DEF Sound, Steady
<1> HIDE DEF n, i
<1>2. IsFiniteSet(n.connectReq \cup {i}) /\ IsFiniteSet(n.disconnectReq \cup {i})
  BY <1>1, FS_AddElement DEF Sound, Steady, Finite
<1>3. Sound([n EXCEPT !.connectReq = @ \cup {i}])
  <2> DEFINE c == n.connectReq \cup {i}
             v == [n EXCEPT !.connectReq = c]
  <2>1. c \in SUBSET Ids
    BY <1>1 DEF Page
  <2> HIDE DEF c
  <2>2. v \in Page /\ v.connectReq = c /\ v.disconnectReq = n.disconnectReq
    BY <1>1, <2>1 DEF Page
  <2>3. Timed(v) /\ Counted(v) /\ Identified(v)
    BY <1>1 DEF Sound, Steady, Timed, Counted, Identified, Page
  <2> QED BY <1>1, <1>2, <2>2, <2>3 DEF Sound, Steady, Finite, c
<1>4. Sound([n EXCEPT !.disconnectReq = @ \cup {i}])
  <2> DEFINE c == n.disconnectReq \cup {i}
             v == [n EXCEPT !.disconnectReq = c]
  <2>1. c \in SUBSET Ids
    BY <1>1 DEF Page
  <2> HIDE DEF c
  <2>2. v \in Page /\ v.disconnectReq = c /\ v.connectReq = n.connectReq
    BY <1>1, <2>1 DEF Page
  <2>3. Timed(v) /\ Counted(v) /\ Identified(v)
    BY <1>1 DEF Sound, Steady, Timed, Counted, Identified, Page
  <2> QED BY <1>1, <1>2, <2>2, <2>3 DEF Sound, Steady, Finite, c
<1>5. Sound([n EXCEPT !.statusReq = i])
  <2> DEFINE v == [n EXCEPT !.statusReq = i]
  <2>1. v \in Page
    BY <1>1 DEF Page
  <2>2. Alike(n, v)
    BY <1>1 DEF Page, Alike
  <2> QED BY <1>1, <2>1, <2>2, AlikeSound
<1>6. Sound([n EXCEPT !.poll = i])
  <2> DEFINE v == [n EXCEPT !.poll = i]
  <2>1. v \in Page
    BY <1>1 DEF Page
  <2>2. Alike(n, v)
    BY <1>1 DEF Page, Alike
  <2> QED BY <1>1, <2>1, <2>2, AlikeSound
<1>7. ASSUME u.state = "CONNECTED" PROVE Sound([n EXCEPT !.asked = TRUE, !.idnReq = i])
  <2> DEFINE v == [n EXCEPT !.asked = TRUE, !.idnReq = i]
  <2>1. v \in Page
    BY <1>1 DEF Page
  <2>2. v.state = n.state /\ v.asked = TRUE /\ n.state = "CONNECTED"
    BY <1>1, <1>7 DEF Page, Alike
  <2>3. Timed(v) /\ Counted(v) /\ Finite(v)
    BY <1>1 DEF Sound, Steady, Timed, Counted, Finite, Page
  <2> HIDE DEF v
  <2>4. Identified(v)
    BY <2>2 DEF Identified
  <2> QED BY <2>1, <2>3, <2>4 DEF Sound, Steady, v
<1> QED BY <1>1, <1>3, <1>4, <1>5, <1>6, <1>7 DEF n, i

LEMMA RequestsIdentity ==
  ASSUME NEW u, Sound(u), inn \in Seq(Reply)
  PROVE  /\ Sound(RequestIdentity(u)) /\ Minds(u, RequestIdentity(u))
         /\ Sends(u, RequestIdentity(u), {"idn"})
<1> DEFINE n == Send(u, "idn")
           v == [n EXCEPT !.asked = TRUE, !.idnReq = NewId(u)]
<1>1. CASE RequestIdentity(u) = u
  BY <1>1 DEF Minds, Placed, Sends
<1>2. CASE u.state = "CONNECTED" /\ u.socket = "open" /\ RequestIdentity(u) = v
  <2>1. Sound(n) /\ Alike(u, n) /\ Sends(u, n, {"idn"}) /\ Sound(v)
    BY <1>2, Noted DEF Kinds
  <2> HIDE DEF n
  <2>2. /\ v.out = n.out /\ v.manual = n.manual /\ v.eligible = n.eligible
        /\ v.listed = n.listed /\ v.autoTimer = n.autoTimer /\ v.socket = n.socket
    BY <2>1 DEF Sound, Steady, Page
  <2> HIDE DEF v
  <2> QED BY <1>2, <2>1, <2>2 DEF Minds, Placed, Alike, Sends
<1> QED BY <1>1, <1>2 DEF RequestIdentity, CanSend

LEMMA PollsIdentity ==
  ASSUME NEW u, Sound(u), inn \in Seq(Reply)
  PROVE  /\ Sound(PollIdentity(u)) /\ Minds(u, PollIdentity(u))
         /\ Sends(u, PollIdentity(u), {"poll"})
<1> DEFINE n == Send(u, "poll")
           v == [n EXCEPT !.poll = NewId(u)]
           e == [u EXCEPT !.poll = None]
<1>1. CASE PollIdentity(u) = u
  BY <1>1 DEF Minds, Placed, Sends
<1>2. CASE u.socket = "open" /\ PollIdentity(u) = v
  <2>1. Sound(n) /\ Alike(u, n) /\ Sends(u, n, {"poll"}) /\ Sound(v)
    BY <1>2, Noted DEF Kinds
  <2> HIDE DEF n
  <2>2. /\ v.out = n.out /\ v.manual = n.manual /\ v.eligible = n.eligible
        /\ v.listed = n.listed /\ v.autoTimer = n.autoTimer /\ v.socket = n.socket
    BY <2>1 DEF Sound, Steady, Page
  <2> HIDE DEF v
  <2> QED BY <1>2, <2>1, <2>2 DEF Minds, Placed, Alike, Sends
<1>3. CASE PollIdentity(u) = e
  <2>1. e \in Page
    BY DEF Sound, Steady, Page, None
  <2>2. Alike(u, e) /\ e.out = u.out
    BY DEF Sound, Steady, Page, Alike
  <2> HIDE DEF e
  <2>3. Sound(e)
    BY <2>1, <2>2, AlikeSound
  <2> QED BY <1>3, <2>2, <2>3 DEF Minds, Placed, Alike, Sends
<1> QED BY <1>1, <1>2, <1>3 DEF PollIdentity, CanSend

LEMMA Connects ==
  ASSUME NEW u, Sound(u), inn \in Seq(Reply)
  PROVE  /\ Sound(Connect(u)) /\ Placed(u, Connect(u))
         /\ Sends(u, Connect(u), {"connect"})
<1>1. CASE Connect(u) = u
  BY <1>1 DEF Placed, Sends
<1>2. CASE Connect(u) # u
  <2> DEFINE p == Patch(u, "CONNECTING")
             v == [p EXCEPT !.pending = TRUE, !.timer = TRUE, !.manual = FALSE]
             n == Send(v, "connect")
             c == [n EXCEPT !.connectReq = @ \cup {NewId(v)}]
  <2>1. Connect(u) = IF CanSend(v) THEN c ELSE Failed(v)
    BY <1>2 DEF Connect
  <2>2. u \in Page /\ "CONNECTING" \in States
    BY DEF Sound, Steady, States
  <2> HIDE DEF p
  <2>3. /\ p \in Page /\ p.state = "CONNECTING" /\ p.idnReq = None /\ ~p.identity
        /\ p.connectReq = u.connectReq /\ p.disconnectReq = u.disconnectReq
        /\ p.retryTimer = u.retryTimer /\ p.tries = u.tries
        /\ p.listed = u.listed /\ p.autoTimer = u.autoTimer /\ p.socket = u.socket /\ p.out = u.out
    BY <2>2, Patched DEF p
  <2>4. p.eligible => u.eligible /\ p.attempts = u.attempts
    BY <2>2, Patched DEF p
  <2>5. v \in Page
    <3>1. p \in Page
      BY <2>3
    <3> QED BY <3>1 DEF Page
  <2>6. /\ v.state = "CONNECTING" /\ v.pending = TRUE /\ v.timer = TRUE
        /\ v.idnReq = None /\ ~v.identity
        /\ v.connectReq = u.connectReq /\ v.disconnectReq = u.disconnectReq
        /\ v.retryTimer = u.retryTimer /\ v.tries = u.tries
        /\ v.listed = u.listed /\ v.autoTimer = u.autoTimer /\ v.socket = u.socket /\ v.out = u.out
    <3>1. v.state = p.state /\ v.pending = TRUE /\ v.timer = TRUE /\ v.idnReq = p.idnReq /\ v.identity = p.identity
      BY <2>3 DEF Page
    <3>2. /\ v.connectReq = p.connectReq /\ v.disconnectReq = p.disconnectReq
          /\ v.retryTimer = p.retryTimer /\ v.tries = p.tries
      BY <2>3 DEF Page
    <3>3. v.listed = p.listed /\ v.autoTimer = p.autoTimer /\ v.socket = p.socket /\ v.out = p.out
      BY <2>3 DEF Page
    <3> HIDE DEF v
    <3> QED BY <2>3, <3>1, <3>2, <3>3
  <2>7. v.eligible => u.eligible /\ v.attempts = u.attempts
    BY <2>3, <2>4 DEF Page
  <2> HIDE DEF v
  <2>8. Sound(v)
    <3>1. Timed(v) /\ Finite(v) /\ Identified(v)
      BY <2>6 DEF Timed, Finite, Identified, Sound, Steady
    <3>2. Counted(v)
      BY <2>6, <2>7 DEF Counted, Sound, Steady
    <3> QED BY <2>5, <3>1, <3>2 DEF Sound, Steady
  <2>9. CASE v.socket = "open" /\ Connect(u) = c
    <3>1. Sound(n) /\ Alike(v, n) /\ Sends(v, n, {"connect"}) /\ Sound(c)
      BY <2>8, <2>9, Noted DEF Kinds
    <3> HIDE DEF n
    <3>2. /\ c.out = n.out /\ c.listed = n.listed /\ c.autoTimer = n.autoTimer /\ c.socket = n.socket
      BY <3>1 DEF Sound, Steady, Page
    <3> HIDE DEF c
    <3> QED BY <2>6, <2>9, <3>1, <3>2 DEF Placed, Alike, Sends
  <2>10. CASE Connect(u) = Failed(v)
    <3>1. /\ Sound(Failed(v)) /\ Failed(v).out = v.out
          /\ Failed(v).listed = v.listed /\ Failed(v).autoTimer = v.autoTimer /\ Failed(v).socket = v.socket
      BY <2>8, Ended DEF Failed, Sound, States
    <3> QED BY <2>6, <2>10, <3>1 DEF Placed, Sends
  <2> QED BY <2>1, <2>9, <2>10 DEF CanSend
<1> QED BY <1>1, <1>2

LEMMA Suppresses ==
  ASSUME NEW u, Sound(u)
  PROVE  LET v == Suppress(u)
         IN /\ Steady(v) /\ v.manual = TRUE /\ v.eligible = FALSE
            /\ v.out = u.out /\ Placed(u, v)
<1> DEFINE v == Suppress(u)
<1>1. u \in Page
  BY DEF Sound, Steady
<1>2. v \in Page
  <2>1. 0 \in 0 .. Retries
    BY DEF Retries
  <2> QED BY <1>1, <2>1 DEF Suppress, Page
<1>3. v.manual = TRUE /\ v.eligible = FALSE /\ v.tries = u.tries /\ v.out = u.out /\ Placed(u, v)
  BY <1>1 DEF Suppress, Page, Placed
<1>4. Finite(v) /\ Identified(v)
  BY <1>1 DEF Suppress, Page, Finite, Identified, Sound, Steady
<1> HIDE DEF v
<1>5. Counted(v)
  BY <1>3 DEF Counted, Sound, Steady
<1> QED BY <1>2, <1>3, <1>4, <1>5 DEF Steady, v

LEMMA Disconnects ==
  ASSUME NEW u, Sound(u), inn \in Seq(Reply)
  PROVE  LET d == Disconnect(u)
         IN /\ Sound(d) /\ Placed(u, d) /\ Sends(u, d, {"disconnect"})
            /\ u.listed => d.manual = TRUE /\ d.eligible = FALSE
<1>1. CASE ~u.listed
  BY <1>1 DEF Disconnect, Placed, Sends
<1>2. CASE u.listed
  <2> DEFINE w == Suppress(u)
             v == Patch(Finish(w), "DISCONNECTING")
             n == Send(v, "disconnect")
             d == [n EXCEPT !.disconnectReq = @ \cup {NewId(v)}]
             back == IF u.state = "CONNECTED" THEN "CONNECTED" ELSE "DISCONNECTED"
             b == Patch(v, back)
  <2>1. Disconnect(u) = IF CanSend(v) THEN d ELSE b
    BY <1>2 DEF Disconnect
  <2> HIDE DEF w
  <2>2. Steady(w) /\ w.manual = TRUE /\ w.eligible = FALSE /\ w.out = u.out /\ Placed(u, w)
    BY Suppresses DEF w
  <2>3. /\ Sound(v) /\ v.pending = FALSE /\ v.manual = w.manual
        /\ v.eligible => w.eligible
        /\ v.listed = w.listed /\ v.autoTimer = w.autoTimer /\ v.socket = w.socket /\ v.out = w.out
    BY <2>2, Ended DEF States
  <2> HIDE DEF v
  <2>4. /\ v.manual = TRUE /\ v.eligible = FALSE
        /\ v.listed = u.listed /\ v.autoTimer = u.autoTimer /\ v.socket = u.socket /\ v.out = u.out
    BY <2>2, <2>3 DEF Placed, Sound, Steady, Page
  <2>5. CASE v.socket = "open" /\ Disconnect(u) = d
    <3>1. Sound(n) /\ Alike(v, n) /\ Sends(v, n, {"disconnect"}) /\ Sound(d)
      BY <2>3, <2>5, Noted DEF Kinds
    <3> HIDE DEF n
    <3>2. /\ d.out = n.out /\ d.listed = n.listed /\ d.autoTimer = n.autoTimer /\ d.socket = n.socket
          /\ d.manual = n.manual /\ d.eligible = n.eligible
      BY <3>1 DEF Sound, Steady, Page
    <3> HIDE DEF d
    <3> QED BY <2>4, <2>5, <3>1, <3>2 DEF Placed, Alike, Sends
  <2>6. CASE Disconnect(u) = b
    <3>1. back \in States /\ back # "CONNECTING"
      BY DEF States
    <3> HIDE DEF back
    <3>2. v \in Page /\ Steady(v) /\ v.pending = v.timer
      BY <2>3 DEF Sound, Steady, Timed
    <3>3. Sound(b)
      BY <2>3, <3>1, <3>2, Repatched
    <3>4. b.manual = v.manual /\ b.out = v.out /\ b.listed = v.listed /\ b.autoTimer = v.autoTimer /\ b.socket = v.socket
      BY <3>1, <3>2, Patched
    <3>5. b.eligible => v.eligible
      BY <2>4, <3>1, <3>2, Patched
    <3> HIDE DEF b
    <3>6. b.eligible = FALSE
      BY <2>4, <3>3, <3>5 DEF Sound, Steady, Page
    <3> QED BY <2>4, <2>6, <3>3, <3>4, <3>6 DEF Placed, Sends
  <2> QED BY <2>1, <2>5, <2>6 DEF CanSend
<1> QED BY <1>1, <1>2

-----------------------------------------------------------------------------
(* Answers.                                                                *)

\* The frames that an answer may cause.
Follows == {"idn", "status"}
Heard(u, v) == Sound(v) /\ Minds(u, v) /\ Sends(u, v, Follows)

\* One field the invariant is not about, or a request that is answered.
LEMMA Aside ==
  ASSUME NEW u, Sound(u), NEW r \in Ids \cup {None}, NEW R \in SUBSET u.disconnectReq, NEW b \in BOOLEAN
  PROVE  /\ LET v == [u EXCEPT !.statusReq = r] IN Sound(v) /\ Alike(u, v) /\ v.out = u.out
         /\ LET v == [u EXCEPT !.poll = r] IN Sound(v) /\ Alike(u, v) /\ v.out = u.out
         /\ LET v == [u EXCEPT !.disconnectReq = R]
            IN /\ Sound(v) /\ v.manual = u.manual /\ v.eligible = u.eligible /\ v.out = u.out
               /\ Placed(u, v)
         /\ u.state = "CONNECTED" /\ u.asked =>
              LET v == [u EXCEPT !.idnReq = None, !.identity = b, !.stale = TRUE]
              IN Sound(v) /\ Minds(u, v) /\ v.out = u.out
<1>1. u \in Page
  BY DEF Sound, Steady
<1>2. LET v == [u EXCEPT !.statusReq = r] IN Sound(v) /\ Alike(u, v) /\ v.out = u.out
  <2> DEFINE v == [u EXCEPT !.statusReq = r]
  <2>1. v \in Page
    BY <1>1 DEF Page
  <2>2. Alike(u, v) /\ v.out = u.out
    BY <1>1 DEF Page, Alike
  <2> QED BY <2>1, <2>2, AlikeSound
<1>3. LET v == [u EXCEPT !.poll = r] IN Sound(v) /\ Alike(u, v) /\ v.out = u.out
  <2> DEFINE v == [u EXCEPT !.poll = r]
  <2>1. v \in Page
    BY <1>1 DEF Page
  <2>2. Alike(u, v) /\ v.out = u.out
    BY <1>1 DEF Page, Alike
  <2> QED BY <2>1, <2>2, AlikeSound
<1>4. LET v == [u EXCEPT !.disconnectReq = R]
      IN /\ Sound(v) /\ v.manual = u.manual /\ v.eligible = u.eligible /\ v.out = u.out
         /\ Placed(u, v)
  <2> DEFINE v == [u EXCEPT !.disconnectReq = R]
  <2>1. R \in SUBSET Ids
    BY <1>1 DEF Page
  <2>2. v \in Page /\ v.disconnectReq = R /\ v.connectReq = u.connectReq
    BY <1>1, <2>1 DEF Page
  <2>3. IsFiniteSet(R)
    BY FS_Subset DEF Sound, Steady, Finite
  <2>4. Timed(v) /\ Counted(v) /\ Identified(v)
    BY <1>1 DEF Sound, Steady, Timed, Counted, Identified, Page
  <2>5. v.manual = u.manual /\ v.eligible = u.eligible /\ v.out = u.out /\ Placed(u, v)
    BY <1>1 DEF Page, Placed
  <2>6. IsFiniteSet(u.connectReq)
    BY DEF Sound, Steady, Finite
  <2> HIDE DEF v
  <2>7. Sound(v)
    BY <2>2, <2>3, <2>4, <2>6 DEF Sound, Steady, Finite
  <2> QED BY <2>5, <2>7 DEF v
<1>5. ASSUME u.state = "CONNECTED", u.asked
      PROVE  LET v == [u EXCEPT !.idnReq = None, !.identity = b, !.stale = TRUE]
             IN Sound(v) /\ Minds(u, v) /\ v.out = u.out
  <2> DEFINE v == [u EXCEPT !.idnReq = None, !.identity = b, !.stale = TRUE]
  <2>1. v \in Page
    BY <1>1 DEF Page, None
  <2>2. v.state = u.state /\ v.asked = u.asked
    BY <1>1 DEF Page
  <2>3. Timed(v) /\ Counted(v) /\ Finite(v)
    BY <1>1 DEF Sound, Steady, Timed, Counted, Finite, Page
  <2>4. v.manual = u.manual /\ v.eligible = u.eligible /\ v.out = u.out /\ Placed(u, v)
    BY <1>1 DEF Page, Placed
  <2> HIDE DEF v
  <2>5. Identified(v)
    BY <1>5, <2>2 DEF Identified
  <2>6. Sound(v) /\ Minds(u, v)
    BY <2>1, <2>3, <2>4, <2>5 DEF Sound, Steady, Minds
  <2> QED BY <2>4, <2>6 DEF v
<1> QED BY <1>2, <1>3, <1>4, <1>5

\* The end of an attempt as an answer tells it.
LEMMA EndHeard ==
  ASSUME NEW u, Sound(u), NEW s \in {"CONNECTED", "DISCONNECTED"}
  PROVE  LET v == Patch(Finish(u), s)
         IN Heard(u, v) /\ v.out = u.out /\ v.state = s
<1> DEFINE v == Patch(Finish(u), s)
<1>1. s \in States \ {"CONNECTING"} /\ Steady(u)
  BY DEF Sound, States
<1> HIDE DEF v
<1>2. /\ Sound(v) /\ v.state = s /\ v.manual = u.manual
      /\ v.listed = u.listed /\ v.autoTimer = u.autoTimer /\ v.socket = u.socket /\ v.out = u.out
  BY <1>1, Ended DEF v
<1>3. v.eligible => u.eligible \/ (s = "CONNECTED" /\ ~u.manual)
  BY <1>1, Ended DEF v
<1> QED BY <1>2, <1>3 DEF Heard, Minds, Placed, Sends, v

\* What is heard after something else was.
LEMMA HeardAfter ==
  ASSUME NEW u, NEW v, NEW w, Minds(u, v), v.out = u.out, Heard(v, w)
  PROVE  Heard(u, w)
BY DEF Heard, Minds, Placed, Sends

LEMMA AlikeMinds ==
  ASSUME NEW u, NEW v, Alike(u, v)
  PROVE  Minds(u, v)
BY DEF Alike, Minds, Placed

LEMMA IdentityHeard ==
  ASSUME NEW u, Sound(u), inn \in Seq(Reply)
  PROVE  Heard(u, RequestIdentity(u))
BY RequestsIdentity DEF Heard, Sends, Follows

LEMMA NothingHeard ==
  ASSUME NEW u, Sound(u)
  PROVE  Heard(u, u)
BY DEF Heard, Minds, Placed, Sends

LEMMA StatusHeard ==
  ASSUME NEW u, Sound(u), NEW m \in Reply, inn \in Seq(Reply)
  PROVE  Heard(u, HandleStatus(u, m))
<1> DEFINE r == IF u.statusReq = m.id THEN None ELSE u.statusReq
           c == [u EXCEPT !.statusReq = r]
           up == m.kind = "UP"
           v == ApplyStatus(c, up)
<1>1. HandleStatus(u, m) = IF up THEN RequestIdentity(v) ELSE v
  <2>1. c = [u EXCEPT !.statusReq = IF @ = m.id THEN None ELSE @]
    OBVIOUS
  <2> QED BY <2>1 DEF HandleStatus
<1>2. r \in Ids \cup {None} /\ up \in BOOLEAN
  BY DEF Sound, Steady, Page, None
<1> HIDE DEF r, up
<1>3. Sound(c) /\ Alike(u, c) /\ c.out = u.out
  BY <1>2, Aside
<1> HIDE DEF c
<1>4. Heard(c, v) /\ v.out = c.out
  <2>1. CASE v = c
    BY <1>3, <2>1, NothingHeard
  <2>2. CASE c.pending /\ v = Patch(c, "CONNECTING")
    <3>1. c \in Page /\ "CONNECTING" \in States /\ c.pending = TRUE
      BY <1>3, <2>2 DEF Sound, Steady, Page, States
    <3>2. Sound(v)
      <4>1. Steady(c) /\ c.pending = c.timer
        BY <1>3 DEF Sound, Timed
      <4>2. Sound(Patch(c, "CONNECTING"))
        BY <3>1, <4>1, Repatched
      <4> QED BY <2>2, <4>2
    <3>3. v.manual = c.manual /\ v.listed = c.listed /\ v.autoTimer = c.autoTimer /\ v.socket = c.socket /\ v.out = c.out
      BY <2>2, <3>1, Patched
    <3>4. v.eligible => c.eligible
      BY <2>2, <3>1, Patched
    <3> QED BY <3>2, <3>3, <3>4 DEF Heard, Minds, Placed, Sends
  <2>3. CASE v = Patch(Finish(c), "CONNECTED")
    BY <1>3, <2>3, EndHeard
  <2>4. CASE v = Patch(Finish(c), "DISCONNECTED")
    BY <1>3, <2>4, EndHeard
  <2> QED BY <1>2, <2>1, <2>2, <2>3, <2>4 DEF ApplyStatus
<1> HIDE DEF v
<1>5. Heard(v, RequestIdentity(v))
  BY <1>4, IdentityHeard DEF Heard
<1>6. Heard(c, HandleStatus(u, m))
  <2>1. Minds(c, v)
    BY <1>4 DEF Heard
  <2>2. CASE HandleStatus(u, m) = v
    BY <1>4, <2>2
  <2>3. CASE HandleStatus(u, m) = RequestIdentity(v)
    BY <1>4, <1>5, <2>1, <2>3, HeardAfter
  <2> QED BY <1>1, <2>2, <2>3
<1> QED BY <1>3, <1>6, AlikeMinds, HeardAfter

LEMMA ConnectedHeard ==
  ASSUME NEW u, Sound(u), NEW m \in Reply, inn \in Seq(Reply)
  PROVE  Heard(u, HandleConnected(u, m))
<1> DEFINE v == Patch(Finish(u), "CONNECTED")
<1>1. CASE HandleConnected(u, m) = u
  BY <1>1, NothingHeard
<1>2. CASE HandleConnected(u, m) = RequestIdentity(v)
  <2>1. Heard(u, v) /\ v.out = u.out
    BY EndHeard
  <2> HIDE DEF v
  <2>2. Heard(v, RequestIdentity(v)) /\ Minds(u, v)
    BY <2>1, IdentityHeard DEF Heard
  <2> QED BY <1>2, <2>1, <2>2, HeardAfter
<1> QED BY <1>1, <1>2 DEF HandleConnected

\* The answer to a disconnect, or an error, ends an attempt.
LEMMA RequestEndHeard ==
  ASSUME NEW u, Sound(u), NEW R \in SUBSET u.disconnectReq
  PROVE  Heard(u, Patch(Finish([u EXCEPT !.disconnectReq = R]), "DISCONNECTED"))
<1> DEFINE c == [u EXCEPT !.disconnectReq = R]
           v == Patch(Finish(c), "DISCONNECTED")
<1>1. /\ Sound(c) /\ c.manual = u.manual /\ c.eligible = u.eligible /\ c.out = u.out
      /\ Placed(u, c)
  BY Aside
<1> HIDE DEF c
<1>2. Heard(c, v)
  BY <1>1, EndHeard
<1> HIDE DEF v
<1>3. Minds(u, c)
  BY <1>1 DEF Minds
<1>4. Heard(u, v)
  BY <1>1, <1>2, <1>3, HeardAfter
<1> QED BY <1>4 DEF v, c

LEMMA DisconnectedHeard ==
  ASSUME NEW u, Sound(u), NEW m \in Reply
  PROVE  Heard(u, HandleDisconnected(u, m))
<1> DEFINE R == u.disconnectReq \ {m.id}
<1>1. CASE HandleDisconnected(u, m) = u
  BY <1>1, NothingHeard
<1>2. CASE HandleDisconnected(u, m) = Patch(Finish([u EXCEPT !.disconnectReq = R]), "DISCONNECTED")
  BY <1>2, RequestEndHeard
<1> QED BY <1>1, <1>2 DEF HandleDisconnected

LEMMA ErrorHeard ==
  ASSUME NEW u, Sound(u), NEW m \in Reply
  PROVE  Heard(u, HandleError(u, m))
<1> DEFINE R == IF m.id \in u.connectReq THEN u.disconnectReq ELSE u.disconnectReq \ {m.id}
           c == [u EXCEPT !.disconnectReq = R]
<1>1. CASE HandleError(u, m) = u
  BY <1>1, NothingHeard
<1>2. CASE m.id \in u.disconnectReq \cup u.connectReq
  <2>1. HandleError(u, m) = Failed(c)
    BY <1>2 DEF HandleError
  <2>2. R \in SUBSET u.disconnectReq
    OBVIOUS
  <2> HIDE DEF R
  <2> QED BY <2>1, <2>2, RequestEndHeard DEF Failed
<1> QED BY <1>1, <1>2 DEF HandleError

LEMMA CheckHeard ==
  ASSUME NEW u, Sound(u), NEW lost \in BOOLEAN, inn \in Seq(Reply)
  PROVE  Heard(u, CheckAfterError(u, lost))
<1> DEFINE n == Send(u, "status")
           v == [n EXCEPT !.statusReq = NewId(u)]
           p == Patch(u, "DISCONNECTED")
<1>1. CASE CheckAfterError(u, lost) = u
  BY <1>1, NothingHeard
<1>2. CASE u.state = "CONNECTED" /\ CheckAfterError(u, lost) = p
  <2>1. u \in Page /\ "DISCONNECTED" \in States /\ u.pending = FALSE
    BY <1>2 DEF Sound, Steady, Page, States, Timed
  <2>2. Sound(p)
    BY <2>1, Repatched DEF Sound, Timed
  <2>3. p.manual = u.manual /\ p.listed = u.listed /\ p.autoTimer = u.autoTimer /\ p.socket = u.socket /\ p.out = u.out
    BY <2>1, Patched
  <2>4. p.eligible => u.eligible
    BY <2>1, Patched
  <2> HIDE DEF p
  <2> QED BY <1>2, <2>2, <2>3, <2>4 DEF Heard, Minds, Placed, Sends
<1>3. CASE u.socket = "open" /\ CheckAfterError(u, lost) = v
  <2>1. Sound(n) /\ Alike(u, n) /\ Sends(u, n, {"status"}) /\ Sound(v)
    BY <1>3, Noted DEF Kinds
  <2> HIDE DEF n
  <2>2. /\ v.out = n.out /\ v.manual = n.manual /\ v.eligible = n.eligible
        /\ v.listed = n.listed /\ v.autoTimer = n.autoTimer /\ v.socket = n.socket
    BY <2>1 DEF Sound, Steady, Page
  <2> HIDE DEF v
  <2> QED BY <1>3, <2>1, <2>2 DEF Heard, Minds, Placed, Alike, Sends, Follows
<1> QED BY <1>1, <1>2, <1>3 DEF CheckAfterError, CanSend

LEMMA DataHeard ==
  ASSUME NEW u, Sound(u), NEW m \in Reply, inn \in Seq(Reply)
  PROVE  Heard(u, HandleData(u, m))
<1> DEFINE c == [u EXCEPT !.poll = None]
           b == m.kind = "VALUE"
           lost == m.kind = "LOST"
           v == [u EXCEPT !.idnReq = None, !.identity = b, !.stale = TRUE]
<1>1. b \in BOOLEAN /\ lost \in BOOLEAN /\ m.id # None
  BY DEF Reply, Ids, None
<1> HIDE DEF b, lost
<1>2. Sound(c) /\ Alike(u, c) /\ c.out = u.out
  BY Aside
<1>3. CASE HandleData(u, m) = c
  <2> HIDE DEF c
  <2> QED BY <1>2, <1>3, AlikeMinds, NothingHeard, HeardAfter
<1>4. CASE HandleData(u, m) = CheckAfterError(c, lost)
  <2> HIDE DEF c
  <2>1. Heard(c, CheckAfterError(c, lost))
    BY <1>1, <1>2, CheckHeard
  <2> QED BY <1>2, <1>4, <2>1, AlikeMinds, HeardAfter
<1>5. CASE m.id = u.idnReq /\ HandleData(u, m) = v
  <2>1. u.state = "CONNECTED" /\ u.asked
    BY <1>1, <1>5 DEF Sound, Steady, Identified
  <2>2. Sound(v) /\ Minds(u, v) /\ v.out = u.out
    BY <1>1, <2>1, Aside, ZenonT(60) DEF Ids, None
  <2> HIDE DEF v
  <2> QED BY <1>5, <2>2 DEF Heard, Sends
<1>6. CASE HandleData(u, m) = u
  BY <1>6, NothingHeard
<1>7. \/ HandleData(u, m) = c \/ HandleData(u, m) = CheckAfterError(c, lost)
      \/ (m.id = u.idnReq /\ HandleData(u, m) = v) \/ HandleData(u, m) = u
  BY DEF HandleData, b, lost
<1> QED BY <1>3, <1>4, <1>5, <1>6, <1>7

LEMMA ListSound ==
  ASSUME NEW u, Sound(u), NEW m
  PROVE  LET v == HandleList(u, m)
         IN /\ Sound(v) /\ v.out = u.out /\ v.listed = TRUE
            /\ v.socket = u.socket /\ v.manual = u.manual /\ v.eligible = u.eligible
<1> DEFINE s == IF u.state = "UNKNOWN" THEN "DISCONNECTED" ELSE u.state
           v == [u EXCEPT !.listed = TRUE, !.stale = TRUE, !.autoTimer = AutoConnect, !.state = s]
<1>1. HandleList(u, m) = v
  BY DEF HandleList
<1>2. u \in Page /\ AutoConnect \in BOOLEAN
  BY BrowserAssumption DEF Sound, Steady
<1>3. s \in States /\ ((s = "CONNECTING") = (u.state = "CONNECTING")) /\ (u.state = "CONNECTED" => s = u.state)
  BY <1>2 DEF Page, States
<1> HIDE DEF s
<1>4. v \in Page
  BY <1>2, <1>3 DEF Page
<1>5. v.state = s /\ v.listed = TRUE /\ v.socket = u.socket /\ v.manual = u.manual /\ v.eligible = u.eligible
  BY <1>2 DEF Page
<1>6. /\ v.pending = u.pending /\ v.timer = u.timer /\ v.out = u.out
      /\ v.identity = u.identity /\ v.idnReq = u.idnReq /\ v.asked = u.asked
  BY <1>2 DEF Page
<1>7. Counted(v) /\ Finite(v)
  BY <1>2 DEF Sound, Steady, Counted, Finite, Page
<1> HIDE DEF v
<1>8. Timed(v) /\ Identified(v)
  BY <1>3, <1>5, <1>6 DEF Sound, Steady, Timed, Identified
<1> QED BY <1>1, <1>4, <1>5, <1>6, <1>7, <1>8 DEF Sound, Steady

LEMMA Handled ==
  ASSUME NEW u, Sound(u), NEW m \in Reply, inn \in Seq(Reply), m.kind # "list"
  PROVE  Heard(u, Handle(u, m))
<1>1. CASE m.kind \in {"UP", "DOWN"}
  BY <1>1, StatusHeard DEF Handle
<1>2. CASE m.kind = "OK CONNECTED"
  BY <1>2, ConnectedHeard DEF Handle
<1>3. CASE m.kind = "OK DISCONNECTED"
  BY <1>3, DisconnectedHeard DEF Handle
<1>4. CASE m.kind = "ERR"
  BY <1>4, ErrorHeard DEF Handle
<1>5. CASE m.kind \notin {"UP", "DOWN", "OK CONNECTED", "OK DISCONNECTED", "ERR"}
  BY <1>5, DataHeard DEF Handle
<1> QED BY <1>1, <1>2, <1>3, <1>4, <1>5

LEMMA HandleSound ==
  ASSUME NEW u, Sound(u), NEW m \in Reply, inn \in Seq(Reply)
  PROVE  Sound(Handle(u, m))
<1>1. CASE m.kind = "list"
  BY <1>1, ListSound DEF Handle
<1>2. CASE m.kind # "list"
  BY <1>2, Handled DEF Heard
<1> QED BY <1>1, <1>2

-----------------------------------------------------------------------------
(* Opening and closing, effects and timers.                                *)

LEMMA FreshSound == Sound(Fresh)
<1>1. Fresh \in Page
  <2>1. 0 \in 0 .. Retries /\ <<>> \in Seq(Frame) /\ {} \in SUBSET Ids /\ None \in Ids \cup {None} /\ 0 \in Nat
    BY DEF Retries
  <2>2. [state |-> "UNKNOWN", reconnecting |-> FALSE, connecting |-> FALSE, ws |-> FALSE] \in Shown
    BY DEF Shown, States
  <2> QED BY <2>1, <2>2 DEF Fresh, Page, States
<1>2. Finite(Fresh)
  BY FS_EmptySet DEF Finite, Fresh
<1>3. /\ Fresh.state = "UNKNOWN" /\ Fresh.pending = FALSE /\ Fresh.timer = FALSE
      /\ Fresh.tries = 0 /\ Fresh.eligible = FALSE
      /\ Fresh.identity = FALSE /\ Fresh.idnReq = None
  BY DEF Fresh
<1>4. Timed(Fresh) /\ Counted(Fresh) /\ Identified(Fresh)
  <2>1. Timed(Fresh)
    BY <1>3 DEF Timed
  <2>2. Counted(Fresh)
    BY <1>3 DEF Counted, Retries
  <2>3. Identified(Fresh)
    BY <1>3 DEF Identified
  <2> QED BY <2>1, <2>2, <2>3
<1> QED BY <1>1, <1>2, <1>4 DEF Sound, Steady

LEMMA ResetSound ==
  ASSUME NEW u \in Page
  PROVE  LET v == Reset(u)
         IN Sound(v) /\ v.out = <<>> /\ v.listed = FALSE /\ v.socket = "closed"
<1> DEFINE v == Reset(u)
<1>1. Fresh \in Page /\ Sound(Fresh)
  BY FreshSound DEF Sound, Steady
<1>2. v \in Page
  BY <1>1 DEF Reset, Page
<1>3. Alike(Fresh, v) /\ v.out = Fresh.out
  BY <1>1 DEF Reset, Page, Alike
<1>4. Fresh.out = <<>> /\ Fresh.listed = FALSE /\ Fresh.socket = "closed"
  BY DEF Fresh
<1> HIDE DEF v
<1>5. Sound(v)
  BY <1>1, <1>2, <1>3, AlikeSound
<1> QED BY <1>3, <1>4, <1>5 DEF Alike, v

LEMMA OpenSound ==
  ASSUME NEW u, Sound(u), inn \in Seq(Reply)
  PROVE  LET v == OnOpen(u)
         IN /\ Sound(v) /\ v.listed = u.listed /\ v.manual = u.manual /\ v.eligible = u.eligible
            /\ v.autoTimer = u.autoTimer /\ v.socket = "open"
            /\ \E i, j \in Ids : v.out = Append(Append(u.out, [kind |-> "list", id |-> i]), [kind |-> "status", id |-> j])
<1> DEFINE o == [u EXCEPT !.socket = "open", !.ws = TRUE, !.stale = TRUE]
           l == Send(o, "list")
           v == Send(l, "status")
<1>1. u \in Page
  BY DEF Sound, Steady
<1>2. o \in Page /\ o.socket = "open" /\ o.out = u.out
  BY <1>1 DEF Page
<1>3. /\ Finite(o) /\ Timed(o) /\ Counted(o) /\ Identified(o)
      /\ o.listed = u.listed /\ o.manual = u.manual /\ o.eligible = u.eligible /\ o.autoTimer = u.autoTimer
  BY <1>1 DEF Sound, Steady, Page, Finite, Timed, Counted, Identified
<1> HIDE DEF o
<1>4. Sound(o)
  BY <1>2, <1>3 DEF Sound, Steady
<1>5. Sound(l) /\ Alike(o, l) /\ l.socket = "open"
  BY <1>2, <1>4, Noted DEF Kinds, Alike
<1>6. l.out = Append(o.out, [kind |-> "list", id |-> NewId(o)]) /\ NewId(o) \in Ids
  BY <1>2, <1>4, Noted DEF Send, Page, Kinds
<1> HIDE DEF l
<1>7. Sound(v) /\ Alike(l, v)
  BY <1>5, Noted DEF Kinds
<1>8. v.out = Append(l.out, [kind |-> "status", id |-> NewId(l)]) /\ NewId(l) \in Ids
  <2>1. l \in Page
    BY <1>5 DEF Sound, Steady
  <2>2. v.out = Append(l.out, [kind |-> "status", id |-> NewId(l)])
    BY <2>1 DEF Send, Page
  <2>3. NewId(l) \in Ids
    BY <1>5, Noted DEF Kinds
  <2> QED BY <2>2, <2>3
<1> HIDE DEF v
<1>9. \E i, j \in Ids : v.out = Append(Append(u.out, [kind |-> "list", id |-> i]), [kind |-> "status", id |-> j])
  BY <1>2, <1>6, <1>8
<1>10. /\ v.listed = u.listed /\ v.manual = u.manual /\ v.eligible = u.eligible
       /\ v.autoTimer = u.autoTimer /\ v.socket = "open"
  BY <1>2, <1>3, <1>5, <1>7 DEF Alike
<1> QED BY <1>7, <1>9, <1>10 DEF OnOpen, v, l, o

LEMMA EffectsSound ==
  ASSUME NEW u, Sound(u), inn \in Seq(Reply)
  PROVE  LET v == PollIdentity([ArmRetry(u) EXCEPT !.due = FALSE])
         IN Sound(v) /\ Minds(u, v) /\ Sends(u, v, {"poll"})
<1> DEFINE t == /\ u.shown.ws /\ u.shown.reconnecting
                /\ u.shown.state = "DISCONNECTED"
                /\ (u.retryTimer \/ u.attempts < Retries)
           a == [u EXCEPT !.retryTimer = t]
           d == [a EXCEPT !.due = FALSE]
<1>1. u \in Page
  BY DEF Sound, Steady
<1>2. t \in BOOLEAN /\ (t => u.retryTimer \/ u.attempts < Retries)
  BY <1>1 DEF Page, Shown
<1>3. ArmRetry(u) = a
  BY DEF ArmRetry
<1> HIDE DEF t
<1>4. a \in Page /\ a.retryTimer = t
  BY <1>1, <1>2 DEF Page
<1>5. /\ Finite(a) /\ Timed(a) /\ Identified(a) /\ Placed(u, a) /\ a.out = u.out
      /\ a.manual = u.manual /\ a.eligible = u.eligible /\ a.tries = u.tries /\ a.attempts = u.attempts
  BY <1>1 DEF Sound, Steady, Page, Finite, Timed, Identified, Placed
<1> HIDE DEF a
<1>6. Counted(a)
  BY <1>2, <1>4, <1>5 DEF Counted, Sound, Steady
<1>7. Sound(a)
  BY <1>4, <1>5, <1>6 DEF Sound, Steady
<1>8. d \in Page
  BY <1>4 DEF Page
<1>9. Alike(a, d) /\ d.out = a.out
  BY <1>4 DEF Page, Alike
<1> HIDE DEF d
<1>10. Sound(d)
  BY <1>7, <1>8, <1>9, AlikeSound
<1>11. Sound(PollIdentity(d)) /\ Minds(d, PollIdentity(d)) /\ Sends(d, PollIdentity(d), {"poll"})
  BY <1>10, PollsIdentity
<1>12. Minds(u, d) /\ d.out = u.out
  BY <1>5, <1>9 DEF Minds, Placed, Alike
<1>13. Minds(u, PollIdentity(d)) /\ Sends(u, PollIdentity(d), {"poll"})
  BY <1>11, <1>12 DEF Minds, Placed, Sends
<1> QED BY <1>3, <1>11, <1>13 DEF d

LEMMA RetrySound ==
  ASSUME NEW u, Sound(u), u.retryTimer, inn \in Seq(Reply)
  PROVE  LET v == RetryDevice(u)
         IN /\ Sound(v) /\ Placed(u, v) /\ Sends(u, v, {"connect"})
            /\ ~u.eligible => v.out = u.out /\ v.manual = u.manual /\ v.eligible = u.eligible
<1> DEFINE e == [u EXCEPT !.retryTimer = FALSE]
           c == [e EXCEPT !.attempts = @ + 1, !.tries = @ + 1]
<1>1. u \in Page
  BY DEF Sound, Steady
<1>2. e \in Page /\ e.retryTimer = FALSE
  BY <1>1, ZenonT(60) DEF Page
<1>3. /\ Finite(e) /\ Timed(e) /\ Identified(e) /\ Placed(u, e) /\ e.out = u.out
      /\ e.manual = u.manual /\ e.eligible = u.eligible /\ e.tries = u.tries /\ e.attempts = u.attempts
  BY <1>1 DEF Sound, Steady, Page, Finite, Timed, Identified, Placed
<1> HIDE DEF e
<1>4. Counted(e)
  BY <1>2, <1>3 DEF Counted, Sound, Steady
<1>5. Sound(e)
  BY <1>2, <1>3, <1>4 DEF Sound, Steady
<1>6. CASE RetryDevice(u) = e
  BY <1>3, <1>5, <1>6 DEF Placed, Sends
<1>7. CASE u.eligible /\ RetryDevice(u) = Connect(c)
  <2>1. u.attempts < Retries /\ u.tries <= u.attempts /\ u.attempts \in Nat /\ u.tries \in Nat
    BY <1>1, <1>7 DEF Sound, Steady, Counted, Page
  <2>2. e.attempts + 1 \in 0 .. Retries /\ e.tries + 1 \in Nat
    BY <1>3, <2>1 DEF Retries
  <2>3. c \in Page /\ c.attempts = e.attempts + 1 /\ c.tries = e.tries + 1 /\ c.retryTimer = FALSE
    BY <1>2, <2>2 DEF Page
  <2>4. Finite(c) /\ Timed(c) /\ Identified(c) /\ Placed(e, c) /\ c.out = e.out
    BY <1>5 DEF Sound, Steady, Page, Finite, Timed, Identified, Placed
  <2> HIDE DEF c
  <2>5. Counted(c)
    BY <1>3, <2>1, <2>3 DEF Counted, Retries
  <2>6. Sound(c)
    BY <2>3, <2>4, <2>5 DEF Sound, Steady
  <2>7. Sound(Connect(c)) /\ Placed(c, Connect(c)) /\ Sends(c, Connect(c), {"connect"})
    BY <2>6, Connects
  <2> QED BY <1>3, <1>7, <2>4, <2>7 DEF Placed, Sends
<1> QED BY <1>6, <1>7, <1>3 DEF RetryDevice, e, c

-----------------------------------------------------------------------------
(* Sequences.                                                              *)

LEMMA AppendLists ==
  ASSUME NEW S, NEW q \in Seq(S), NEW e
  PROVE  /\ e.kind # "list" /\ NoList(q) => NoList(Append(q, e))
         /\ e.kind # "list" /\ OneList(q) => OneList(Append(q, e))
         /\ NoList(q) => OneList(Append(q, e))
         /\ Len(Append(q, e)) = Len(q) + 1 /\ Last(Append(q, e)) = e
<1> DEFINE a == Append(q, e)
           n == Len(q)
<1>1. n \in Nat /\ DOMAIN q = 1 .. n /\ DOMAIN a = 1 .. n + 1 /\ Len(a) = n + 1
  OBVIOUS
<1>2. a[n + 1] = e /\ \A i \in 1 .. n : a[i] = q[i]
  OBVIOUS
<1>3. Last(a) = e
  BY <1>1, <1>2 DEF Last
<1> HIDE DEF a, n
<1>4. \A i \in 1 .. n + 1 : i \in 1 .. n \/ i = n + 1
  BY <1>1
<1> QED BY <1>1, <1>2, <1>3, <1>4 DEF NoList, OneList, a, n

LEMMA TailLists ==
  ASSUME NEW S, NEW q \in Seq(S), q # <<>>
  PROVE  /\ Head(q) \in S /\ Tail(q) \in Seq(S)
         /\ NoList(q) => NoList(Tail(q)) /\ Head(q).kind # "list"
         /\ OneList(q) => OneList(Tail(q))
         /\ OneList(q) /\ Head(q).kind = "list" => NoList(Tail(q))
<1> DEFINE t == Tail(q)
           n == Len(q)
<1>1. n \in Nat \ {0} /\ DOMAIN q = 1 .. n /\ DOMAIN t = 1 .. n - 1 /\ Head(q) = q[1] /\ t \in Seq(S) /\ Head(q) \in S
  OBVIOUS
<1>2. \A i \in 1 .. n - 1 : t[i] = q[i + 1] /\ i + 1 \in 1 .. n /\ i + 1 # 1
  BY <1>1
<1>3. 1 \in 1 .. n
  BY <1>1
<1> HIDE DEF t, n
<1>4. \A i, j \in 1 .. n - 1 : i + 1 = j + 1 => i = j
  BY <1>1
<1> QED BY <1>1, <1>2, <1>3, <1>4 DEF NoList, OneList, t

\* A frame that is no list changes nothing about lists.
LEMMA SendsNoList ==
  ASSUME NEW u \in Page, NEW v, NEW kinds, Sends(u, v, kinds), "list" \notin kinds
  PROVE  /\ NoList(u.out) => NoList(v.out)
         /\ OneList(u.out) => OneList(v.out)
         /\ u.socket # "open" => v.out = u.out
<1>1. CASE v.out = u.out
  BY <1>1
<1>2. ASSUME u.socket = "open", NEW k \in kinds, NEW i \in Ids, v.out = Append(u.out, [kind |-> k, id |-> i])
      PROVE  (NoList(u.out) => NoList(v.out)) /\ (OneList(u.out) => OneList(v.out))
  <2> DEFINE e == [kind |-> k, id |-> i]
  <2>1. u.out \in Seq(Frame) /\ e.kind # "list" /\ v.out = Append(u.out, e)
    BY <1>2 DEF Page
  <2> HIDE DEF e
  <2> QED BY <2>1, AppendLists
<1> QED BY <1>1, <1>2 DEF Sends

\* Nor does a frame that is no /connect send one.
LEMMA SendsNoConnect ==
  ASSUME NEW u \in Page, NEW v, NEW kinds, Sends(u, v, kinds), "connect" \notin kinds
  PROVE  ~(Len(v.out) > Len(u.out) /\ Last(v.out).kind = "connect")
<1>1. CASE v.out = u.out
  BY <1>1 DEF Page
<1>2. ASSUME NEW k \in kinds, NEW i \in Ids, v.out = Append(u.out, [kind |-> k, id |-> i])
      PROVE  Last(v.out).kind # "connect"
  <2> DEFINE e == [kind |-> k, id |-> i]
  <2>1. u.out \in Seq(Frame) /\ e.kind # "connect" /\ v.out = Append(u.out, e)
    BY <1>2 DEF Page
  <2> HIDE DEF e
  <2> QED BY <2>1, AppendLists
<1> QED BY <1>1, <1>2 DEF Sends

-----------------------------------------------------------------------------
(* Every step preserves the invariant, and asks to connect a device only   *)
(* if its user has not disconnected it.                                    *)

\* What a step of the page that takes no reply leaves.
LEMMA PageSteps ==
  ASSUME IInv, NEW kinds, "list" \notin kinds, Sends(ui, ui', kinds), Sound(ui'),
         ui'.listed = ui.listed, ui'.socket = ui.socket, inn' = inn
  PROVE  /\ Sound(ui)' /\ Listing' /\ ui' \in Page /\ inn' \in Seq(Reply)
         /\ "connect" \notin kinds => ~ConnectSent
<1>1. ui \in Page /\ inn \in Seq(Reply) /\ Listing
  BY DEF IInv, TypeOK
<1>2. /\ NoList(ui.out) => NoList(ui'.out)
      /\ OneList(ui.out) => OneList(ui'.out)
      /\ ui.socket # "open" => ui'.out = ui.out
  BY <1>1, SendsNoList
<1>3. Listing'
  BY <1>1, <1>2 DEF Listing
<1>4. "connect" \notin kinds => ~ConnectSent
  BY <1>1, SendsNoConnect DEF ConnectSent
<1> QED BY <1>1, <1>3, <1>4 DEF Sound, Steady

LEMMA OpenSocketSafe ==
  ASSUME IInv, OpenSocket
  PROVE  IInv' /\ (ConnectSent => ~revoked')
<1>1. /\ ui.socket = "closed" /\ ui' = OnOpen(ui)
      /\ UNCHANGED <<backend, clicks, drops, ghosts>>
  BY DEF OpenSocket
<1>2. /\ Sound(ui) /\ inn \in Seq(Reply) /\ ui.out = <<>> /\ inn = <<>> /\ ~ui.listed /\ Revoked
  BY <1>1 DEF IInv, TypeOK, Listing
<1>3. /\ Sound(ui') /\ ui'.listed = ui.listed /\ ui'.manual = ui.manual /\ ui'.eligible = ui.eligible
      /\ ui'.autoTimer = ui.autoTimer /\ ui'.socket = "open"
  BY <1>1, <1>2, OpenSound
<1>4. PICK i \in Ids, j \in Ids :
        ui'.out = Append(Append(ui.out, [kind |-> "list", id |-> i]), [kind |-> "status", id |-> j])
  BY <1>1, <1>2, OpenSound
<1> DEFINE e == [kind |-> "list", id |-> i]
           f == [kind |-> "status", id |-> j]
           q == Append(<<>>, e)
<1>5. q \in Seq({e}) /\ f.kind = "status" /\ ui'.out = Append(q, f)
  BY <1>2, <1>4
<1>6. OneList(ui'.out) /\ Last(ui'.out).kind = "status" /\ NoList(inn')
  <2>1. <<>> \in Seq({e}) /\ NoList(<<>>)
    BY DEF NoList
  <2>2. OneList(q)
    BY <2>1, AppendLists
  <2> HIDE DEF e, f, q
  <2>3. OneList(ui'.out) /\ Last(ui'.out) = f
    BY <1>5, <2>2, AppendLists
  <2>4. inn' = <<>>
    BY <1>1, <1>2 DEF backend
  <2> QED BY <1>5, <2>1, <2>3, <2>4
<1>7. Listing'
  BY <1>1, <1>2, <1>3, <1>6 DEF Listing, backend, NoList, OneList
<1>8. TypeOK'
  BY <1>1, <1>3 DEF IInv, TypeOK, backend, ghosts, Sound, Steady
<1>9. Revoked'
  BY <1>1, <1>2, <1>3 DEF Revoked, ghosts
<1> QED BY <1>3, <1>6, <1>7, <1>8, <1>9 DEF IInv, ConnectSent

LEMMA DeliverSafe ==
  ASSUME IInv, Deliver
  PROVE  IInv' /\ (ConnectSent => ~revoked')
<1> DEFINE m == Head(inn)
<1>1. /\ inn # <<>> /\ ui' = Handle(ui, m) /\ inn' = Tail(inn) /\ revoked' = revoked
      /\ UNCHANGED <<connected, clicks, losses, drops, revoked, hasty>>
      /\ abandoned' = (abandoned /\ ui'.state # "CONNECTED")
  BY DEF Deliver
<1>2. Sound(ui) /\ ui \in Page /\ inn \in Seq(Reply) /\ Listing /\ Revoked
  BY DEF IInv, TypeOK
<1>3. /\ m \in Reply /\ inn' \in Seq(Reply)
      /\ NoList(inn) => NoList(inn') /\ m.kind # "list"
      /\ OneList(inn) => OneList(inn')
      /\ OneList(inn) /\ m.kind = "list" => NoList(inn')
  BY <1>1, <1>2, TailLists
<1> HIDE DEF m
<1>4. Sound(ui') /\ ui' \in Page
  BY <1>1, <1>2, <1>3, HandleSound DEF Sound, Steady
<1>5. TypeOK'
  <2>1. {connected, revoked, abandoned, hasty}' \subseteq BOOLEAN
    BY <1>1 DEF IInv, TypeOK
  <2>2. clicks' \in 0 .. MaxClicks /\ losses' \in 0 .. MaxLosses /\ drops' \in 0 .. MaxDrops
    BY <1>1 DEF IInv, TypeOK
  <2> QED BY <1>3, <1>4, <2>1, <2>2 DEF TypeOK
<1>6. ui.socket = "open"
  BY <1>1, <1>2 DEF Listing
<1>7. CASE m.kind = "list"
  <2>1. /\ ui'.out = ui.out /\ ui'.listed = TRUE /\ ui'.socket = ui.socket
    BY <1>1, <1>2, <1>7, ListSound DEF Handle
  <2>2. NoList(inn') /\ NoList(ui.out) /\ ~ui.listed
    BY <1>2, <1>3, <1>7 DEF Listing
  <2>3. Listing'
    BY <1>2, <1>3, <1>6, <2>1, <2>2 DEF Listing
  <2>4. Revoked' /\ ~ConnectSent
    BY <1>1, <1>2, <2>1, <2>2 DEF Revoked, ConnectSent, Page
  <2> QED BY <1>4, <1>5, <2>3, <2>4 DEF IInv
<1>8. CASE m.kind # "list"
  <2>1. Heard(ui, ui')
    BY <1>1, <1>2, <1>3, <1>8, Handled
  <2>2. Minds(ui, ui') /\ Sends(ui, ui', Follows) /\ "list" \notin Follows /\ "connect" \notin Follows
    BY <2>1 DEF Heard, Follows
  <2>3. /\ NoList(ui.out) => NoList(ui'.out)
        /\ OneList(ui.out) => OneList(ui'.out)
        /\ ~ConnectSent
    BY <1>2, <2>2, SendsNoList, SendsNoConnect DEF ConnectSent
  <2>4. Listing'
    BY <1>2, <1>3, <1>6, <2>2, <2>3 DEF Listing, Minds, Placed
  <2>5. Revoked'
    BY <1>1, <1>2, <1>4, <2>2 DEF Revoked, Minds, Placed, Page
  <2> QED BY <1>4, <1>5, <2>3, <2>4, <2>5 DEF IInv
<1> QED BY <1>7, <1>8

\* A step of the page alone, after which a manual disconnect still holds.
LEMMA MindfulSteps ==
  ASSUME IInv, NEW kinds, "list" \notin kinds, "connect" \notin kinds,
         Sends(ui, ui', kinds), Sound(ui'), Minds(ui, ui'),
         UNCHANGED <<backend, clicks, drops, revoked, hasty>>, abandoned' \in BOOLEAN
  PROVE  IInv' /\ (ConnectSent => ~revoked')
<1>1. /\ Sound(ui)' /\ Listing' /\ ui' \in Page /\ inn' \in Seq(Reply) /\ ~ConnectSent
  BY PageSteps DEF Minds, Placed, backend
<1>2. TypeOK'
  BY <1>1 DEF IInv, TypeOK, backend
<1>3. Revoked'
  BY <1>1 DEF IInv, TypeOK, Revoked, Minds, Placed, Page
<1> QED BY <1>1, <1>2, <1>3 DEF IInv

LEMMA RenderSafe ==
  ASSUME IInv, Render
  PROVE  IInv' /\ (ConnectSent => ~revoked')
<1> DEFINE s == [state |-> ui.state, reconnecting |-> ui.reconnecting,
                 connecting |-> ui.pending, ws |-> ui.ws]
           v == [ui EXCEPT !.stale = FALSE, !.due = TRUE, !.shown = s]
<1>1. ui' = v /\ UNCHANGED <<backend, clicks, drops, ghosts>>
  BY DEF Render
<1>2. Sound(ui) /\ ui \in Page /\ abandoned \in BOOLEAN
  BY DEF IInv, TypeOK
<1>3. s \in Shown
  BY <1>2 DEF Page, Shown
<1> HIDE DEF s
<1>4. v \in Page
  BY <1>2, <1>3 DEF Page
<1>5. Alike(ui, v) /\ v.out = ui.out
  BY <1>2 DEF Page, Alike
<1> HIDE DEF v
<1>6. Sound(v) /\ Minds(ui, v) /\ Sends(ui, v, {})
  BY <1>2, <1>4, <1>5, AlikeSound, AlikeMinds DEF Sends
<1> QED BY <1>1, <1>2, <1>6, MindfulSteps DEF ghosts

LEMMA RunEffectsSafe ==
  ASSUME IInv, RunEffects
  PROVE  IInv' /\ (ConnectSent => ~revoked')
<1>1. /\ ui' = PollIdentity([ArmRetry(ui) EXCEPT !.due = FALSE])
      /\ UNCHANGED <<backend, clicks, drops, ghosts>>
  BY DEF RunEffects
<1>2. Sound(ui) /\ inn \in Seq(Reply) /\ abandoned \in BOOLEAN
  BY DEF IInv, TypeOK
<1>3. Sound(ui') /\ Minds(ui, ui') /\ Sends(ui, ui', {"poll"})
  BY <1>1, <1>2, EffectsSound
<1> QED BY <1>1, <1>2, <1>3, MindfulSteps DEF ghosts

LEMMA PollIntervalSafe ==
  ASSUME IInv, PollInterval
  PROVE  IInv' /\ (ConnectSent => ~revoked')
<1>1. ui' = PollIdentity(ui) /\ UNCHANGED <<backend, clicks, drops, ghosts>>
  BY DEF PollInterval
<1>2. Sound(ui) /\ inn \in Seq(Reply) /\ abandoned \in BOOLEAN
  BY DEF IInv, TypeOK
<1>3. Sound(ui') /\ Minds(ui, ui') /\ Sends(ui, ui', {"poll"})
  BY <1>1, <1>2, PollsIdentity
<1> QED BY <1>1, <1>2, <1>3, MindfulSteps DEF ghosts

LEMMA ConnectTimesOutSafe ==
  ASSUME IInv, ConnectTimesOut
  PROVE  IInv' /\ (ConnectSent => ~revoked')
<1>1. /\ ui' = Failed(ui) /\ abandoned' = TRUE
      /\ UNCHANGED <<backend, clicks, drops, revoked, hasty>>
  BY DEF ConnectTimesOut
<1>2. Heard(ui, ui') /\ ui'.out = ui.out
  BY <1>1, EndHeard DEF IInv, Failed
<1>3. Sound(ui') /\ Minds(ui, ui') /\ Sends(ui, ui', {})
  BY <1>2 DEF Heard, Sends
<1> QED BY <1>1, <1>3, MindfulSteps

\* A step of the page alone that may connect: what it does when the user has
\* disconnected is all that is left to say.
LEMMA ConnectingSteps ==
  ASSUME IInv, NEW kinds, "list" \notin kinds, Sends(ui, ui', kinds), Sound(ui'),
         ui'.listed = ui.listed, ui'.socket = ui.socket,
         UNCHANGED <<backend, drops, abandoned>>, clicks' \in 0 .. MaxClicks,
         revoked' \in BOOLEAN, hasty' \in BOOLEAN,
         revoked' => ui'.manual /\ ~ui'.eligible /\ ~ui'.autoTimer /\ ui'.listed
  PROVE  IInv' /\ ("connect" \notin kinds => ~ConnectSent)
<1>1. /\ Sound(ui)' /\ Listing' /\ ui' \in Page /\ inn' \in Seq(Reply)
      /\ "connect" \notin kinds => ~ConnectSent
  BY PageSteps DEF backend
<1>2. TypeOK'
  BY <1>1 DEF IInv, TypeOK, backend
<1>3. Revoked'
  BY DEF Revoked
<1> QED BY <1>1, <1>2, <1>3 DEF IInv

LEMMA RetryFiresSafe ==
  ASSUME IInv, RetryFires
  PROVE  IInv' /\ (ConnectSent => ~revoked')
<1>1. /\ ui.retryTimer /\ ui' = RetryDevice(ui)
      /\ UNCHANGED <<backend, clicks, drops, ghosts>>
  BY DEF RetryFires
<1>2. /\ Sound(ui) /\ ui \in Page /\ inn \in Seq(Reply) /\ Revoked
      /\ {revoked, hasty} \subseteq BOOLEAN /\ clicks \in 0 .. MaxClicks
  BY DEF IInv, TypeOK
<1>3. /\ Sound(ui') /\ Placed(ui, ui') /\ Sends(ui, ui', {"connect"})
      /\ ~ui.eligible => ui'.out = ui.out /\ ui'.manual = ui.manual /\ ui'.eligible = ui.eligible
  BY <1>1, <1>2, RetrySound
<1>4. revoked => ui'.manual /\ ~ui'.eligible /\ ~ui'.autoTimer /\ ui'.listed /\ ui'.out = ui.out
  BY <1>2, <1>3 DEF Revoked, Placed
<1>5. IInv'
  BY <1>1, <1>2, <1>3, <1>4, ConnectingSteps DEF ghosts, Placed
<1>6. ConnectSent => ~revoked'
  BY <1>1, <1>2, <1>4 DEF ConnectSent, ghosts, Page
<1> QED BY <1>5, <1>6

LEMMA AutoStartSafe ==
  ASSUME IInv, AutoStart
  PROVE  IInv' /\ (ConnectSent => ~revoked')
<1> DEFINE c == [ui EXCEPT !.autoTimer = FALSE]
<1>1. /\ ui.autoTimer /\ ui' = Connect(c)
      /\ UNCHANGED <<backend, clicks, drops, ghosts>>
  BY DEF AutoStart
<1>2. /\ Sound(ui) /\ ui \in Page /\ inn \in Seq(Reply) /\ ~revoked
      /\ {revoked, hasty} \subseteq BOOLEAN /\ clicks \in 0 .. MaxClicks
  BY <1>1 DEF IInv, TypeOK, Revoked
<1>3. c \in Page /\ c.listed = ui.listed /\ c.socket = ui.socket /\ c.out = ui.out
  BY <1>2, ZenonT(60) DEF Page
<1>4. Finite(c) /\ Timed(c) /\ Counted(c) /\ Identified(c)
  BY <1>2 DEF Sound, Steady, Page, Finite, Timed, Counted, Identified
<1> HIDE DEF c
<1>5. Sound(c)
  BY <1>3, <1>4 DEF Sound, Steady
<1>6. Sound(ui') /\ Placed(c, ui') /\ Sends(c, ui', {"connect"})
  BY <1>1, <1>2, <1>5, Connects
<1>7. Sends(ui, ui', {"connect"}) /\ ui'.listed = ui.listed /\ ui'.socket = ui.socket
  BY <1>3, <1>6 DEF Sends, Placed
<1>8. ~revoked' /\ IInv'
  BY <1>1, <1>2, <1>6, <1>7, ConnectingSteps DEF ghosts
<1> QED BY <1>8

LEMMA ClickDisconnectSafe ==
  ASSUME IInv, ClickDisconnect
  PROVE  IInv' /\ (ConnectSent => ~revoked')
<1>1. /\ ui.listed /\ ~ui.autoTimer /\ clicks < MaxClicks
      /\ ui' = Disconnect(ui) /\ clicks' = clicks + 1 /\ revoked' = TRUE
      /\ UNCHANGED <<backend, drops, abandoned, hasty>>
  BY DEF ClickDisconnect, Clickable
<1>2. /\ Sound(ui) /\ ui \in Page /\ inn \in Seq(Reply) /\ hasty \in BOOLEAN
      /\ clicks \in 0 .. MaxClicks
  BY DEF IInv, TypeOK
<1>3. clicks' \in 0 .. MaxClicks
  BY <1>1, <1>2, BrowserAssumption
<1>4. /\ Sound(ui') /\ Placed(ui, ui') /\ Sends(ui, ui', {"disconnect"})
      /\ ui'.manual = TRUE /\ ui'.eligible = FALSE
  BY <1>1, <1>2, Disconnects
<1> QED BY <1>1, <1>2, <1>3, <1>4, ConnectingSteps DEF Placed

LEMMA ClickConnectSafe ==
  ASSUME IInv, ClickConnect
  PROVE  IInv' /\ (ConnectSent => ~revoked')
<1> DEFINE c == Connect(ui)
           v == [c EXCEPT !.tries = 0]
<1>1. /\ ui' = v /\ clicks < MaxClicks /\ clicks' = clicks + 1 /\ revoked' = FALSE
      /\ hasty' = (hasty \/ ui.disconnectReq # {})
      /\ UNCHANGED <<backend, drops, abandoned>>
  BY DEF ClickConnect, Clickable
<1>2. /\ Sound(ui) /\ ui \in Page /\ inn \in Seq(Reply) /\ hasty \in BOOLEAN
      /\ clicks \in 0 .. MaxClicks
  BY DEF IInv, TypeOK
<1>3. clicks' \in 0 .. MaxClicks /\ hasty' \in BOOLEAN
  BY <1>1, <1>2, BrowserAssumption
<1>4. Sound(c) /\ Placed(ui, c) /\ Sends(ui, c, {"connect"})
  BY <1>2, Connects
<1> HIDE DEF c
<1>5. c \in Page
  BY <1>4 DEF Sound, Steady
<1>6. v \in Page /\ v.tries = 0 /\ v.listed = c.listed /\ v.socket = c.socket /\ v.out = c.out
  BY <1>5 DEF Page
<1>7. /\ v.eligible = c.eligible /\ v.retryTimer = c.retryTimer /\ v.attempts = c.attempts
      /\ v.attempts \in Nat
  BY <1>5 DEF Page
<1>8. Finite(v) /\ Timed(v) /\ Identified(v)
  BY <1>4, <1>5 DEF Sound, Steady, Page, Finite, Timed, Identified
<1> HIDE DEF v
<1>9. Counted(v)
  BY <1>4, <1>6, <1>7 DEF Counted, Sound, Steady, Retries
<1>10. Sound(v) /\ Sends(ui, v, {"connect"}) /\ v.listed = ui.listed /\ v.socket = ui.socket
  BY <1>4, <1>6, <1>8, <1>9 DEF Sound, Steady, Sends, Placed
<1> QED BY <1>1, <1>2, <1>3, <1>10, ConnectingSteps

LEMMA DropSafe ==
  ASSUME IInv, Drop
  PROVE  IInv' /\ (ConnectSent => ~revoked')
<1> DEFINE v == [ui EXCEPT !.socket = "closing", !.out = <<>>]
<1>1. /\ drops < MaxDrops /\ drops' = drops + 1 /\ inn' = <<>> /\ ui' = v
      /\ UNCHANGED <<clicks, losses, ghosts>>
  BY DEF Drop
<1>2. connected' \in BOOLEAN
  BY DEF Drop, IInv, TypeOK
<1>3. Sound(ui) /\ ui \in Page /\ Revoked /\ drops \in 0 .. MaxDrops
  BY DEF IInv, TypeOK
<1>4. v \in Page /\ v.socket = "closing" /\ v.out = <<>>
  <2>1. <<>> \in Seq(Frame)
    OBVIOUS
  <2>2. v \in Page
    BY <1>3, <2>1 DEF Page
  <2> QED BY <1>3, <2>2 DEF Page
<1>5. /\ v.listed = ui.listed /\ v.manual = ui.manual /\ v.eligible = ui.eligible
      /\ v.autoTimer = ui.autoTimer
  BY <1>3 DEF Page
<1>6. Finite(v) /\ Timed(v) /\ Counted(v) /\ Identified(v)
  BY <1>3 DEF Sound, Steady, Page, Finite, Timed, Counted, Identified
<1> HIDE DEF v
<1>7. drops' \in 0 .. MaxDrops
  BY <1>1, <1>3, BrowserAssumption
<1>8. TypeOK'
  <2>1. {connected, revoked, abandoned, hasty}' \subseteq BOOLEAN
    BY <1>1, <1>2 DEF IInv, TypeOK, ghosts
  <2>2. clicks' \in 0 .. MaxClicks /\ losses' \in 0 .. MaxLosses
    BY <1>1 DEF IInv, TypeOK
  <2>3. inn' \in Seq(Reply)
    BY <1>1
  <2> QED BY <1>1, <1>4, <1>7, <2>1, <2>2, <2>3 DEF TypeOK
<1>9. Listing'
  BY <1>1, <1>4 DEF Listing, NoList, OneList
<1>10. Revoked'
  BY <1>1, <1>3, <1>5 DEF Revoked, ghosts
<1>11. ~ConnectSent
  BY <1>1, <1>3, <1>4 DEF ConnectSent, Page
<1> QED BY <1>1, <1>4, <1>6, <1>8, <1>9, <1>10, <1>11 DEF IInv, Sound, Steady

LEMMA CloseEventSafe ==
  ASSUME IInv, CloseEvent
  PROVE  IInv' /\ (ConnectSent => ~revoked')
<1>1. /\ ui.socket = "closing" /\ ui' = Reset(ui)
      /\ revoked' = FALSE /\ abandoned' = FALSE /\ hasty' = FALSE
      /\ UNCHANGED <<backend, clicks, drops>>
  BY DEF CloseEvent
<1>2. ui \in Page /\ inn = <<>>
  BY <1>1 DEF IInv, TypeOK, Listing
<1>3. Sound(ui') /\ ui'.out = <<>> /\ ui'.listed = FALSE /\ ui'.socket = "closed"
  BY <1>1, <1>2, ResetSound
<1>4. TypeOK'
  BY <1>1, <1>3 DEF IInv, TypeOK, backend, Sound, Steady
<1>5. Listing' /\ Revoked'
  BY <1>1, <1>2, <1>3 DEF Listing, NoList, OneList, Revoked, backend
<1> QED BY <1>1, <1>3, <1>4, <1>5 DEF IInv

\* An answer carries a list if the frame it answers asked for one.
LEMMA Answers ==
  ASSUME IInv, Serve
  PROVE  \E r \in Reply : /\ inn' = Append(inn, r)
                          /\ (r.kind = "list") = (Head(ui.out).kind = "list")
<1>1. Head(ui.out) \in Frame
  BY TailLists DEF Serve, IInv, TypeOK, Page
<1>2. \A k : Answer(k) => inn' = Append(inn, [kind |-> k, id |-> Head(ui.out).id])
  BY DEF Answer
<1>3. \E k \in {"list", "OK CONNECTED", "OK DISCONNECTED", "ERR", "UP", "DOWN",
                "VALUE", "LOST", "TIMEOUT"} :
        Answer(k) /\ (k = "list") = (Head(ui.out).kind = "list")
  BY <1>1 DEF Serve, Frame
<1>4. PICK k \in {"list", "OK CONNECTED", "OK DISCONNECTED", "ERR", "UP", "DOWN",
                  "VALUE", "LOST", "TIMEOUT"} :
        inn' = Append(inn, [kind |-> k, id |-> Head(ui.out).id])
          /\ (k = "list") = (Head(ui.out).kind = "list")
  BY <1>2, <1>3
<1> DEFINE r == [kind |-> k, id |-> Head(ui.out).id]
<1>5. r \in Reply /\ r.kind = k
  BY <1>1 DEF Frame, Reply
<1> HIDE DEF r
<1>6. inn' = Append(inn, r)
  BY <1>4 DEF r
<1> QED BY <1>4, <1>5, <1>6

LEMMA ServeSafe ==
  ASSUME IInv, Serve
  PROVE  IInv' /\ (ConnectSent => ~revoked')
<1> DEFINE o == Tail(ui.out)
           v == [ui EXCEPT !.out = o]
<1>1. /\ ui.out # <<>> /\ ui' = v
      /\ UNCHANGED <<clicks, losses, drops, revoked, hasty>>
  BY DEF Serve
<1>2. Sound(ui) /\ ui \in Page /\ inn \in Seq(Reply) /\ Listing /\ Revoked
  BY DEF IInv, TypeOK
<1>3. {connected', abandoned'} \subseteq BOOLEAN
  BY DEF Serve, IInv, TypeOK
<1>4. ui.out \in Seq(Frame) /\ Len(o) < Len(ui.out)
  BY <1>1, <1>2 DEF Page
<1>5. /\ o \in Seq(Frame)
      /\ NoList(ui.out) => NoList(o) /\ Head(ui.out).kind # "list"
      /\ OneList(ui.out) => OneList(o)
      /\ OneList(ui.out) /\ Head(ui.out).kind = "list" => NoList(o)
  BY <1>1, <1>4, TailLists
<1> HIDE DEF o
<1>6. v \in Page /\ v.out = o
  BY <1>2, <1>5 DEF Page
<1>7. Alike(ui, v)
  BY <1>2 DEF Page, Alike
<1> HIDE DEF v
<1>8. Sound(v)
  BY <1>2, <1>6, <1>7, AlikeSound
<1>9. PICK r \in Reply : /\ inn' = Append(inn, r)
                         /\ (r.kind = "list") = (Head(ui.out).kind = "list")
  BY Answers
<1>10. inn' \in Seq(Reply)
  BY <1>2, <1>9
<1>11. /\ r.kind # "list" /\ NoList(inn) => NoList(inn')
       /\ r.kind # "list" /\ OneList(inn) => OneList(inn')
       /\ NoList(inn) => OneList(inn')
  BY <1>2, <1>9, AppendLists
<1>12. Listing'
  <2>1. ui'.listed = ui.listed /\ ui'.socket = ui.socket /\ ui'.out = o /\ ui.socket = "open"
    BY <1>1, <1>2, <1>6, <1>7 DEF Alike, Listing
  <2>2. CASE r.kind = "list"
    BY <1>2, <1>5, <1>9, <1>11, <2>1, <2>2 DEF Listing
  <2>3. CASE r.kind # "list"
    BY <1>2, <1>5, <1>9, <1>11, <2>1, <2>3 DEF Listing
  <2> QED BY <2>2, <2>3
<1>13. TypeOK'
  <2>1. {connected, revoked, abandoned, hasty}' \subseteq BOOLEAN
    BY <1>1, <1>3 DEF IInv, TypeOK
  <2>2. clicks' \in 0 .. MaxClicks /\ losses' \in 0 .. MaxLosses /\ drops' \in 0 .. MaxDrops
    BY <1>1 DEF IInv, TypeOK
  <2> QED BY <1>1, <1>6, <1>10, <2>1, <2>2 DEF TypeOK
<1>14. Revoked'
  BY <1>1, <1>2, <1>7 DEF Revoked, Alike
<1>15. ~ConnectSent
  BY <1>1, <1>4, <1>5, <1>6 DEF ConnectSent
<1> QED BY <1>1, <1>8, <1>12, <1>13, <1>14, <1>15 DEF IInv

LEMMA LoseSafe ==
  ASSUME IInv, Lose
  PROVE  IInv' /\ (ConnectSent => ~revoked')
<1>1. /\ connected' = FALSE /\ losses < MaxLosses /\ losses' = losses + 1
      /\ UNCHANGED <<ui, inn, clicks, drops, ghosts>>
  BY DEF Lose
<1>2. losses' \in 0 .. MaxLosses
  BY <1>1, BrowserAssumption DEF IInv, TypeOK
<1>3. TypeOK'
  BY <1>1, <1>2 DEF IInv, TypeOK, ghosts
<1>4. Listing' /\ Revoked' /\ Sound(ui')
  BY <1>1 DEF IInv, Listing, Revoked, ghosts
<1>5. ~ConnectSent
  BY <1>1 DEF ConnectSent, IInv, TypeOK, Page
<1> QED BY <1>1, <1>3, <1>4, <1>5 DEF IInv

LEMMA StutterSafe ==
  ASSUME IInv, UNCHANGED vars
  PROVE  IInv' /\ (ConnectSent => ~revoked')
<1>1. /\ ui' = ui /\ inn' = inn /\ connected' = connected /\ revoked' = revoked
      /\ UNCHANGED <<clicks, losses, drops, abandoned, hasty>>
  BY DEF vars
<1>2. TypeOK'
  BY <1>1 DEF IInv, TypeOK
<1>3. Listing' /\ Revoked' /\ Sound(ui')
  BY <1>1 DEF IInv, Listing, Revoked
<1>4. ~ConnectSent
  BY <1>1 DEF ConnectSent, IInv, TypeOK, Page
<1> QED BY <1>1, <1>2, <1>3, <1>4 DEF IInv

LEMMA StepSafe ==
  ASSUME IInv, [Next]_vars
  PROVE  IInv' /\ (ConnectSent => ~revoked')
BY OpenSocketSafe, DeliverSafe, RenderSafe, RunEffectsSafe, PollIntervalSafe, RetryFiresSafe,
   ConnectTimesOutSafe, AutoStartSafe, ClickDisconnectSafe, ClickConnectSafe, DropSafe,
   CloseEventSafe, ServeSafe, LoseSafe, StutterSafe DEF Next

LEMMA InitSafe == Init => IInv
<1> SUFFICES ASSUME Init PROVE IInv
  OBVIOUS
<1>1. Sound(ui) /\ ui \in Page
  BY FreshSound DEF Init, Sound, Steady
<1>2. TypeOK
  <2>1. {connected, revoked, abandoned, hasty} \subseteq BOOLEAN
    BY DEF Init
  <2>2. clicks \in 0 .. MaxClicks /\ losses \in 0 .. MaxLosses /\ drops \in 0 .. MaxDrops
    BY BrowserAssumption DEF Init
  <2>3. inn \in Seq(Reply)
    BY DEF Init
  <2> QED BY <1>1, <2>1, <2>2, <2>3 DEF TypeOK
<1>3. ui.out = <<>> /\ inn = <<>> /\ ui.listed = FALSE /\ revoked = FALSE
  BY DEF Init, Fresh
<1>4. Listing /\ Revoked
  BY <1>3 DEF Listing, Revoked, NoList, OneList
<1> QED BY <1>1, <1>2, <1>4 DEF IInv
-----------------------------------------------------------------------------
(* What goes over the socket, oldest first: answers that are to be heard,  *)
(* then frames that are to be served.  An answer has its frame's id.       *)

Wire == inn \o ui.out
Item == Frame \cup Reply

Connecting(m) == m.kind \in {"connect", "OK CONNECTED"}
Attempt(m)    == Connecting(m) \/ m.kind = "ERR"
Leaving(m)    == m.kind \in {"disconnect", "OK DISCONNECTED"}
Asking(m)     == m.kind \in {"status", "UP", "DOWN"}

Left(w, i) == \E k \in DOMAIN w : k > i /\ Leaving(w[k])
\* Nothing before item i can tell that the connection is lost.
Undisturbed(w, u, i) == \A j \in DOMAIN w : j < i => ~Asking(w[j]) /\ w[j].id # u.poll

Distinct(w) == \A i, j \in DOMAIN w : w[i].id = w[j].id => i = j
\* The attempt that is pending is the last.
OneAttempt(w, u) ==
  /\ u.connectReq # {} => u.pending
  /\ \A i, j \in DOMAIN w : Attempt(w[i]) /\ Attempt(w[j]) /\ w[i].id \in u.connectReq => j <= i
\* A disconnect is remembered until its answer is heard.
Departs(w, u, ha, rv) ==
  /\ \A i \in DOMAIN w : Leaving(w[i]) => w[i].id \in u.disconnectReq
  /\ ~ha /\ u.disconnectReq # {} => rv
  /\ rv /\ u.socket = "open" => u.state # "CONNECTED" /\ u.connectReq = {} /\ ~u.pending
  /\ ~ha => \A i, j \in DOMAIN w : Attempt(w[i]) /\ Leaving(w[j]) => i < j
\* One status is asked for at a time, and none while a poll may still fail
\* unless a disconnect comes after it.
OneStatus(w, u, ha) ==
  /\ \A i, j \in DOMAIN w : Asking(w[i]) /\ Asking(w[j]) => i = j
  /\ \A i, j \in DOMAIN w : Asking(w[i]) /\ w[i].id # u.statusReq /\ w[j].id = u.poll => i < j
  /\ ~ha /\ u.state # "CONNECTED" =>
       \A i, j \in DOMAIN w : Asking(w[j]) /\ w[i].id = u.poll => Left(w, i)
\* What may still connect: the attempt that is pending, one a disconnect
\* follows, or one whose device is shown connected and stays so till then.
Awaited(w, u, ha, ab) ==
  /\ ~ha /\ ~ab => \A i \in DOMAIN w : Connecting(w[i]) =>
       Left(w, i) \/ w[i].id \in u.connectReq \/ (u.state = "CONNECTED" /\ Undisturbed(w, u, i))
  /\ u.state = "CONNECTED" => ~ab

Link(w, u, ha, ab, rv) ==
  Distinct(w) /\ OneAttempt(w, u) /\ Departs(w, u, ha, rv) /\ OneStatus(w, u, ha) /\ Awaited(w, u, ha, ab)

\* An open transport is one that the last answer to tell of it says is open.
Losses == {"DOWN", "LOST", "ERR", "OK DISCONNECTED"}
Told(q, c) == c => \A i \in DOMAIN q : q[i].kind \in Losses =>
                     \E j \in DOMAIN q : j > i /\ q[j].kind = "OK CONNECTED"

\* The page knows of an open transport, or will.
Hope(w, u) == \/ u.state = "CONNECTED" \/ u.pending
              \/ ~u.manual /\ \E i \in DOMAIN w : Asking(w[i])
              \/ \E i \in DOMAIN w : Connecting(w[i])
Stays(u) == \A i \in DOMAIN u.out : u.out[i].kind # "disconnect"
Known(w, u, c, ha, ab) == u.socket = "open" /\ ~ab /\ ~ha /\ c /\ Stays(u) => Hope(w, u)

KnownInv ==
  /\ Link(Wire, ui, hasty, abandoned, revoked) /\ Told(inn, connected)
  /\ ui.socket = "closed" => ~ui.manual
  /\ Known(Wire, ui, connected, hasty, abandoned)

-----------------------------------------------------------------------------
(* The fields of a page that the wire is about.                            *)

Kept(u, v) ==
  /\ v.connectReq = u.connectReq /\ v.disconnectReq = u.disconnectReq
  /\ v.statusReq = u.statusReq /\ v.poll = u.poll
  /\ v.socket = u.socket /\ v.pending = u.pending /\ v.manual = u.manual
  /\ (v.state = "CONNECTED") = (u.state = "CONNECTED")
Clear(u, v) ==
  /\ v.connectReq = {} /\ v.disconnectReq = u.disconnectReq
  /\ v.statusReq = u.statusReq /\ v.poll = u.poll
  /\ v.socket = u.socket /\ v.pending = FALSE /\ v.manual = u.manual

LEMMA PatchKeeps ==
  ASSUME NEW u \in Page, NEW s \in States
  PROVE  LET p == Patch(u, s)
         IN p.state = s /\ p.statusReq = u.statusReq /\ p.poll = u.poll
<1> DEFINE p == Patch(u, s)
<1>1. PICK a, b, c : RecordState(u, s) = [u EXCEPT !.attempts = a, !.eligible = b, !.reconnecting = c]
  BY DEF RecordState
<1> DEFINE q == [[u EXCEPT !.attempts = a, !.eligible = b, !.reconnecting = c] EXCEPT !.state = s, !.stale = TRUE]
<1>2. q.statusReq = u.statusReq /\ q.poll = u.poll /\ q.state = s /\ DOMAIN q = DOMAIN u
  BY DEF Page
<1>3. p = IF s = "CONNECTED" THEN [q EXCEPT !.tries = 0]
          ELSE [q EXCEPT !.asked = FALSE, !.idnReq = None, !.identity = FALSE]
  BY <1>1 DEF Patch
<1> HIDE DEF q, p
<1>4. p.statusReq = q.statusReq /\ p.poll = q.poll /\ p.state = q.state
  BY <1>2, <1>3 DEF Page
<1> QED BY <1>2, <1>4 DEF p

LEMMA EndClears ==
  ASSUME NEW u \in Page, NEW s \in States
  PROVE  LET v == Patch(Finish(u), s) IN Clear(u, v) /\ v.state = s /\ v.out = u.out
<1> DEFINE f == Finish(u)
<1>1. /\ f \in Page /\ f.pending = FALSE /\ f.connectReq = {} /\ f.disconnectReq = u.disconnectReq
      /\ f.manual = u.manual /\ f.socket = u.socket /\ f.out = u.out
  BY Finished
<1>2. f.statusReq = u.statusReq /\ f.poll = u.poll
  BY DEF Finish, Page
<1> HIDE DEF f
<1>3. LET v == Patch(f, s) IN v.state = s /\ v.statusReq = f.statusReq /\ v.poll = f.poll
  BY <1>1, PatchKeeps
<1>4. LET v == Patch(f, s)
      IN /\ v.pending = f.pending /\ v.connectReq = f.connectReq /\ v.disconnectReq = f.disconnectReq
         /\ v.manual = f.manual /\ v.socket = f.socket /\ v.out = f.out
  BY <1>1, Patched
<1> QED BY <1>1, <1>2, <1>3, <1>4 DEF Clear, f

-----------------------------------------------------------------------------
(* What the wire keeps to.                                                 *)

LEMMA LinkKept ==
  ASSUME NEW w, NEW u, NEW v, NEW ha, NEW ab, NEW rv, Link(w, u, ha, ab, rv), Kept(u, v)
  PROVE  Link(w, v, ha, ab, rv)
<1>1. OneAttempt(w, v)
  BY DEF Link, Kept, OneAttempt
<1>2. Departs(w, v, ha, rv)
  BY DEF Link, Kept, Departs
<1>3. OneStatus(w, v, ha)
  BY DEF Link, Kept, OneStatus
<1>4. Awaited(w, v, ha, ab)
  BY DEF Link, Kept, Awaited, Undisturbed
<1> QED BY <1>1, <1>2, <1>3, <1>4 DEF Link

\* The oldest item goes.
LEMMA LinkTail ==
  ASSUME NEW w \in Seq(Item), w # <<>>, NEW u, NEW ha, NEW ab, NEW rv, Link(w, u, ha, ab, rv)
  PROVE  Link(Tail(w), u, ha, ab, rv)
<1> DEFINE t == Tail(w)
<1>1. /\ \A i \in DOMAIN t : i + 1 \in DOMAIN w /\ t[i] = w[i + 1]
      /\ \A i, j \in DOMAIN t : (i + 1 = j + 1 => i = j) /\ (i + 1 < j + 1 => i < j) /\ (i < j => i + 1 < j + 1)
      /\ \A i, j \in DOMAIN t : (i + 1 <= j + 1 => i <= j)
  OBVIOUS
<1>2. \A i \in DOMAIN t : Left(w, i + 1) => Left(t, i)
  <2> SUFFICES ASSUME NEW i \in DOMAIN t, NEW k \in DOMAIN w, k > i + 1, Leaving(w[k]) PROVE Left(t, i)
    BY DEF Left
  <2>1. k - 1 \in DOMAIN t /\ t[k - 1] = w[k] /\ k - 1 > i
    OBVIOUS
  <2> QED BY <2>1 DEF Left
<1>3. \A i \in DOMAIN t : Undisturbed(w, u, i + 1) => Undisturbed(t, u, i)
  BY <1>1 DEF Undisturbed
<1> HIDE DEF t
<1>4. Distinct(t) /\ OneAttempt(t, u)
  BY <1>1 DEF Link, Distinct, OneAttempt
<1>5. Departs(t, u, ha, rv)
  BY <1>1 DEF Link, Departs
<1>6. OneStatus(t, u, ha)
  BY <1>1, <1>2 DEF Link, OneStatus
<1>7. Awaited(t, u, ha, ab)
  BY <1>1, <1>2, <1>3 DEF Link, Awaited
<1> QED BY <1>4, <1>5, <1>6, <1>7 DEF Link, t

\* An id that nothing refers to.
Unused(w, u, n) ==
  /\ n \notin u.connectReq /\ n \notin u.disconnectReq /\ n # u.statusReq /\ n # u.poll
  /\ \A i \in DOMAIN w : w[i].id # n

LEMMA Appended ==
  ASSUME NEW w \in Seq(Item), NEW e
  PROVE  LET a == Append(w, e)
             n == Len(w) + 1
         IN /\ \A i \in DOMAIN a : (i \in DOMAIN w /\ a[i] = w[i]) \/ (i = n /\ a[i] = e)
            /\ DOMAIN w \subseteq DOMAIN a /\ n \in DOMAIN a
            /\ \A i \in DOMAIN w : i < n /\ i # n /\ ~(n < i) /\ i <= n
            /\ \A i \in DOMAIN w : Left(w, i) => Left(a, i)
            /\ \A i \in DOMAIN w : Leaving(e) => Left(a, i)
<1> DEFINE a == Append(w, e)
           n == Len(w) + 1
<1>1. \A i \in DOMAIN a : (i \in DOMAIN w /\ a[i] = w[i]) \/ (i = n /\ a[i] = e)
  OBVIOUS
<1>2. DOMAIN w \subseteq DOMAIN a /\ n \in DOMAIN a /\ a[n] = e /\ \A i \in DOMAIN w : a[i] = w[i]
  OBVIOUS
<1>3. \A i \in DOMAIN w : i < n /\ i # n /\ ~(n < i) /\ i <= n /\ n > i
  OBVIOUS
<1> HIDE DEF a, n
<1>4. \A i \in DOMAIN w : Left(w, i) => Left(a, i)
  BY <1>2 DEF Left
<1>5. \A i \in DOMAIN w : Leaving(e) => Left(a, i)
  BY <1>2, <1>3 DEF Left
<1> QED BY <1>1, <1>2, <1>3, <1>4, <1>5 DEF a, n

\* An item that tells nothing.
LEMMA LinkIdle ==
  ASSUME NEW w \in Seq(Item), NEW u, NEW v, NEW ha, NEW ab, NEW rv, NEW e,
         Link(w, u, ha, ab, rv), Kept(u, v), e.kind \in {"idn", "list"}, Unused(w, u, e.id)
  PROVE  Link(Append(w, e), v, ha, ab, rv)
<1> SUFFICES Link(Append(w, e), u, ha, ab, rv)
  BY LinkKept
<1> DEFINE a == Append(w, e)
           n == Len(w) + 1
<1>1. /\ \A i \in DOMAIN a : (i \in DOMAIN w /\ a[i] = w[i]) \/ (i = n /\ a[i] = e)
      /\ \A i \in DOMAIN w : i < n /\ i # n /\ ~(n < i) /\ i <= n
      /\ \A i \in DOMAIN w : Left(w, i) => Left(a, i)
  BY Appended
<1>2. ~Attempt(e) /\ ~Connecting(e) /\ ~Leaving(e) /\ ~Asking(e) /\ e.id # u.poll
  BY DEF Attempt, Connecting, Leaving, Asking, Unused
<1> HIDE DEF a, n
<1>3. \A i \in DOMAIN w : Undisturbed(w, u, i) => Undisturbed(a, u, i)
  BY <1>1, <1>2 DEF Undisturbed
<1>4. Distinct(a)
  BY <1>1 DEF Link, Distinct, Unused
<1>5. OneAttempt(a, u)
  BY <1>1, <1>2 DEF Link, OneAttempt
<1>6. Departs(a, u, ha, rv)
  BY <1>1, <1>2 DEF Link, Departs
<1>7. OneStatus(a, u, ha)
  BY <1>1, <1>2 DEF Link, OneStatus
<1>8. Awaited(a, u, ha, ab)
  BY <1>1, <1>2, <1>3 DEF Link, Awaited
<1> QED BY <1>4, <1>5, <1>6, <1>7, <1>8 DEF Link, a

\* A poll of a device that is connected, of which no other is unanswered.
LEMMA LinkPoll ==
  ASSUME NEW w \in Seq(Item), NEW u, NEW v, NEW ha, NEW ab, NEW rv, NEW e,
         Link(w, u, ha, ab, rv), e.kind = "poll", Unused(w, u, e.id),
         u.state = "CONNECTED", v.state = "CONNECTED", v.poll = e.id,
         v.connectReq = u.connectReq, v.disconnectReq = u.disconnectReq,
         v.statusReq = u.statusReq, v.socket = u.socket, v.pending = u.pending
  PROVE  Link(Append(w, e), v, ha, ab, rv)
<1> DEFINE a == Append(w, e)
           n == Len(w) + 1
<1>1. /\ \A i \in DOMAIN a : (i \in DOMAIN w /\ a[i] = w[i]) \/ (i = n /\ a[i] = e)
      /\ \A i \in DOMAIN w : i < n /\ i # n /\ ~(n < i) /\ i <= n
      /\ \A i \in DOMAIN w : Left(w, i) => Left(a, i)
  BY Appended
<1>2. ~Attempt(e) /\ ~Connecting(e) /\ ~Leaving(e) /\ ~Asking(e)
      /\ \A i \in DOMAIN w : w[i].id # v.poll
  BY DEF Attempt, Connecting, Leaving, Asking, Unused
<1> HIDE DEF a, n
<1>3. \A i \in DOMAIN w : Undisturbed(w, u, i) => Undisturbed(a, v, i)
  BY <1>1, <1>2 DEF Undisturbed
<1>4. Distinct(a)
  BY <1>1 DEF Link, Distinct, Unused
<1>5. OneAttempt(a, v)
  BY <1>1, <1>2 DEF Link, OneAttempt
<1>6. Departs(a, v, ha, rv)
  BY <1>1, <1>2 DEF Link, Departs
<1>7. OneStatus(a, v, ha)
  BY <1>1, <1>2 DEF Link, OneStatus
<1>8. Awaited(a, v, ha, ab)
  BY <1>1, <1>2, <1>3 DEF Link, Awaited
<1> QED BY <1>4, <1>5, <1>6, <1>7, <1>8 DEF Link, a

\* A status asked for while nothing else will tell of the connection.
LEMMA LinkStatus ==
  ASSUME NEW w \in Seq(Item), NEW u, NEW v, NEW ha, NEW ab, NEW rv, NEW e,
         Link(w, u, ha, ab, rv), e.kind = "status", Unused(w, u, e.id),
         \A i \in DOMAIN w : ~Asking(w[i]) /\ w[i].id # u.poll,
         v.connectReq = u.connectReq, v.disconnectReq = u.disconnectReq, v.poll = u.poll,
         v.socket = u.socket, v.pending = u.pending, v.state = u.state
  PROVE  Link(Append(w, e), v, ha, ab, rv)
<1> DEFINE a == Append(w, e)
           n == Len(w) + 1
<1>1. /\ \A i \in DOMAIN a : (i \in DOMAIN w /\ a[i] = w[i]) \/ (i = n /\ a[i] = e)
      /\ \A i \in DOMAIN w : i < n /\ i # n /\ ~(n < i) /\ i <= n
      /\ \A i \in DOMAIN w : Left(w, i) => Left(a, i)
  BY Appended
<1>2. ~Attempt(e) /\ ~Connecting(e) /\ ~Leaving(e) /\ e.id # v.poll
  BY DEF Attempt, Connecting, Leaving, Unused
<1> HIDE DEF a, n
<1>3. \A i \in DOMAIN w : Undisturbed(w, u, i) => Undisturbed(a, v, i)
  BY <1>1, <1>2 DEF Undisturbed
<1>4. Distinct(a)
  BY <1>1 DEF Link, Distinct, Unused
<1>5. OneAttempt(a, v)
  BY <1>1, <1>2 DEF Link, OneAttempt
<1>6. Departs(a, v, ha, rv)
  BY <1>1, <1>2 DEF Link, Departs
<1>7. OneStatus(a, v, ha)
  <2>1. \A i \in DOMAIN a : a[i].id # v.poll
    BY <1>1, <1>2
  <2> QED BY <1>1, <1>2, <2>1 DEF Link, OneStatus
<1>8. Awaited(a, v, ha, ab)
  BY <1>1, <1>2, <1>3 DEF Link, Awaited
<1> QED BY <1>4, <1>5, <1>6, <1>7, <1>8 DEF Link, a

\* An attempt begins when none is pending and no disconnect is unanswered.
LEMMA LinkConnect ==
  ASSUME NEW w \in Seq(Item), NEW u, NEW v, NEW ha, NEW hb, NEW ab, NEW rv, NEW e,
         Link(w, u, ha, ab, rv), e.kind = "connect", Unused(w, u, e.id),
         ha => hb, ~hb => u.disconnectReq = {}, ~u.pending, u.state # "CONNECTED",
         v.state # "CONNECTED", v.pending, v.connectReq = {e.id},
         v.disconnectReq = u.disconnectReq, v.poll = u.poll, v.statusReq = u.statusReq, v.socket = u.socket
  PROVE  Link(Append(w, e), v, hb, ab, FALSE)
<1> DEFINE a == Append(w, e)
           n == Len(w) + 1
<1>1. /\ \A i \in DOMAIN a : (i \in DOMAIN w /\ a[i] = w[i]) \/ (i = n /\ a[i] = e)
      /\ \A i \in DOMAIN w : i < n /\ i # n /\ ~(n < i) /\ i <= n
      /\ \A i \in DOMAIN w : Left(w, i) => Left(a, i)
      /\ n \in Int
  BY Appended
<1>2. /\ ~Leaving(e) /\ ~Asking(e) /\ u.connectReq = {} /\ e.id # v.poll
      /\ \A i \in DOMAIN w : w[i].id \notin v.connectReq
  BY DEF Leaving, Asking, Link, OneAttempt, Unused
<1> HIDE DEF a, n
<1>4. Distinct(a)
  BY <1>1 DEF Link, Distinct, Unused
<1>5. OneAttempt(a, v)
  BY <1>1, <1>2 DEF OneAttempt
<1>6. Departs(a, v, hb, FALSE)
  <2>1. \A i \in DOMAIN a : Leaving(a[i]) => a[i].id \in v.disconnectReq
    BY <1>1, <1>2 DEF Link, Departs
  <2> QED BY <2>1 DEF Departs
<1>7. OneStatus(a, v, hb)
  BY <1>1, <1>2 DEF Link, OneStatus
<1>8. Awaited(a, v, hb, ab)
  BY <1>1, <1>2 DEF Link, Awaited
<1> QED BY <1>4, <1>5, <1>6, <1>7, <1>8 DEF Link, a

\* A disconnect ends the attempt and outlasts what was sent before it.
LEMMA LinkDisconnect ==
  ASSUME NEW w \in Seq(Item), NEW u, NEW v, NEW ha, NEW ab, NEW rv, NEW e,
         NEW c, Link(w, u, ha, ab, rv), e.kind = "disconnect", Unused(w, c, e.id), u.poll = c.poll,
         v.state # "CONNECTED", v.pending = FALSE, v.connectReq = {},
         v.disconnectReq = u.disconnectReq \cup {e.id}, v.poll = u.poll, v.statusReq = u.statusReq
  PROVE  Link(Append(w, e), v, ha, ab, TRUE)
<1> DEFINE a == Append(w, e)
           n == Len(w) + 1
<1>1. /\ \A i \in DOMAIN a : (i \in DOMAIN w /\ a[i] = w[i]) \/ (i = n /\ a[i] = e)
      /\ \A i \in DOMAIN w : i < n /\ i # n /\ ~(n < i) /\ i <= n
  BY Appended
<1>2. ~Attempt(e) /\ ~Connecting(e) /\ ~Asking(e) /\ Leaving(e) /\ e.id # v.poll
  BY DEF Attempt, Connecting, Asking, Leaving, Unused
<1>3. \A i \in DOMAIN w : Left(a, i)
  BY <1>2, Appended
<1> HIDE DEF a, n
<1>4. Distinct(a)
  BY <1>1 DEF Link, Distinct, Unused
<1>5. OneAttempt(a, v)
  BY <1>1, <1>2 DEF OneAttempt
<1>6. Departs(a, v, ha, TRUE)
  BY <1>1, <1>2 DEF Link, Departs
<1>7. OneStatus(a, v, ha)
  BY <1>1, <1>2, <1>3 DEF Link, OneStatus
<1>8. Awaited(a, v, ha, ab)
  BY <1>1, <1>2, <1>3 DEF Awaited
<1> QED BY <1>4, <1>5, <1>6, <1>7, <1>8 DEF Link, a

\* The device comes to be connected: nothing that may still connect has
\* anything before it that could say otherwise.
LEMMA LinkOpened ==
  ASSUME NEW w, NEW u, NEW v, NEW ha, NEW ab, NEW rv, Link(w, u, ha, ab, rv), ~rv,
         v.state = "CONNECTED", Clear(u, v),
         ~ha => \A i \in DOMAIN w : Connecting(w[i]) => Left(w, i) \/ Undisturbed(w, u, i)
  PROVE  Link(w, v, ha, FALSE, rv)
<1>1. Distinct(w) /\ OneAttempt(w, v)
  BY DEF Link, OneAttempt, Clear
<1>2. Departs(w, v, ha, rv)
  BY DEF Link, Departs, Clear
<1>3. OneStatus(w, v, ha)
  BY DEF Link, OneStatus, Clear
<1>4. Awaited(w, v, ha, FALSE)
  BY DEF Awaited, Undisturbed, Clear
<1> QED BY <1>1, <1>2, <1>3, <1>4 DEF Link

\* It comes to be disconnected: what may still connect is left by a
\* disconnect, or was given up.
LEMMA LinkClosed ==
  ASSUME NEW w, NEW u, NEW v, NEW ha, NEW ab, NEW ac, NEW rv, Link(w, u, ha, ab, rv),
         v.state # "CONNECTED", v.connectReq = {}, v.pending = FALSE,
         v.statusReq = u.statusReq, v.poll = u.poll, v.socket = u.socket,
         v.disconnectReq \subseteq u.disconnectReq,
         \A i \in DOMAIN w : Leaving(w[i]) => w[i].id \in v.disconnectReq,
         ~ha /\ ~ac => \A i \in DOMAIN w : Connecting(w[i]) => Left(w, i),
         ~ha => \A i, j \in DOMAIN w : Asking(w[j]) /\ w[i].id = u.poll => Left(w, i)
  PROVE  Link(w, v, ha, ac, rv)
<1>1. Distinct(w) /\ OneAttempt(w, v)
  BY DEF Link, OneAttempt
<1>2. Departs(w, v, ha, rv)
  BY DEF Link, Departs
<1>3. OneStatus(w, v, ha)
  BY DEF Link, OneStatus
<1>4. Awaited(w, v, ha, ac)
  BY DEF Awaited
<1> QED BY <1>1, <1>2, <1>3, <1>4 DEF Link

\* A poll is forgotten.
LEMMA LinkForgets ==
  ASSUME NEW w \in Seq(Item), NEW u, NEW v, NEW ha, NEW ab, NEW rv, Link(w, u, ha, ab, rv), v.poll = None,
         v.connectReq = u.connectReq, v.disconnectReq = u.disconnectReq,
         v.statusReq = u.statusReq, v.socket = u.socket, v.pending = u.pending, v.state = u.state
  PROVE  Link(w, v, ha, ab, rv)
<1>1. \A i \in DOMAIN w : w[i].id # None
  <2> SUFFICES ASSUME NEW i \in DOMAIN w PROVE w[i].id # None
    OBVIOUS
  <2>1. w[i] \in Frame \/ w[i] \in Reply
    BY DEF Item
  <2> QED BY <2>1 DEF Frame, Reply, Ids, None
<1>2. OneAttempt(w, v)
  BY DEF Link, OneAttempt
<1>3. Departs(w, v, ha, rv)
  BY DEF Link, Departs
<1>4. OneStatus(w, v, ha)
  BY <1>1 DEF Link, OneStatus
<1>5. Awaited(w, v, ha, ab)
  BY <1>1 DEF Link, Awaited, Undisturbed
<1> QED BY <1>2, <1>3, <1>4, <1>5 DEF Link

-----------------------------------------------------------------------------
(* Sending.                                                                *)

LEMMA Joined ==
  ASSUME NEW b \in Seq(Reply), NEW o \in Seq(Frame)
  PROVE  /\ b \o o \in Seq(Item)
         /\ \A e \in Frame : b \o Append(o, e) = Append(b \o o, e)
         /\ b # <<>> => /\ Tail(b \o o) = Tail(b) \o o /\ b \o o # <<>>
                        /\ 1 \in DOMAIN (b \o o) /\ (b \o o)[1] = Head(b)
<1>1. b \in Seq(Item) /\ o \in Seq(Item)
  BY DEF Item
<1>2. b \o o \in Seq(Item)
  BY <1>1
<1>3. ASSUME NEW e \in Frame PROVE b \o Append(o, e) = Append(b \o o, e)
  OBVIOUS
<1>4. ASSUME b # <<>>
      PROVE  /\ Tail(b \o o) = Tail(b) \o o /\ b \o o # <<>>
             /\ 1 \in DOMAIN (b \o o) /\ (b \o o)[1] = Head(b)
  <2>1. b \o o # <<>> /\ 1 \in DOMAIN (b \o o) /\ (b \o o)[1] = Head(b)
    BY <1>4
  <2>2. Tail(b \o o) = Tail(b) \o o
    BY <1>4
  <2> QED BY <2>1, <2>2
<1> QED BY <1>2, <1>3, <1>4

LEMMA NewIdUnused ==
  ASSUME NEW u \in Page, Finite(u), inn \in Seq(Reply), NEW b \in Seq(Reply), Range(b) \subseteq Range(inn)
  PROVE  /\ NewId(u) \in Ids /\ Unused(b \o u.out, u, NewId(u))
<1>1. NewId(u) \in Ids /\ NewId(u) \notin InUse(u)
  BY NewIdIsId
<1>2. u.out \in Seq(Frame)
  BY DEF Page
<1>3. \A i \in DOMAIN (b \o u.out) : (b \o u.out)[i] \in Range(b) \cup Range(u.out)
  <2>1. \A i \in DOMAIN (b \o u.out) :
          \/ i \in DOMAIN b /\ (b \o u.out)[i] = b[i]
          \/ i - Len(b) \in DOMAIN u.out /\ (b \o u.out)[i] = u.out[i - Len(b)]
    BY <1>2
  <2> QED BY <2>1 DEF Range
<1>4. \A i \in DOMAIN (b \o u.out) : (b \o u.out)[i].id \in InUse(u)
  BY <1>3 DEF InUse
<1> QED BY <1>1, <1>4 DEF Unused, InUse

\* Page u is to be read, and its requests are on the wire after b.
Live(b, u, ha, ab, rv) ==
  /\ u \in Page /\ Finite(u) /\ inn \in Seq(Reply) /\ b \in Seq(Reply) /\ Range(b) \subseteq Range(inn)
  /\ Link(b \o u.out, u, ha, ab, rv)

\* What a frame does to the page that sends it.
LEMMA SendGives ==
  ASSUME NEW u \in Page, NEW k \in Kinds, Finite(u), inn \in Seq(Reply),
         NEW b \in Seq(Reply), Range(b) \subseteq Range(inn)
  PROVE  LET n == Send(u, k)
             e == [kind |-> k, id |-> NewId(u)]
         IN /\ n \in Page /\ n.out = Append(u.out, e) /\ e \in Frame
            /\ b \o n.out = Append(b \o u.out, e) /\ b \o u.out \in Seq(Item)
            /\ Unused(b \o u.out, u, e.id)
            /\ Kept(u, n) /\ n.state = u.state
<1> DEFINE n == Send(u, k)
           e == [kind |-> k, id |-> NewId(u)]
           o == Append(u.out, e)
<1>1. NewId(u) \in Ids /\ Unused(b \o u.out, u, NewId(u))
  BY NewIdUnused
<1>2. e \in Frame /\ e.id = NewId(u)
  BY <1>1 DEF Frame, Kinds
<1>3. u.out \in Seq(Frame)
  BY DEF Page
<1>4. o \in Seq(Frame) /\ b \o o = Append(b \o u.out, e) /\ b \o u.out \in Seq(Item)
  BY <1>2, <1>3, Joined, SMTT(30)
<1>5. n = [u EXCEPT !.out = o]
  BY DEF Send
<1> HIDE DEF o, e
<1>6. n \in Page
  BY <1>4, <1>5, ZenonT(60) DEF Page
<1>7. n.out = o /\ Kept(u, n) /\ n.state = u.state
  BY <1>5 DEF Page, Kept
<1> QED BY <1>1, <1>2, <1>4, <1>6, <1>7 DEF o, e

LEMMA IdentityLinks ==
  ASSUME NEW u, NEW b, NEW ha, NEW ab, NEW rv, Live(b, u, ha, ab, rv)
  PROVE  LET v == RequestIdentity(u) IN Link(b \o v.out, v, ha, ab, rv) /\ Kept(u, v)
<1> DEFINE n == Send(u, "idn")
           v == [n EXCEPT !.asked = TRUE, !.idnReq = NewId(u)]
<1>1. CASE RequestIdentity(u) = u
  BY <1>1 DEF Kept, Live
<1>2. CASE RequestIdentity(u) = v
  <2> DEFINE e == [kind |-> "idn", id |-> NewId(u)]
             w == b \o u.out
  <2>1. /\ n \in Page /\ n.out = Append(u.out, e)
        /\ b \o n.out = Append(w, e) /\ w \in Seq(Item)
        /\ Unused(w, u, e.id) /\ Kept(u, n)
    BY SendGives DEF Live, Kinds
  <2> HIDE DEF n
  <2>2. v.out = n.out /\ Kept(n, v)
    BY <2>1 DEF Page, Kept
  <2> HIDE DEF v
  <2>3. Kept(u, v) /\ e.kind = "idn"
    BY <2>1, <2>2 DEF Kept
  <2> HIDE DEF e
  <2>4. Link(Append(w, e), v, ha, ab, rv)
    BY <2>1, <2>3, LinkIdle DEF Live
  <2> QED BY <1>2, <2>1, <2>2, <2>3, <2>4
<1> QED BY <1>1, <1>2 DEF RequestIdentity

LEMMA PollLinks ==
  ASSUME NEW u, NEW b, NEW ha, NEW ab, NEW rv, Live(b, u, ha, ab, rv)
  PROVE  LET v == PollIdentity(u)
         IN /\ Link(b \o v.out, v, ha, ab, rv)
            /\ v.state = u.state /\ v.pending = u.pending /\ v.manual = u.manual /\ v.socket = u.socket
<1> DEFINE n == Send(u, "poll")
           v == [n EXCEPT !.poll = NewId(u)]
           c == [u EXCEPT !.poll = None]
<1>0. b \o u.out \in Seq(Item)
  BY Joined DEF Live, Page
<1>1. CASE PollIdentity(u) = u
  BY <1>1 DEF Live
<1>2. CASE PollIdentity(u) = c
  <2>1. /\ c.poll = None /\ c.connectReq = u.connectReq /\ c.disconnectReq = u.disconnectReq
        /\ c.statusReq = u.statusReq /\ c.socket = u.socket /\ c.pending = u.pending /\ c.state = u.state
        /\ c.manual = u.manual /\ c.out = u.out
    BY DEF Live, Page
  <2> HIDE DEF c
  <2> QED BY <1>0, <1>2, <2>1, LinkForgets DEF Live
<1>3. CASE u.state = "CONNECTED" /\ PollIdentity(u) = v
  <2> DEFINE e == [kind |-> "poll", id |-> NewId(u)]
             w == b \o u.out
  <2>1. /\ n \in Page /\ n.out = Append(u.out, e)
        /\ b \o n.out = Append(w, e) /\ w \in Seq(Item)
        /\ Unused(w, u, e.id) /\ Kept(u, n) /\ n.state = u.state
    BY SendGives DEF Live, Kinds
  <2> HIDE DEF n
  <2>2. /\ v.out = n.out /\ v.poll = NewId(u) /\ v.connectReq = n.connectReq /\ v.disconnectReq = n.disconnectReq
        /\ v.statusReq = n.statusReq /\ v.socket = n.socket /\ v.pending = n.pending /\ v.state = n.state
        /\ v.manual = n.manual
    BY <2>1 DEF Page
  <2> HIDE DEF v
  <2>3. e.kind = "poll" /\ e.id = NewId(u)
    OBVIOUS
  <2> HIDE DEF e
  <2>4. /\ Link(w, u, ha, ab, rv) /\ u.state = "CONNECTED" /\ v.state = "CONNECTED" /\ v.poll = e.id
        /\ v.connectReq = u.connectReq /\ v.disconnectReq = u.disconnectReq
        /\ v.statusReq = u.statusReq /\ v.socket = u.socket /\ v.pending = u.pending
    BY <1>3, <2>1, <2>2, <2>3 DEF Live, Kept
  <2> HIDE DEF w
  <2>5. Link(Append(w, e), v, ha, ab, rv)
    BY <2>1, <2>3, <2>4, LinkPoll
  <2> QED BY <1>3, <2>1, <2>2, <2>4, <2>5 DEF Kept, w
<1> QED BY <1>1, <1>2, <1>3 DEF PollIdentity

\* A wire that is broken.
LEMMA LinkEmpty ==
  ASSUME NEW u, NEW ha, NEW ab, NEW rv,
         u.connectReq # {} => u.pending, ~ha /\ u.disconnectReq # {} => rv,
         rv => u.socket # "open", u.state = "CONNECTED" => ~ab
  PROVE  Link(<<>>, u, ha, ab, rv)
<1>1. DOMAIN <<>> = {}
  OBVIOUS
<1>2. Distinct(<<>>) /\ OneAttempt(<<>>, u)
  BY <1>1 DEF Distinct, OneAttempt
<1>3. Departs(<<>>, u, ha, rv)
  BY <1>1 DEF Departs
<1>4. OneStatus(<<>>, u, ha)
  BY <1>1 DEF OneStatus
<1>5. Awaited(<<>>, u, ha, ab)
  BY <1>1 DEF Awaited
<1> QED BY <1>2, <1>3, <1>4, <1>5 DEF Link

\* The user clicks Connect.
LEMMA LinkPardoned ==
  ASSUME NEW w, NEW u, NEW ha, NEW hb, NEW ab, NEW rv, Link(w, u, ha, ab, rv),
         ha => hb, ~hb => u.disconnectReq = {}
  PROVE  Link(w, u, hb, ab, FALSE)
<1>1. Departs(w, u, hb, FALSE)
  BY DEF Link, Departs
<1>2. OneStatus(w, u, hb)
  BY DEF Link, OneStatus
<1>3. Awaited(w, u, hb, ab)
  BY DEF Link, Awaited
<1> QED BY <1>1, <1>2, <1>3 DEF Link

LEMMA ConnectLinks ==
  ASSUME NEW u, NEW b, NEW ha, NEW hb, NEW ab, NEW rv, Live(b, u, ha, ab, rv),
         ha => hb, ~hb => u.disconnectReq = {}, u.socket # "open" => b \o u.out = <<>>
  PROVE  LET v == Connect(u)
         IN /\ Link(b \o v.out, v, hb, ab, FALSE)
            /\ v.socket = u.socket /\ (v = u \/ v.pending = TRUE \/ u.socket # "open")
<1> DEFINE p == Patch(u, "CONNECTING")
           c == [p EXCEPT !.pending = TRUE, !.timer = TRUE, !.manual = FALSE]
           n == Send(c, "connect")
           d == [n EXCEPT !.connectReq = @ \cup {NewId(c)}]
<1>1. CASE Connect(u) = u
  <2>1. Link(b \o u.out, u, hb, ab, FALSE)
    BY LinkPardoned DEF Live
  <2> QED BY <1>1, <2>1
<1>2. CASE Connect(u) # u
  <2>1. ~u.pending /\ u.state # "CONNECTED" /\ Connect(u) = IF CanSend(c) THEN d ELSE Failed(c)
    BY <1>2 DEF Connect
  <2>2. u \in Page /\ "CONNECTING" \in States
    BY DEF Live, States
  <2>3. /\ p \in Page /\ p.state = "CONNECTING" /\ p.connectReq = u.connectReq
        /\ p.disconnectReq = u.disconnectReq /\ p.socket = u.socket /\ p.out = u.out
        /\ p.statusReq = u.statusReq /\ p.poll = u.poll
    BY <2>2, Patched, PatchKeeps
  <2> HIDE DEF p
  <2>4. /\ c \in Page /\ c.state = "CONNECTING" /\ c.connectReq = u.connectReq
        /\ c.disconnectReq = u.disconnectReq /\ c.socket = u.socket /\ c.out = u.out
        /\ c.statusReq = u.statusReq /\ c.poll = u.poll /\ c.pending = TRUE
    <3>1. c \in Page
      BY <2>3 DEF Page
    <3>2. /\ c.state = p.state /\ c.connectReq = p.connectReq
          /\ c.disconnectReq = p.disconnectReq /\ c.socket = p.socket /\ c.out = p.out
          /\ c.statusReq = p.statusReq /\ c.poll = p.poll /\ c.pending = TRUE
      BY <2>3 DEF Page
    <3> HIDE DEF c
    <3> QED BY <2>3, <3>1, <3>2
  <2> HIDE DEF c
  <2>5. CASE c.socket # "open"
    <3>1. Connect(u) = Patch(Finish(c), "DISCONNECTED")
      BY <2>1, <2>5 DEF CanSend, Failed
    <3>2. LET x == Patch(Finish(c), "DISCONNECTED")
          IN Clear(c, x) /\ x.state = "DISCONNECTED" /\ x.out = c.out
      BY <2>4, EndClears DEF States
    <3> DEFINE x == Patch(Finish(c), "DISCONNECTED")
    <3>3. /\ x.connectReq = {} /\ x.disconnectReq = u.disconnectReq /\ x.state # "CONNECTED"
          /\ x.socket = u.socket /\ b \o x.out = <<>> /\ u.socket # "open"
      BY <2>4, <2>5, <3>2 DEF Clear
    <3> HIDE DEF x
    <3>4. Link(<<>>, x, hb, ab, FALSE)
      BY <3>3, LinkEmpty
    <3> QED BY <3>1, <3>3, <3>4 DEF x
  <2>6. CASE c.socket = "open"
    <3> DEFINE e == [kind |-> "connect", id |-> NewId(c)]
               w == b \o u.out
    <3>1. Finite(c) /\ inn \in Seq(Reply) /\ b \in Seq(Reply) /\ Range(b) \subseteq Range(inn)
      BY <2>4 DEF Live, Finite
    <3>2. /\ n \in Page /\ n.out = Append(c.out, e)
          /\ b \o n.out = Append(b \o c.out, e) /\ b \o c.out \in Seq(Item)
          /\ Unused(b \o c.out, c, e.id) /\ Kept(c, n) /\ n.state = c.state
      BY <2>4, <3>1, SendGives DEF Kinds
    <3> HIDE DEF n
    <3>3. /\ d.out = n.out /\ d.connectReq = n.connectReq \cup {NewId(c)} /\ d.disconnectReq = n.disconnectReq
          /\ d.statusReq = n.statusReq /\ d.socket = n.socket /\ d.pending = n.pending /\ d.state = n.state
          /\ d.poll = n.poll
      BY <3>2 DEF Page
    <3>4. Connect(u) = d
      BY <2>1, <2>6 DEF CanSend
    <3> HIDE DEF d
    <3>5. e.kind = "connect" /\ e.id = NewId(c)
      OBVIOUS
    <3> HIDE DEF e
    <3>6. Unused(w, u, e.id) /\ w \in Seq(Item) /\ Link(w, u, ha, ab, rv)
      BY <2>4, <3>2 DEF Unused, Live
    <3>7. u.connectReq = {}
      BY <2>1 DEF Live, Link, OneAttempt
    <3>8. /\ d.state # "CONNECTED" /\ d.pending = TRUE /\ d.connectReq = {e.id}
          /\ d.disconnectReq = u.disconnectReq /\ d.poll = u.poll /\ d.statusReq = u.statusReq /\ d.socket = u.socket
      BY <2>4, <3>2, <3>3, <3>5, <3>7 DEF Kept
    <3> HIDE DEF w
    <3>9. Link(Append(w, e), d, hb, ab, FALSE)
      BY <2>1, <3>5, <3>6, <3>8, LinkConnect
    <3> QED BY <2>4, <3>2, <3>3, <3>4, <3>8, <3>9 DEF w
  <2> QED BY <2>5, <2>6
<1> QED BY <1>1, <1>2

LEMMA DisconnectLinks ==
  ASSUME NEW u, NEW b, NEW ha, NEW ab, NEW rv, Live(b, u, ha, ab, rv), u.listed,
         u.socket # "open" => b \o u.out = <<>>
  PROVE  LET v == Disconnect(u)
         IN /\ Link(b \o v.out, v, ha, ab, TRUE) /\ v.socket = u.socket
            /\ u.socket = "open" => ~Stays(v)
<1> DEFINE s == Suppress(u)
           c == Patch(Finish(s), "DISCONNECTING")
           n == Send(c, "disconnect")
           d == [n EXCEPT !.disconnectReq = @ \cup {NewId(c)}]
           back == IF u.state = "CONNECTED" THEN "CONNECTED" ELSE "DISCONNECTED"
           x == Patch(c, back)
<1>1. Disconnect(u) = IF CanSend(c) THEN d ELSE x
  BY DEF Disconnect
<1>2. u \in Page /\ "DISCONNECTING" \in States /\ back \in States
  BY DEF Live, States
<1>3. /\ s \in Page /\ s.disconnectReq = u.disconnectReq /\ s.socket = u.socket /\ s.out = u.out
      /\ s.statusReq = u.statusReq /\ s.poll = u.poll
  <2>1. 0 \in 0 .. Retries
    BY DEF Retries
  <2>2. s \in Page
    BY <1>2, <2>1 DEF Suppress, Page
  <2> QED BY <1>2, <2>2 DEF Suppress, Page
<1> HIDE DEF s
<1>4. c \in Page
  BY <1>2, <1>3, Finished, Patched
<1>5. /\ c.state = "DISCONNECTING" /\ c.connectReq = {} /\ c.pending = FALSE
      /\ c.disconnectReq = u.disconnectReq /\ c.socket = u.socket /\ c.out = u.out
      /\ c.statusReq = u.statusReq /\ c.poll = u.poll
  <2>1. Clear(s, c) /\ c.state = "DISCONNECTING" /\ c.out = s.out
    BY <1>2, <1>3, EndClears
  <2> HIDE DEF c
  <2> QED BY <1>3, <2>1 DEF Clear
<1> HIDE DEF c
<1>6. CASE c.socket # "open"
  <2>1. /\ x.state = back /\ x.connectReq = {} /\ x.socket = u.socket /\ x.out = u.out
    BY <1>2, <1>4, <1>5, Patched
  <2>2. x.state = "CONNECTED" => u.state = "CONNECTED"
    BY <2>1
  <2>3. u.state = "CONNECTED" => ~ab
    BY DEF Live, Link, Awaited
  <2> HIDE DEF x
  <2>4. Link(<<>>, x, ha, ab, TRUE)
    BY <1>5, <1>6, <2>1, <2>2, <2>3, LinkEmpty
  <2> QED BY <1>1, <1>5, <1>6, <2>1, <2>4 DEF CanSend
<1>7. CASE c.socket = "open"
  <2> DEFINE e == [kind |-> "disconnect", id |-> NewId(c)]
             w == b \o u.out
  <2>1. Finite(c) /\ inn \in Seq(Reply) /\ b \in Seq(Reply) /\ Range(b) \subseteq Range(inn)
    BY <1>5, FS_EmptySet DEF Live, Finite
  <2>2. /\ n \in Page /\ n.out = Append(c.out, e)
        /\ b \o n.out = Append(b \o c.out, e) /\ b \o c.out \in Seq(Item)
        /\ Unused(b \o c.out, c, e.id) /\ Kept(c, n) /\ n.state = c.state
    BY <1>4, <2>1, SendGives DEF Kinds
  <2> HIDE DEF n
  <2>3. /\ d.out = n.out /\ d.connectReq = n.connectReq /\ d.disconnectReq = n.disconnectReq \cup {NewId(c)}
        /\ d.statusReq = n.statusReq /\ d.socket = n.socket /\ d.pending = n.pending /\ d.state = n.state
        /\ d.poll = n.poll
    BY <2>2 DEF Page
  <2>4. Disconnect(u) = d
    BY <1>1, <1>7 DEF CanSend
  <2> HIDE DEF d
  <2>5. e.kind = "disconnect" /\ e.id = NewId(c)
    OBVIOUS
  <2> HIDE DEF e
  <2>6. w \in Seq(Item) /\ Link(w, u, ha, ab, rv)
    BY <1>5, <2>2 DEF Live
  <2>7. /\ Unused(w, c, e.id) /\ u.poll = c.poll
        /\ d.state # "CONNECTED" /\ d.pending = FALSE /\ d.connectReq = {}
        /\ d.disconnectReq = u.disconnectReq \cup {e.id} /\ d.poll = u.poll /\ d.statusReq = u.statusReq
        /\ d.socket = u.socket
    BY <1>5, <2>2, <2>3, <2>5 DEF Kept
  <2>8. b \o d.out = Append(w, e) /\ d.out = Append(u.out, e)
    BY <1>5, <2>2, <2>3
  <2>9. ~Stays(d)
    <3>1. u.out \in Seq(Frame)
      BY <1>2 DEF Page
    <3>2. LET k == Len(u.out) + 1 IN k \in DOMAIN d.out /\ d.out[k] = e
      BY <2>8, <3>1
    <3> QED BY <2>5, <3>2 DEF Stays
  <2> HIDE DEF w
  <2>10. Link(Append(w, e), d, ha, ab, TRUE)
    BY <2>5, <2>6, <2>7, LinkDisconnect
  <2> QED BY <2>4, <2>7, <2>8, <2>9, <2>10
<1> QED BY <1>6, <1>7

-----------------------------------------------------------------------------
(* Hearing.                                                                *)

\* m is heard by page u; what is left on the wire is b and what u has sent.
Arrives(m, b, u, ha, ab, rv) ==
  /\ Sound(u) /\ u.socket = "open" /\ (rv => u.manual)
  /\ m \in Reply /\ inn \in Seq(Reply) /\ b \in Seq(Reply) /\ Range(b) \subseteq Range(inn)
  /\ Link(<<m>> \o (b \o u.out), u, ha, ab, rv)

\* What the item that is heard tells of those behind it.
Forerun(m, t, u, ha, ab, rv) ==
  /\ Asking(m) => \A i \in DOMAIN t : ~Asking(t[i])
  /\ Asking(m) /\ ~ha => \A i \in DOMAIN t : Connecting(t[i]) => Left(t, i) \/ Undisturbed(t, u, i)
  /\ Asking(m) \/ m.id = u.poll => \A i \in DOMAIN t :
       Connecting(t[i]) /\ ~ha /\ ~ab => Left(t, i) \/ t[i].id \in u.connectReq
  /\ m.id = u.poll /\ u.statusReq = None => \A i \in DOMAIN t : ~Asking(t[i])
  /\ Attempt(m) /\ m.id \in u.connectReq => \A i \in DOMAIN t : ~Attempt(t[i])
  /\ Leaving(m) => m.id \in u.disconnectReq
  /\ Leaving(m) /\ ~ha => \A i \in DOMAIN t : ~Attempt(t[i])
  /\ \A i \in DOMAIN t : t[i].id # m.id
  /\ m.kind = "OK CONNECTED" /\ m.id \notin u.connectReq /\ u.state # "CONNECTED" /\ ~ha /\ ~ab =>
       \E k \in DOMAIN t : Leaving(t[k])

LEMMA Behind ==
  ASSUME NEW t \in Seq(Item), NEW m \in Item
  PROVE  LET w == <<m>> \o t
         IN /\ w \in Seq(Item) /\ w # <<>> /\ Tail(w) = t /\ 1 \in DOMAIN w /\ w[1] = m
            /\ \A i \in DOMAIN t : i + 1 \in DOMAIN w /\ t[i] = w[i + 1]
                                   /\ 1 < i + 1 /\ 1 # i + 1 /\ ~(i + 1 < 1) /\ ~(i + 1 <= 1)
            /\ \A i \in DOMAIN t : Left(w, i + 1) => Left(t, i)
            /\ Left(w, 1) => \E k \in DOMAIN t : Leaving(t[k])
<1> DEFINE w == <<m>> \o t
<1>1. w \in Seq(Item) /\ w # <<>> /\ 1 \in DOMAIN w /\ w[1] = m /\ DOMAIN w = 1 .. Len(t) + 1
  OBVIOUS
<1>2. Tail(w) = t
  OBVIOUS
<1>3. \A i \in DOMAIN t : i + 1 \in DOMAIN w /\ t[i] = w[i + 1]
                          /\ 1 < i + 1 /\ 1 # i + 1 /\ ~(i + 1 < 1) /\ ~(i + 1 <= 1)
  OBVIOUS
<1>4. \A k \in DOMAIN w : k > 1 => k - 1 \in DOMAIN t /\ t[k - 1] = w[k]
  OBVIOUS
<1>5. ASSUME NEW i \in DOMAIN t, Left(w, i + 1) PROVE Left(t, i)
  <2>1. PICK k \in DOMAIN w : k > i + 1 /\ Leaving(w[k])
    BY <1>5 DEF Left
  <2>2. k - 1 \in DOMAIN t /\ t[k - 1] = w[k] /\ k - 1 > i
    BY <1>1, <1>3, <1>4, <2>1
  <2> QED BY <2>1, <2>2 DEF Left
<1>6. ASSUME Left(w, 1) PROVE \E k \in DOMAIN t : Leaving(t[k])
  <2>1. PICK k \in DOMAIN w : k > 1 /\ Leaving(w[k])
    BY <1>6 DEF Left
  <2> QED BY <1>4, <2>1
<1> QED BY <1>1, <1>2, <1>3, <1>5, <1>6

LEMMA Foretold ==
  ASSUME NEW m, NEW b, NEW u, NEW ha, NEW ab, NEW rv, Arrives(m, b, u, ha, ab, rv)
  PROVE  LET t == b \o u.out
         IN /\ t \in Seq(Item) /\ Link(t, u, ha, ab, rv) /\ Forerun(m, t, u, ha, ab, rv)
            /\ u \in Page /\ Finite(u)
<1> DEFINE t == b \o u.out
           w == <<m>> \o t
<1>1. u \in Page /\ Finite(u) /\ Timed(u)
  BY DEF Arrives, Sound, Steady
<1>2. t \in Seq(Item) /\ m \in Item
  <2>1. u.out \in Seq(Frame)
    BY <1>1 DEF Page
  <2> QED BY <2>1, Joined DEF Arrives, Item
<1>3. Link(w, u, ha, ab, rv)
  BY DEF Arrives
<1> HIDE DEF t
<1>4. /\ w \in Seq(Item) /\ w # <<>> /\ Tail(w) = t /\ 1 \in DOMAIN w /\ w[1] = m
      /\ \A i \in DOMAIN t : i + 1 \in DOMAIN w /\ t[i] = w[i + 1]
                             /\ 1 < i + 1 /\ 1 # i + 1 /\ ~(i + 1 < 1) /\ ~(i + 1 <= 1)
      /\ \A i \in DOMAIN t : Left(w, i + 1) => Left(t, i)
      /\ Left(w, 1) => \E k \in DOMAIN t : Leaving(t[k])
  BY <1>2, Behind
<1> HIDE DEF w
<1>5. Link(t, u, ha, ab, rv)
  BY <1>3, <1>4, LinkTail
<1>6. \A i \in DOMAIN t : t[i].id # m.id
  BY <1>3, <1>4 DEF Link, Distinct
<1>7. /\ Attempt(m) /\ m.id \in u.connectReq => \A i \in DOMAIN t : ~Attempt(t[i])
  BY <1>3, <1>4 DEF Link, OneAttempt
<1>8. /\ Leaving(m) => m.id \in u.disconnectReq
      /\ Leaving(m) /\ ~ha => \A i \in DOMAIN t : ~Attempt(t[i])
  BY <1>3, <1>4 DEF Link, Departs
<1>9. /\ Asking(m) => \A i \in DOMAIN t : ~Asking(t[i])
      /\ m.id = u.poll /\ u.statusReq = None => \A i \in DOMAIN t : ~Asking(t[i])
  <2>1. ASSUME Asking(m), NEW i \in DOMAIN t, Asking(t[i]) PROVE FALSE
    BY <1>3, <1>4, <2>1 DEF Link, OneStatus
  <2>2. ASSUME m.id = u.poll, u.statusReq = None, NEW i \in DOMAIN t, Asking(t[i]) PROVE FALSE
    <3>1. t[i].id # None
      <4>1. t[i] \in Frame \/ t[i] \in Reply
        BY <1>2 DEF Item
      <4> QED BY <4>1 DEF Frame, Reply, Ids, None
    <3> QED BY <1>3, <1>4, <2>2, <3>1 DEF Link, OneStatus
  <2> QED BY <2>1, <2>2
<1>10. Asking(m) \/ m.id = u.poll => \A i \in DOMAIN t :
         Connecting(t[i]) /\ ~ha /\ ~ab => Left(t, i) \/ t[i].id \in u.connectReq
  <2> SUFFICES ASSUME Asking(m) \/ m.id = u.poll, NEW i \in DOMAIN t, Connecting(t[i]), ~ha, ~ab
               PROVE  Left(t, i) \/ t[i].id \in u.connectReq
    OBVIOUS
  <2>1. ~Undisturbed(w, u, i + 1)
    BY <1>4 DEF Undisturbed
  <2> QED BY <1>3, <1>4, <2>1 DEF Link, Awaited
<1>11. Asking(m) /\ ~ha => \A i \in DOMAIN t : Connecting(t[i]) => Left(t, i) \/ Undisturbed(t, u, i)
  <2> SUFFICES ASSUME Asking(m), ~ha, NEW i \in DOMAIN t, Connecting(t[i]), ~Undisturbed(t, u, i)
               PROVE  Left(t, i)
    OBVIOUS
  <2>1. CASE u.state = "CONNECTED"
    <3>1. ~ab /\ u.connectReq = {}
      BY <1>1, <1>3, <2>1 DEF Link, Awaited, OneAttempt, Timed
    <3> QED BY <1>10, <3>1
  <2>2. CASE u.state # "CONNECTED"
    <3>1. PICK j \in DOMAIN t : j < i /\ t[j].id = u.poll
      BY <1>9 DEF Undisturbed
    <3>2. Left(t, j)
      BY <1>3, <1>4, <2>2, <3>1 DEF Link, OneStatus
    <3>3. PICK k \in DOMAIN t : k > j /\ Leaving(t[k])
      BY <3>2 DEF Left
    <3>4. i < k
      BY <1>5, <3>3 DEF Link, Departs, Attempt
    <3>5. i \in Int /\ k \in Int
      BY <1>2
    <3> QED BY <3>3, <3>4, <3>5 DEF Left
  <2> QED BY <2>1, <2>2
<1>12. m.kind = "OK CONNECTED" /\ m.id \notin u.connectReq /\ u.state # "CONNECTED" /\ ~ha /\ ~ab =>
         \E k \in DOMAIN t : Leaving(t[k])
  BY <1>3, <1>4 DEF Link, Awaited, Connecting
<1>13. Forerun(m, t, u, ha, ab, rv)
  BY <1>6, <1>7, <1>8, <1>9, <1>10, <1>11, <1>12 DEF Forerun
<1> QED BY <1>1, <1>2, <1>5, <1>13 DEF t

\* What the wire is once page u has become v.
Took(b, v, ha, ab, rv) == Link(b \o v.out, v, ha, ab /\ v.state # "CONNECTED", rv)

\* Page v hopes when u does, but for what was heard.
Hopeful(u, v) ==
  /\ u.state = "CONNECTED" => v.state = "CONNECTED"
  /\ u.pending => v.pending
  /\ v.manual => u.manual

LEMMA LinkSettles ==
  ASSUME NEW w, NEW v, NEW ha, NEW ab, NEW rv, Link(w, v, ha, ab, rv)
  PROVE  Link(w, v, ha, ab /\ v.state # "CONNECTED", rv)
<1>1. Awaited(w, v, ha, ab /\ v.state # "CONNECTED")
  BY DEF Link, Awaited
<1> QED BY <1>1 DEF Link

LEMMA LinkSettled ==
  ASSUME NEW w, NEW v, NEW ha, NEW ab, NEW rv, Link(w, v, ha, FALSE, rv), v.state = "CONNECTED"
  PROVE  Link(w, v, ha, ab /\ v.state # "CONNECTED", rv)
<1>1. Awaited(w, v, ha, ab /\ v.state # "CONNECTED")
  BY DEF Link, Awaited
<1> QED BY <1>1 DEF Link

\* The answer to a status: no other is asked for.
LEMMA LinkAnswered ==
  ASSUME NEW w, NEW u, NEW v, NEW ha, NEW ab, NEW rv, Link(w, u, ha, ab, rv),
         \A i \in DOMAIN w : ~Asking(w[i]),
         v.connectReq = u.connectReq, v.disconnectReq = u.disconnectReq, v.poll = u.poll,
         v.socket = u.socket, v.pending = u.pending, v.state = u.state
  PROVE  Link(w, v, ha, ab, rv)
<1>1. OneAttempt(w, v)
  BY DEF Link, OneAttempt
<1>2. Departs(w, v, ha, rv)
  BY DEF Link, Departs
<1>3. OneStatus(w, v, ha)
  BY DEF OneStatus
<1>4. Awaited(w, v, ha, ab)
  BY DEF Link, Awaited, Undisturbed
<1> QED BY <1>1, <1>2, <1>3, <1>4 DEF Link

LEMMA ListTakes ==
  ASSUME NEW m, NEW b, NEW u, NEW ha, NEW ab, NEW rv, Arrives(m, b, u, ha, ab, rv)
  PROVE  LET v == HandleList(u, m) IN Took(b, v, ha, ab, rv) /\ Hopeful(u, v)
<1> DEFINE s == IF u.state = "UNKNOWN" THEN "DISCONNECTED" ELSE u.state
           v == [u EXCEPT !.listed = TRUE, !.stale = TRUE, !.autoTimer = AutoConnect, !.state = s]
<1>1. HandleList(u, m) = v
  BY DEF HandleList
<1>2. u \in Page /\ Link(b \o u.out, u, ha, ab, rv)
  BY Foretold
<1>3. (s = "CONNECTED") = (u.state = "CONNECTED")
  OBVIOUS
<1> HIDE DEF s
<1>4. /\ v.connectReq = u.connectReq /\ v.disconnectReq = u.disconnectReq
      /\ v.statusReq = u.statusReq /\ v.poll = u.poll
      /\ v.socket = u.socket /\ v.pending = u.pending /\ v.manual = u.manual
      /\ v.state = s /\ v.out = u.out
  BY <1>2 DEF Page
<1> HIDE DEF v
<1>5. Kept(u, v) /\ Hopeful(u, v)
  BY <1>3, <1>4 DEF Kept, Hopeful
<1>6. Link(b \o u.out, v, ha, ab, rv)
  BY <1>2, <1>5, LinkKept
<1> QED BY <1>1, <1>4, <1>5, <1>6, LinkSettles DEF Took

\* An identity request that follows.
LEMMA IdentityTakes ==
  ASSUME NEW b, NEW x, NEW ha, NEW ab, NEW rv, Took(b, x, ha, ab, rv), Sound(x),
         inn \in Seq(Reply), b \in Seq(Reply), Range(b) \subseteq Range(inn)
  PROVE  LET v == RequestIdentity(x) IN Took(b, v, ha, ab, rv) /\ Kept(x, v)
<1> DEFINE v == RequestIdentity(x)
           ac == ab /\ x.state # "CONNECTED"
<1>1. Live(b, x, ha, ac, rv)
  BY DEF Live, Took, Sound, Steady
<1> HIDE DEF ac
<1>2. Link(b \o v.out, v, ha, ac, rv) /\ Kept(x, v)
  BY <1>1, IdentityLinks
<1> HIDE DEF v
<1>3. Link(b \o v.out, v, ha, ac /\ v.state # "CONNECTED", rv)
  BY <1>2, LinkSettles
<1>4. (ac /\ v.state # "CONNECTED") = (ab /\ v.state # "CONNECTED")
  BY <1>2 DEF ac, Kept
<1> QED BY <1>2, <1>3, <1>4 DEF Took, v

LEMMA ConnectedTakes ==
  ASSUME NEW m, NEW b, NEW u, NEW ha, NEW ab, NEW rv, Arrives(m, b, u, ha, ab, rv), m.kind = "OK CONNECTED"
  PROVE  LET v == HandleConnected(u, m)
         IN /\ Took(b, v, ha, ab, rv)
            /\ v.state = "CONNECTED" \/ (m.id \notin u.connectReq /\ v = u)
<1> DEFINE x == Patch(Finish(u), "CONNECTED")
           t == b \o u.out
<1>1. /\ Link(t, u, ha, ab, rv) /\ Forerun(m, t, u, ha, ab, rv) /\ u \in Page
  BY Foretold
<1>2. CASE m.id \notin u.connectReq
  BY <1>1, <1>2, LinkSettles DEF HandleConnected, Took
<1>3. CASE m.id \in u.connectReq
  <2>1. HandleConnected(u, m) = RequestIdentity(x)
    BY <1>3 DEF HandleConnected
  <2>2. Clear(u, x) /\ x.state = "CONNECTED" /\ x.out = u.out
    BY <1>1, EndClears DEF States
  <2>3. Sound(x)
    BY EndHeard DEF Arrives, Heard
  <2> HIDE DEF x
  <2>4. ~rv
    BY <1>1, <1>3 DEF Arrives, Link, Departs
  <2>5. \A i \in DOMAIN t : ~Connecting(t[i])
    BY <1>1, <1>3 DEF Forerun, Attempt, Connecting
  <2>6. Link(t, x, ha, FALSE, rv)
    BY <1>1, <2>2, <2>4, <2>5, LinkOpened
  <2>7. Took(b, x, ha, ab, rv)
    BY <2>2, <2>6, LinkSettled DEF Took
  <2>8. LET v == RequestIdentity(x) IN Took(b, v, ha, ab, rv) /\ Kept(x, v)
    BY <2>3, <2>7, IdentityTakes DEF Arrives
  <2> QED BY <2>1, <2>2, <2>8 DEF Kept
<1> QED BY <1>2, <1>3

\* A disconnect is answered, or an error ends an attempt.
LEMMA EndTakes ==
  ASSUME NEW t, NEW b, NEW u, NEW R, NEW ha, NEW ab, NEW rv,
         t = b \o u.out, u \in Page, R \in SUBSET u.disconnectReq, Link(t, u, ha, ab, rv),
         \A i \in DOMAIN t : Leaving(t[i]) => t[i].id \in R,
         ~ha /\ ~ab => \A i \in DOMAIN t : Connecting(t[i]) => Left(t, i),
         ~ha => u.state # "CONNECTED"
  PROVE  LET v == Patch(Finish([u EXCEPT !.disconnectReq = R]), "DISCONNECTED") IN Took(b, v, ha, ab, rv)
<1> DEFINE c == [u EXCEPT !.disconnectReq = R]
           v == Patch(Finish(c), "DISCONNECTED")
<1>1. c \in Page
  <2>1. R \in SUBSET Ids
    BY DEF Page
  <2> QED BY <2>1 DEF Page
<1>2. c.disconnectReq = R /\ c.statusReq = u.statusReq /\ c.poll = u.poll /\ c.socket = u.socket /\ c.out = u.out
  BY DEF Page
<1> HIDE DEF c
<1>3. Clear(c, v) /\ v.state = "DISCONNECTED" /\ v.out = c.out
  BY <1>1, EndClears DEF States
<1> HIDE DEF v
<1>4. /\ v.state # "CONNECTED" /\ v.connectReq = {} /\ v.pending = FALSE
      /\ v.statusReq = u.statusReq /\ v.poll = u.poll /\ v.socket = u.socket /\ v.disconnectReq = R
  BY <1>2, <1>3 DEF Clear
<1>5. ~ha => \A i, j \in DOMAIN t : Asking(t[j]) /\ t[i].id = u.poll => Left(t, i)
  BY DEF Link, OneStatus
<1>6. Link(t, v, ha, ab, rv)
  BY <1>4, <1>5, LinkClosed
<1> QED BY <1>2, <1>3, <1>6, LinkSettles DEF Took, v, c

LEMMA DisconnectedTakes ==
  ASSUME NEW m, NEW b, NEW u, NEW ha, NEW ab, NEW rv, Arrives(m, b, u, ha, ab, rv), m.kind = "OK DISCONNECTED"
  PROVE  Took(b, HandleDisconnected(u, m), ha, ab, rv)
<1> DEFINE R == u.disconnectReq \ {m.id}
           v == Patch(Finish([u EXCEPT !.disconnectReq = R]), "DISCONNECTED")
           t == b \o u.out
<1>1. Leaving(m) /\ Link(t, u, ha, ab, rv) /\ Forerun(m, t, u, ha, ab, rv) /\ u \in Page
  BY Foretold DEF Leaving
<1>2. m.id \in u.disconnectReq
  BY <1>1 DEF Forerun
<1>3. HandleDisconnected(u, m) = v
  BY <1>2 DEF HandleDisconnected
<1>4. ~ha => u.state # "CONNECTED"
  BY <1>1, <1>2 DEF Link, Departs, Arrives
<1>5. \A i \in DOMAIN t : Leaving(t[i]) => t[i].id \in R
  BY <1>1 DEF Link, Departs, Forerun
<1>6. ~ha /\ ~ab => \A i \in DOMAIN t : Connecting(t[i]) => Left(t, i)
  BY <1>1 DEF Forerun, Attempt
<1> HIDE DEF R, t
<1>7. R \in SUBSET u.disconnectReq
  BY DEF R
<1>8. t = b \o u.out
  BY DEF t
<1>9. Took(b, v, ha, ab, rv)
  BY <1>1, <1>4, <1>5, <1>6, <1>7, <1>8, EndTakes
<1> QED BY <1>3, <1>9

LEMMA ErrorTakes ==
  ASSUME NEW m, NEW b, NEW u, NEW ha, NEW ab, NEW rv, Arrives(m, b, u, ha, ab, rv), m.kind = "ERR"
  PROVE  Took(b, HandleError(u, m), ha, ab, rv)
<1> DEFINE R == IF m.id \in u.connectReq THEN u.disconnectReq ELSE u.disconnectReq \ {m.id}
           v == Patch(Finish([u EXCEPT !.disconnectReq = R]), "DISCONNECTED")
           t == b \o u.out
<1>1. Attempt(m) /\ Link(t, u, ha, ab, rv) /\ Forerun(m, t, u, ha, ab, rv) /\ u \in Page
  BY Foretold DEF Attempt
<1>2. CASE m.id \notin u.disconnectReq \cup u.connectReq
  BY <1>1, <1>2, LinkSettles DEF HandleError, Took
<1>3. CASE m.id \in u.disconnectReq \cup u.connectReq
  <2>1. HandleError(u, m) = v
    BY <1>3 DEF HandleError, Failed
  <2>2. \A i \in DOMAIN t : Leaving(t[i]) => t[i].id \in R
    BY <1>1 DEF Link, Departs, Forerun
  <2>3. m.id \in u.connectReq => u.state # "CONNECTED"
    BY <1>1 DEF Link, OneAttempt, Arrives, Sound, Timed
  <2>4. ~ha /\ m.id \notin u.connectReq => u.state # "CONNECTED" /\ u.connectReq = {}
    BY <1>1, <1>3 DEF Link, Departs, Arrives
  <2>5. ASSUME ~ha, ~ab, NEW i \in DOMAIN t, Connecting(t[i]) PROVE Left(t, i)
    <3>1. CASE m.id \in u.connectReq
      BY <1>1, <2>5, <3>1 DEF Forerun, Attempt
    <3>2. CASE m.id \notin u.connectReq
      BY <1>1, <2>4, <2>5, <3>2 DEF Link, Awaited
    <3> QED BY <3>1, <3>2
  <2> HIDE DEF R, t
  <2>6. R \in SUBSET u.disconnectReq
    BY DEF R
  <2>7. t = b \o u.out
    BY DEF t
  <2>8. Took(b, v, ha, ab, rv)
    BY <1>1, <2>2, <2>3, <2>4, <2>5, <2>6, <2>7, EndTakes
  <2> QED BY <2>1, <2>8
<1> QED BY <1>2, <1>3

LEMMA StatusTakes ==
  ASSUME NEW m, NEW b, NEW u, NEW ha, NEW ab, NEW rv, Arrives(m, b, u, ha, ab, rv), m.kind \in {"UP", "DOWN"}
  PROVE  LET v == HandleStatus(u, m)
         IN /\ Took(b, v, ha, ab, rv)
            /\ \/ v.state = "CONNECTED" \/ (u.manual /\ Hopeful(u, v))
               \/ m.kind = "DOWN"
<1> DEFINE r == IF u.statusReq = m.id THEN None ELSE u.statusReq
           c == [u EXCEPT !.statusReq = r]
           up == m.kind = "UP"
           x == ApplyStatus(c, up)
           t == b \o u.out
<1>1. Asking(m) /\ Link(t, u, ha, ab, rv) /\ Forerun(m, t, u, ha, ab, rv) /\ u \in Page
  BY Foretold DEF Asking
<1>2. HandleStatus(u, m) = IF up THEN RequestIdentity(x) ELSE x
  <2>1. c = [u EXCEPT !.statusReq = IF @ = m.id THEN None ELSE @]
    OBVIOUS
  <2> QED BY <2>1 DEF HandleStatus
<1>3. r \in Ids \cup {None} /\ up \in BOOLEAN
  BY <1>1 DEF Page, None
<1> HIDE DEF r, up
<1>4. Sound(c) /\ Alike(u, c) /\ c.out = u.out
  BY <1>3, Aside DEF Arrives
<1>5. c.poll = u.poll
  BY <1>1 DEF Page
<1> HIDE DEF c
<1>6. Link(t, c, ha, ab, rv)
  <2>1. \A i \in DOMAIN t : ~Asking(t[i])
    BY <1>1 DEF Forerun
  <2>2. /\ c.connectReq = u.connectReq /\ c.disconnectReq = u.disconnectReq
        /\ c.socket = u.socket /\ c.pending = u.pending /\ c.state = u.state
    BY <1>4 DEF Alike
  <2> QED BY <1>1, <1>5, <2>1, <2>2, LinkAnswered
<1>7. c \in Page
  BY <1>4 DEF Sound, Steady
<1>8. Took(b, x, ha, ab, rv) /\ (x.state = "CONNECTED" \/ (u.manual /\ Hopeful(u, x)) \/ ~up) /\ Sound(x)
  <2>1. CASE up /\ c.manual
    <3>1. x = c
      BY <2>1 DEF ApplyStatus
    <3> HIDE DEF x
    <3>2. u.manual /\ Hopeful(u, x)
      BY <1>4, <2>1, <3>1 DEF Hopeful, Alike
    <3>3. Took(b, x, ha, ab, rv)
      BY <1>4, <1>6, <3>1, LinkSettles DEF Took
    <3> QED BY <1>4, <3>1, <3>2, <3>3
  <2>2. CASE ~up /\ c.pending
    <3>1. x = Patch(c, "CONNECTING")
      BY <2>2 DEF ApplyStatus
    <3>2. "CONNECTING" \in States /\ c.state = "CONNECTING" /\ c.pending = c.timer /\ c.pending = TRUE
      BY <1>4, <1>7, <2>2 DEF States, Sound, Timed, Page
    <3>3. Sound(Patch(c, "CONNECTING"))
      BY <1>4, <3>2, Repatched DEF Sound
    <3>4. LET p == Patch(c, "CONNECTING")
          IN /\ p.connectReq = c.connectReq /\ p.disconnectReq = c.disconnectReq
             /\ p.statusReq = c.statusReq /\ p.poll = c.poll
             /\ p.socket = c.socket /\ p.pending = c.pending /\ p.manual = c.manual /\ p.out = c.out
             /\ p.state = "CONNECTING"
      BY <1>7, <3>2, Patched, PatchKeeps
    <3> HIDE DEF x
    <3>5. Kept(c, x) /\ x.out = u.out
      BY <1>4, <3>1, <3>2, <3>4 DEF Kept
    <3>6. Link(t, x, ha, ab, rv)
      BY <1>6, <3>5, LinkKept
    <3>7. Took(b, x, ha, ab, rv)
      BY <3>5, <3>6, LinkSettles DEF Took
    <3> QED BY <2>2, <3>1, <3>3, <3>7
  <2>3. CASE up /\ ~c.manual
    <3>1. x = Patch(Finish(c), "CONNECTED")
      BY <2>3 DEF ApplyStatus
    <3>2. LET p == Patch(Finish(c), "CONNECTED")
          IN Clear(c, p) /\ p.state = "CONNECTED" /\ p.out = c.out
      BY <1>7, EndClears DEF States
    <3>3. Sound(Patch(Finish(c), "CONNECTED"))
      BY <1>4, EndHeard DEF Heard
    <3> HIDE DEF x
    <3>4. Clear(c, x) /\ x.state = "CONNECTED" /\ x.out = u.out
      BY <1>4, <3>1, <3>2
    <3>5. ~rv
      BY <1>4, <2>3 DEF Arrives, Alike
    <3>6. ~ha => \A i \in DOMAIN t : Connecting(t[i]) => Left(t, i) \/ Undisturbed(t, c, i)
      BY <1>1, <1>5 DEF Forerun, Undisturbed
    <3>7. Link(t, x, ha, FALSE, rv)
      BY <1>6, <3>4, <3>5, <3>6, LinkOpened
    <3>8. Took(b, x, ha, ab, rv)
      BY <3>4, <3>7, LinkSettled DEF Took
    <3> QED BY <3>1, <3>3, <3>4, <3>8
  <2>4. CASE ~up /\ ~c.pending
    <3>1. x = Patch(Finish(c), "DISCONNECTED")
      BY <2>4 DEF ApplyStatus
    <3>2. LET p == Patch(Finish(c), "DISCONNECTED")
          IN Clear(c, p) /\ p.state = "DISCONNECTED" /\ p.out = c.out
      BY <1>7, EndClears DEF States
    <3>3. Sound(Patch(Finish(c), "DISCONNECTED"))
      BY <1>4, EndHeard DEF Heard
    <3> HIDE DEF x
    <3>4. /\ x.state # "CONNECTED" /\ x.connectReq = {} /\ x.pending = FALSE
          /\ x.statusReq = c.statusReq /\ x.poll = c.poll /\ x.socket = c.socket
          /\ x.disconnectReq = c.disconnectReq /\ x.out = u.out
      BY <1>4, <3>1, <3>2 DEF Clear
    <3>5. ~ha /\ ~ab => \A i \in DOMAIN t : Connecting(t[i]) => Left(t, i)
      <4>1. u.connectReq = {}
        BY <1>4, <1>6, <2>4 DEF Alike, Link, OneAttempt
      <4> QED BY <1>1, <4>1 DEF Forerun
    <3>6. \A i \in DOMAIN t : Leaving(t[i]) => t[i].id \in x.disconnectReq
      BY <1>6, <3>4 DEF Link, Departs
    <3>7. \A i \in DOMAIN t : ~Asking(t[i])
      BY <1>1 DEF Forerun
    <3> HIDE DEF t
    <3>8. Link(t, x, ha, ab, rv)
      BY <1>6, <3>4, <3>5, <3>6, <3>7, LinkClosed
    <3>9. Took(b, x, ha, ab, rv)
      BY <3>4, <3>8, LinkSettles DEF Took, t
    <3> QED BY <2>4, <3>1, <3>3, <3>9
  <2> QED BY <1>3, <2>1, <2>2, <2>3, <2>4
<1> HIDE DEF x
<1>9. LET v == RequestIdentity(x) IN Took(b, v, ha, ab, rv) /\ Kept(x, v)
  BY <1>8, IdentityTakes DEF Arrives
<1>10. m.kind = "DOWN" <=> ~up
  BY DEF up
<1>11. CASE ~up
  BY <1>2, <1>8, <1>10, <1>11
<1>12. CASE up
  <2> DEFINE v == RequestIdentity(x)
  <2>1. Took(b, v, ha, ab, rv) /\ Kept(x, v)
    BY <1>9
  <2>2. HandleStatus(u, m) = v
    BY <1>2, <1>12
  <2> HIDE DEF v
  <2>3. v.state = "CONNECTED" \/ (u.manual /\ Hopeful(u, v))
    BY <1>8, <1>12, <2>1 DEF Kept, Hopeful
  <2> QED BY <2>1, <2>2, <2>3
<1> QED BY <1>11, <1>12

LEMMA CheckTakes ==
  ASSUME NEW t, NEW b, NEW c, NEW lost \in BOOLEAN, NEW ha, NEW ab, NEW rv,
         Sound(c), inn \in Seq(Reply), b \in Seq(Reply), Range(b) \subseteq Range(inn), c.socket = "open",
         t = b \o c.out, Link(t, c, ha, ab, rv), c.poll = None,
         c.statusReq = None => \A i \in DOMAIN t : ~Asking(t[i]),
         lost /\ c.state = "CONNECTED" /\ ~ha /\ ~ab => \A i \in DOMAIN t : Connecting(t[i]) => Left(t, i)
  PROVE  LET v == CheckAfterError(c, lost) IN Took(b, v, ha, ab, rv) /\ (~lost => Hopeful(c, v))
<1> DEFINE n == Send(c, "status")
           d == [n EXCEPT !.statusReq = NewId(c)]
           p == Patch(c, "DISCONNECTED")
<1>0. c \in Page /\ Finite(c) /\ t \in Seq(Item)
  BY Joined DEF Sound, Steady, Page
<1>1. \A i \in DOMAIN t : t[i].id # None
  <2> SUFFICES ASSUME NEW i \in DOMAIN t PROVE t[i].id # None
    OBVIOUS
  <2>1. t[i] \in Frame \/ t[i] \in Reply
    BY <1>0 DEF Item
  <2> QED BY <2>1 DEF Frame, Reply, Ids, None
<1>2. CASE CheckAfterError(c, lost) = c
  BY <1>2, LinkSettles DEF Took, Hopeful
<1>3. CASE lost /\ c.state = "CONNECTED" /\ CheckAfterError(c, lost) = p
  <2>1. /\ p.state = "DISCONNECTED" /\ p.statusReq = c.statusReq /\ p.poll = c.poll
        /\ p.pending = c.pending /\ p.connectReq = c.connectReq /\ p.disconnectReq = c.disconnectReq
        /\ p.socket = c.socket /\ p.out = c.out
    BY <1>0, PatchKeeps, Patched, ZenonT(60) DEF States
  <2> HIDE DEF p
  <2>2. c.pending = FALSE
    BY <1>0, <1>3 DEF Sound, Timed, Page
  <2>3. c.connectReq = {}
    BY <2>2 DEF Link, OneAttempt
  <2>4. \A i \in DOMAIN t : Leaving(t[i]) => t[i].id \in p.disconnectReq
    BY <2>1 DEF Link, Departs
  <2>5. Link(t, p, ha, ab, rv)
    BY <1>1, <1>3, <2>1, <2>2, <2>3, <2>4, LinkClosed
  <2> QED BY <1>3, <2>1, <2>5, LinkSettles DEF Took
<1>4. CASE ~lost /\ c.statusReq = None /\ CheckAfterError(c, lost) = d
  <2> DEFINE e == [kind |-> "status", id |-> NewId(c)]
  <2>1. /\ n \in Page /\ b \o n.out = Append(t, e) /\ Unused(t, c, e.id) /\ Kept(c, n) /\ n.state = c.state
    BY <1>0, SendGives DEF Kinds
  <2> HIDE DEF n
  <2>2. /\ d.out = n.out /\ d.connectReq = n.connectReq /\ d.disconnectReq = n.disconnectReq
        /\ d.socket = n.socket /\ d.pending = n.pending /\ d.state = n.state
        /\ d.poll = n.poll /\ d.manual = n.manual
    BY <2>1 DEF Page
  <2> HIDE DEF d
  <2>3. e.kind = "status"
    OBVIOUS
  <2> HIDE DEF e
  <2>4. /\ d.connectReq = c.connectReq /\ d.disconnectReq = c.disconnectReq /\ d.poll = c.poll
        /\ d.socket = c.socket /\ d.pending = c.pending /\ d.state = c.state /\ d.manual = c.manual
    BY <2>1, <2>2 DEF Kept
  <2>5. \A i \in DOMAIN t : ~Asking(t[i]) /\ t[i].id # c.poll
    BY <1>1, <1>4
  <2>6. Link(Append(t, e), d, ha, ab, rv)
    BY <1>0, <2>1, <2>3, <2>4, <2>5, LinkStatus
  <2>7. Hopeful(c, d)
    BY <2>4 DEF Hopeful
  <2> QED BY <1>4, <2>1, <2>2, <2>6, <2>7, LinkSettles DEF Took
<1> QED BY <1>2, <1>3, <1>4 DEF CheckAfterError

LEMMA DataTakes ==
  ASSUME NEW m, NEW b, NEW u, NEW ha, NEW ab, NEW rv, Arrives(m, b, u, ha, ab, rv)
  PROVE  LET v == HandleData(u, m)
         IN /\ Took(b, v, ha, ab, rv) /\ (m.kind # "LOST" => Hopeful(u, v))
<1> DEFINE c == [u EXCEPT !.poll = None]
           g == m.kind = "VALUE"
           lost == m.kind = "LOST"
           v == [u EXCEPT !.idnReq = None, !.identity = g, !.stale = TRUE]
           t == b \o u.out
<1>1. t \in Seq(Item) /\ Link(t, u, ha, ab, rv) /\ Forerun(m, t, u, ha, ab, rv) /\ u \in Page /\ Sound(u)
  BY Foretold DEF Arrives
<1>2. lost \in BOOLEAN
  OBVIOUS
<1>3. \/ m.id = u.poll /\ HandleData(u, m) = c
      \/ m.id = u.poll /\ HandleData(u, m) = CheckAfterError(c, lost)
      \/ HandleData(u, m) = v \/ HandleData(u, m) = u
  BY DEF HandleData
<1> HIDE DEF g, lost
<1>4. Sound(c) /\ Alike(u, c) /\ c.out = u.out
  BY <1>1, Aside DEF None
<1>5. /\ c.poll = None /\ c.statusReq = u.statusReq
  BY <1>1 DEF Page
<1> HIDE DEF c
<1>6. /\ c.connectReq = u.connectReq /\ c.disconnectReq = u.disconnectReq /\ c.manual = u.manual
      /\ c.socket = u.socket /\ c.pending = u.pending /\ c.state = u.state
  BY <1>4 DEF Alike
<1>7. Link(t, c, ha, ab, rv) /\ Hopeful(u, c)
  BY <1>1, <1>5, <1>6, LinkForgets DEF Hopeful
<1>8. CASE HandleData(u, m) = c
  BY <1>4, <1>7, <1>8, LinkSettles DEF Took
<1>9. CASE m.id = u.poll /\ HandleData(u, m) = CheckAfterError(c, lost)
  <2>1. c.statusReq = None => \A i \in DOMAIN t : ~Asking(t[i])
    BY <1>1, <1>5, <1>9 DEF Forerun
  <2>2. lost /\ c.state = "CONNECTED" /\ ~ha /\ ~ab => \A i \in DOMAIN t : Connecting(t[i]) => Left(t, i)
    <3>1. c.state = "CONNECTED" => u.connectReq = {}
      BY <1>1, <1>6 DEF Sound, Timed, Link, OneAttempt
    <3> QED BY <1>1, <1>9, <3>1 DEF Forerun
  <2>3. t = b \o c.out /\ c.socket = "open"
    BY <1>4, <1>6 DEF Arrives
  <2> HIDE DEF t
  <2> DEFINE x == CheckAfterError(c, lost)
  <2>4. Took(b, x, ha, ab, rv) /\ (~lost => Hopeful(c, x))
    BY <1>2, <1>4, <1>5, <1>7, <2>1, <2>2, <2>3, CheckTakes DEF Arrives
  <2> HIDE DEF x
  <2>5. m.kind # "LOST" => Hopeful(u, x)
    BY <1>7, <2>4 DEF Hopeful, lost
  <2>6. HandleData(u, m) = x
    BY <1>9 DEF x
  <2> QED BY <2>4, <2>5, <2>6
<1>10. CASE HandleData(u, m) = v
  <2>1. Kept(u, v) /\ v.out = u.out
    BY <1>1 DEF Kept, Page
  <2> HIDE DEF v
  <2>2. Link(t, v, ha, ab, rv)
    BY <1>1, <2>1, LinkKept
  <2> QED BY <1>10, <2>1, <2>2, LinkSettles DEF Took, Hopeful, Kept
<1>11. CASE HandleData(u, m) = u
  BY <1>1, <1>11, LinkSettles DEF Took, Hopeful
<1> QED BY <1>3, <1>8, <1>9, <1>10, <1>11

\* What goes over the wire still does when the page has sent more.
LEMMA Extends ==
  ASSUME NEW b \in Seq(Reply), NEW u \in Page, NEW v \in Page, NEW kinds, Sends(u, v, kinds)
  PROVE  /\ \A i \in DOMAIN (b \o u.out) : i \in DOMAIN (b \o v.out) /\ (b \o v.out)[i] = (b \o u.out)[i]
         /\ Stays(v) => Stays(u)
<1>1. u.out \in Seq(Frame) /\ v.out \in Seq(Frame)
  BY DEF Page
<1>2. CASE v.out = u.out
  BY <1>2 DEF Stays
<1>3. ASSUME NEW e, v.out = Append(u.out, e)
      PROVE  /\ \A i \in DOMAIN (b \o u.out) : i \in DOMAIN (b \o v.out) /\ (b \o v.out)[i] = (b \o u.out)[i]
             /\ \A i \in DOMAIN u.out : i \in DOMAIN v.out /\ v.out[i] = u.out[i]
  BY <1>1, <1>3, SMTT(30)
<1> QED BY <1>2, <1>3 DEF Sends, Stays

\* An answer that is not yet heard.
LEMMA Unheard ==
  ASSUME NEW b \in Seq(Reply), NEW o \in Seq(Frame)
  PROVE  /\ \A j \in DOMAIN b : j \in DOMAIN (b \o o) /\ (b \o o)[j] = b[j]
         /\ \A k \in DOMAIN (b \o o) : Leaving((b \o o)[k]) =>
              \/ k \in DOMAIN b /\ b[k].kind = "OK DISCONNECTED"
              \/ \E i \in DOMAIN o : o[i].kind = "disconnect"
<1>1. \A j \in DOMAIN b : j \in DOMAIN (b \o o) /\ (b \o o)[j] = b[j]
  OBVIOUS
<1>2. \A k \in DOMAIN (b \o o) :
        \/ k \in DOMAIN b /\ (b \o o)[k] = b[k] /\ b[k] \in Reply
        \/ k - Len(b) \in DOMAIN o /\ (b \o o)[k] = o[k - Len(b)] /\ o[k - Len(b)] \in Frame
  OBVIOUS
<1>3. ASSUME NEW k \in DOMAIN (b \o o), Leaving((b \o o)[k])
      PROVE  \/ k \in DOMAIN b /\ b[k].kind = "OK DISCONNECTED"
             \/ \E i \in DOMAIN o : o[i].kind = "disconnect"
  <2>1. CASE k \in DOMAIN b /\ (b \o o)[k] = b[k] /\ b[k] \in Reply
    BY <1>3, <2>1 DEF Leaving, Reply
  <2>2. CASE k - Len(b) \in DOMAIN o /\ (b \o o)[k] = o[k - Len(b)] /\ o[k - Len(b)] \in Frame
    BY <1>3, <2>2 DEF Leaving, Frame
  <2> QED BY <1>2, <2>1, <2>2
<1> QED BY <1>1, <1>3

\* What remains to be heard after a loss that was told.
LEMMA ToldBehind ==
  ASSUME NEW m \in Reply, NEW b \in Seq(Reply), NEW c, Told(<<m>> \o b, c)
  PROVE  /\ Told(b, c)
         /\ c /\ m.kind \in Losses => \E j \in DOMAIN b : b[j].kind = "OK CONNECTED"
<1> DEFINE q == <<m>> \o b
<1>1. /\ 1 \in DOMAIN q /\ q[1] = m
      /\ \A i \in DOMAIN b : i + 1 \in DOMAIN q /\ q[i + 1] = b[i]
      /\ \A j \in DOMAIN q : j > 1 => j - 1 \in DOMAIN b /\ b[j - 1] = q[j]
      /\ \A i \in DOMAIN b, j \in DOMAIN q : j > i + 1 => j > 1 /\ j - 1 > i
  OBVIOUS
<1> HIDE DEF q
<1>2. Told(b, c)
  <2> SUFFICES ASSUME c, NEW i \in DOMAIN b, b[i].kind \in Losses
               PROVE  \E j \in DOMAIN b : j > i /\ b[j].kind = "OK CONNECTED"
    BY DEF Told
  <2>1. PICK j \in DOMAIN q : j > i + 1 /\ q[j].kind = "OK CONNECTED"
    BY <1>1 DEF Told, q
  <2> QED BY <1>1, <2>1
<1>3. ASSUME c, m.kind \in Losses PROVE \E j \in DOMAIN b : b[j].kind = "OK CONNECTED"
  <2>1. PICK j \in DOMAIN q : j > 1 /\ q[j].kind = "OK CONNECTED"
    BY <1>1, <1>3 DEF Told, q
  <2> QED BY <1>1, <2>1
<1> QED BY <1>2, <1>3

LEMMA HandleTakes ==
  ASSUME NEW m, NEW b, NEW u, NEW ha, NEW ab, NEW rv, Arrives(m, b, u, ha, ab, rv)
  PROVE  LET v == Handle(u, m)
         IN /\ Took(b, v, ha, ab, rv)
            /\ \/ v.state = "CONNECTED" \/ m.kind \in Losses
               \/ Hopeful(u, v) /\ ~Connecting(m) /\ (~Asking(m) \/ u.manual)
               \/ m.kind = "OK CONNECTED" /\ m.id \notin u.connectReq /\ v = u
<1>1. CASE m.kind = "list"
  BY <1>1, ListTakes DEF Handle, Connecting, Asking
<1>2. CASE m.kind \in {"UP", "DOWN"}
  BY <1>2, StatusTakes DEF Handle, Connecting, Losses
<1>3. CASE m.kind = "OK CONNECTED"
  BY <1>3, ConnectedTakes DEF Handle
<1>4. CASE m.kind = "OK DISCONNECTED"
  BY <1>4, DisconnectedTakes DEF Handle, Losses
<1>5. CASE m.kind = "ERR"
  BY <1>5, ErrorTakes DEF Handle, Losses
<1>6. CASE m.kind \in {"VALUE", "LOST", "TIMEOUT"}
  <2>1. Handle(u, m) = HandleData(u, m)
    BY <1>6 DEF Handle
  <2>2. ~Connecting(m) /\ ~Asking(m)
    BY <1>6 DEF Connecting, Asking
  <2> QED BY <2>1, <2>2, DataTakes DEF Losses
<1>7. m.kind \in {"list", "OK CONNECTED", "OK DISCONNECTED", "ERR", "UP", "DOWN", "VALUE", "LOST", "TIMEOUT"}
  BY DEF Arrives, Reply
<1> QED BY <1>1, <1>2, <1>3, <1>4, <1>5, <1>6, <1>7

\* A page that knows of its transport does so after what it hears.
LEMMA HandleKnows ==
  ASSUME NEW m, NEW b, NEW u, NEW ha, NEW ab, NEW rv, NEW c, Arrives(m, b, u, ha, ab, rv),
         Told(<<m>> \o b, c), Known(<<m>> \o (b \o u.out), u, c, ha, ab)
  PROVE  LET v == Handle(u, m)
         IN Known(b \o v.out, v, c, ha, ab /\ v.state # "CONNECTED") /\ v.socket = "open"
<1> DEFINE v == Handle(u, m)
           t == b \o u.out
           x == b \o v.out
           w == <<m>> \o t
<1>1. Sound(v) /\ v.socket = "open" /\ Sends(u, v, Follows)
  <2>1. CASE m.kind = "list"
    <3>1. Handle(u, m) = HandleList(u, m)
      BY <2>1 DEF Handle
    <3> QED BY <3>1, ListSound, ZenonT(60) DEF Arrives, Sends
  <2>2. CASE m.kind # "list"
    BY <2>2, Handled DEF Arrives, Heard, Minds, Placed
  <2> QED BY <2>1, <2>2
<1>2. \/ v.state = "CONNECTED" \/ m.kind \in Losses
      \/ Hopeful(u, v) /\ ~Connecting(m) /\ (~Asking(m) \/ u.manual)
      \/ m.kind = "OK CONNECTED" /\ m.id \notin u.connectReq /\ v = u
  BY HandleTakes
<1> HIDE DEF v
<1>3. u \in Page /\ v \in Page /\ t \in Seq(Item) /\ Forerun(m, t, u, ha, ab, rv)
  BY <1>1, Foretold DEF Sound, Steady
<1>4. u.out \in Seq(Frame) /\ v.out \in Seq(Frame) /\ b \in Seq(Reply) /\ m \in Reply
  BY <1>3 DEF Page, Arrives
<1>5. /\ \A i \in DOMAIN t : i \in DOMAIN x /\ x[i] = t[i]
      /\ Stays(v) => Stays(u)
  BY <1>1, <1>3, <1>4, Extends
<1>6. /\ \A j \in DOMAIN b : j \in DOMAIN x /\ x[j] = b[j]
      /\ \A k \in DOMAIN t : Leaving(t[k]) =>
              \/ k \in DOMAIN b /\ b[k].kind = "OK DISCONNECTED"
              \/ \E i \in DOMAIN u.out : u.out[i].kind = "disconnect"
  BY <1>4, Unheard
<1>7. /\ Told(b, c)
      /\ c /\ m.kind \in Losses => \E j \in DOMAIN b : b[j].kind = "OK CONNECTED"
  BY <1>4, ToldBehind
<1>8. /\ w \in Seq(Item) /\ w[1] = m
      /\ \A i \in DOMAIN w : i = 1 \/ (i - 1 \in DOMAIN t /\ t[i - 1] = w[i])
  <2>1. m \in Item
    BY <1>4 DEF Item
  <2> HIDE DEF t
  <2> QED BY <1>3, <2>1
<1> HIDE DEF t, w, x
<1> SUFFICES ASSUME c, ~ha, ~(ab /\ v.state # "CONNECTED"), Stays(v) PROVE Hope(x, v)
  BY <1>1 DEF Known, v, x
<1>9. CASE v.state = "CONNECTED"
  BY <1>9 DEF Hope
<1>10. CASE m.kind \in Losses
  BY <1>6, <1>7, <1>10 DEF Hope, Connecting
<1>11. CASE ~ab /\ Hopeful(u, v) /\ ~Connecting(m) /\ (~Asking(m) \/ u.manual)
  <2>1. Hope(w, u)
    BY <1>5, <1>11 DEF Known, Arrives, w, t
  <2>2. CASE u.state = "CONNECTED" \/ u.pending
    BY <1>11, <2>2 DEF Hopeful, Hope
  <2>3. CASE ~u.manual /\ \E i \in DOMAIN w : Asking(w[i])
    <3>1. PICK i \in DOMAIN w : Asking(w[i])
      BY <2>3
    <3>2. \E k \in DOMAIN x : Asking(x[k])
      BY <1>5, <1>8, <1>11, <2>3, <3>1
    <3>3. ~v.manual
      BY <1>11, <2>3 DEF Hopeful
    <3> QED BY <3>2, <3>3 DEF Hope
  <2>4. CASE \E i \in DOMAIN w : Connecting(w[i])
    <3>1. PICK i \in DOMAIN w : Connecting(w[i])
      BY <2>4
    <3>2. \E k \in DOMAIN x : Connecting(x[k])
      BY <1>5, <1>8, <1>11, <3>1
    <3> QED BY <3>2 DEF Hope
  <2> QED BY <2>1, <2>2, <2>3, <2>4 DEF Hope
<1>12. CASE ~ab /\ m.kind = "OK CONNECTED" /\ m.id \notin u.connectReq /\ v = u /\ v.state # "CONNECTED"
  <2>1. PICK k \in DOMAIN t : Leaving(t[k])
    BY <1>3, <1>12 DEF Forerun
  <2>2. k \in DOMAIN b /\ b[k].kind = "OK DISCONNECTED"
    BY <1>5, <1>6, <2>1 DEF Stays
  <2>3. PICK j \in DOMAIN b : b[j].kind = "OK CONNECTED"
    BY <1>7, <2>2 DEF Told, Losses
  <2> QED BY <1>6, <2>3 DEF Hope, Connecting
<1> QED BY <1>2, <1>9, <1>10, <1>11, <1>12

-----------------------------------------------------------------------------
(* Steps of the page.                                                      *)

LEMMA LiveKept ==
  ASSUME NEW b, NEW u, NEW v \in Page, NEW ha, NEW ab, NEW rv,
         Live(b, u, ha, ab, rv), Kept(u, v), v.out = u.out
  PROVE  Live(b, v, ha, ab, rv)
<1>1. Link(b \o v.out, v, ha, ab, rv)
  BY LinkKept DEF Live
<1>2. Finite(v)
  BY DEF Live, Finite, Kept
<1> QED BY <1>1, <1>2 DEF Live

LEMMA Wired ==
  ASSUME IInv, KnownInv
  PROVE  /\ Live(inn, ui, hasty, abandoned, revoked)
         /\ Sound(ui) /\ ui \in Page /\ inn \in Seq(Reply) /\ ui.out \in Seq(Frame)
         /\ ui.socket # "open" => inn = <<>> /\ ui.out = <<>> /\ inn \o ui.out = <<>>
         /\ ui.socket = "closed" => ~ui.listed /\ ~ui.manual
         /\ revoked => ui.manual /\ ~ui.eligible /\ ~ui.autoTimer
         /\ ~hasty /\ ui.disconnectReq # {} => revoked
         /\ Told(inn, connected) /\ Known(inn \o ui.out, ui, connected, hasty, abandoned)
<1>1. ui \in Page /\ inn \in Seq(Reply) /\ Sound(ui) /\ Listing /\ Revoked
  BY DEF IInv, TypeOK
<1>2. Link(inn \o ui.out, ui, hasty, abandoned, revoked)
  BY DEF KnownInv, Wire
<1>3. ui.out \in Seq(Frame)
  BY <1>1 DEF Page
<1>4. Live(inn, ui, hasty, abandoned, revoked)
  BY <1>1, <1>2 DEF Live, Sound, Steady
<1>5. ui.socket # "open" => inn = <<>> /\ ui.out = <<>>
  BY <1>1 DEF Listing
<1>6. inn = <<>> /\ ui.out = <<>> => inn \o ui.out = <<>>
  BY <1>3
<1>7. /\ ui.socket = "closed" => ~ui.listed /\ ~ui.manual
      /\ revoked => ui.manual /\ ~ui.eligible /\ ~ui.autoTimer
  BY <1>1 DEF Listing, Revoked, KnownInv
<1>8. ~hasty /\ ui.disconnectReq # {} => revoked
  BY <1>2 DEF Link, Departs
<1>9. Told(inn, connected) /\ Known(inn \o ui.out, ui, connected, hasty, abandoned)
  BY DEF KnownInv, Wire
<1> QED BY <1>1, <1>3, <1>4, <1>5, <1>6, <1>7, <1>8, <1>9

\* The page goes on hoping, or has asked to connect.
LEMMA PageKnows ==
  ASSUME IInv, KnownInv, NEW kinds, Sends(ui, ui', kinds), ui' \in Page,
         inn' = inn, connected' = connected, ui'.socket = ui.socket,
         Link(inn \o ui'.out, ui', hasty', abandoned', revoked'),
         ui.socket = "closed" => ~ui'.manual,
         ui.socket = "open" /\ Stays(ui') /\ ~abandoned' /\ ~hasty' =>
           ui'.pending \/ (~abandoned /\ ~hasty /\ Hopeful(ui, ui'))
  PROVE  KnownInv'
<1>1. /\ ui \in Page /\ inn \in Seq(Reply) /\ Told(inn, connected)
      /\ Known(inn \o ui.out, ui, connected, hasty, abandoned)
  BY Wired
<1>2. /\ \A i \in DOMAIN (inn \o ui.out) :
            i \in DOMAIN (inn \o ui'.out) /\ (inn \o ui'.out)[i] = (inn \o ui.out)[i]
      /\ Stays(ui') => Stays(ui)
  BY <1>1, Extends
<1>3. Known(inn \o ui'.out, ui', connected, hasty', abandoned')
  <2> SUFFICES ASSUME ui.socket = "open", ~abandoned', ~hasty', connected, Stays(ui')
               PROVE  Hope(inn \o ui'.out, ui')
    BY DEF Known
  <2>1. CASE ui'.pending
    BY <2>1 DEF Hope
  <2>2. CASE ~abandoned /\ ~hasty /\ Hopeful(ui, ui')
    <3>1. Hope(inn \o ui.out, ui)
      BY <1>1, <1>2, <2>2 DEF Known
    <3> QED BY <1>2, <2>2, <3>1 DEF Hope, Hopeful
  <2> QED BY <2>1, <2>2
<1>4. Told(inn', connected')
  BY <1>1
<1> QED BY <1>3, <1>4 DEF KnownInv, Wire

LEMMA KeptHopes ==
  ASSUME NEW u, NEW v, Kept(u, v)
  PROVE  Hopeful(u, v) /\ v.socket = u.socket
BY DEF Kept, Hopeful

LEMMA RenderKnows ==
  ASSUME IInv, KnownInv, Render
  PROVE  KnownInv'
<1> DEFINE s == [state |-> ui.state, reconnecting |-> ui.reconnecting,
                 connecting |-> ui.pending, ws |-> ui.ws]
           v == [ui EXCEPT !.stale = FALSE, !.due = TRUE, !.shown = s]
<1>1. ui' = v /\ UNCHANGED <<backend, clicks, drops, ghosts>>
  BY DEF Render
<1>2. ui \in Page /\ Live(inn, ui, hasty, abandoned, revoked) /\ (ui.socket = "closed" => ~ui.manual)
  BY Wired
<1>3. s \in Shown
  BY <1>2 DEF Page, Shown
<1> HIDE DEF s
<1>4. v \in Page
  BY <1>2, <1>3 DEF Page
<1>5. Kept(ui, v) /\ v.out = ui.out
  BY <1>2 DEF Page, Kept
<1> HIDE DEF v
<1>6. Link(inn \o v.out, v, hasty, abandoned, revoked)
  BY <1>2, <1>4, <1>5, LiveKept DEF Live
<1>7. Hopeful(ui, v) /\ v.socket = ui.socket /\ v.manual = ui.manual
  BY <1>5, KeptHopes DEF Kept
<1> QED BY <1>1, <1>2, <1>4, <1>5, <1>6, <1>7, PageKnows DEF ghosts, backend, Sends

\* The poll of a page that is like the one that is.
LEMMA PollKnows ==
  ASSUME IInv, KnownInv, NEW d \in Page, Sound(d), Kept(ui, d), d.out = ui.out, ui' = PollIdentity(d),
         inn' = inn, connected' = connected,
         hasty' = hasty, abandoned' = abandoned, revoked' = revoked
  PROVE  KnownInv'
<1>1. /\ Live(inn, ui, hasty, abandoned, revoked) /\ (ui.socket = "closed" => ~ui.manual)
      /\ inn \in Seq(Reply)
  BY Wired
<1>2. Live(inn, d, hasty, abandoned, revoked)
  BY <1>1, LiveKept
<1>3. LET v == PollIdentity(d)
      IN /\ Link(inn \o v.out, v, hasty, abandoned, revoked)
         /\ v.state = d.state /\ v.pending = d.pending /\ v.manual = d.manual /\ v.socket = d.socket
  BY <1>2, PollLinks
<1>4. Sound(PollIdentity(d)) /\ Sends(d, PollIdentity(d), {"poll"})
  BY <1>1, PollsIdentity
<1>5. Link(inn \o ui'.out, ui', hasty', abandoned', revoked')
  BY <1>3
<1>6. ui' \in Page /\ Sends(ui, ui', {"poll"}) /\ ui'.socket = ui.socket /\ ui'.manual = ui.manual
      /\ Hopeful(ui, ui')
  BY <1>3, <1>4 DEF Sound, Steady, Sends, Kept, Hopeful
<1> QED BY <1>1, <1>5, <1>6, PageKnows

LEMMA RunEffectsKnows ==
  ASSUME IInv, KnownInv, RunEffects
  PROVE  KnownInv'
<1> DEFINE t == /\ ui.shown.ws /\ ui.shown.reconnecting
                /\ ui.shown.state = "DISCONNECTED"
                /\ (ui.retryTimer \/ ui.attempts < Retries)
           a == [ui EXCEPT !.retryTimer = t]
           d == [a EXCEPT !.due = FALSE]
<1>1. ui' = PollIdentity(d) /\ UNCHANGED <<backend, clicks, drops, ghosts>>
  BY DEF RunEffects, ArmRetry
<1>2. Sound(ui) /\ ui \in Page
  BY Wired
<1>3. t \in BOOLEAN /\ (t => ui.retryTimer \/ ui.attempts < Retries)
  BY <1>2 DEF Page, Shown
<1> HIDE DEF t
<1>4. a \in Page /\ a.retryTimer = t
  BY <1>2, <1>3 DEF Page
<1>5. Kept(ui, a) /\ a.out = ui.out
  BY <1>2 DEF Page, Kept
<1>6. /\ Finite(a) /\ Timed(a) /\ Identified(a)
      /\ a.eligible = ui.eligible /\ a.tries = ui.tries /\ a.attempts = ui.attempts
  BY <1>2 DEF Sound, Steady, Page, Finite, Timed, Identified
<1> HIDE DEF a
<1>7. Sound(a)
  BY <1>2, <1>3, <1>4, <1>6 DEF Counted, Sound, Steady
<1>8. d \in Page
  BY <1>4 DEF Page
<1>9. Alike(a, d) /\ d.out = a.out /\ Kept(a, d)
  BY <1>4 DEF Page, Alike, Kept
<1> HIDE DEF d
<1>10. Sound(d) /\ Kept(ui, d) /\ d.out = ui.out
  BY <1>5, <1>7, <1>8, <1>9, AlikeSound DEF Kept
<1> QED BY <1>1, <1>8, <1>10, PollKnows DEF ghosts, backend

LEMMA PollIntervalKnows ==
  ASSUME IInv, KnownInv, PollInterval
  PROVE  KnownInv'
<1>1. ui' = PollIdentity(ui) /\ UNCHANGED <<backend, clicks, drops, ghosts>>
  BY DEF PollInterval
<1>2. Sound(ui) /\ ui \in Page /\ Kept(ui, ui)
  BY Wired DEF Kept
<1> QED BY <1>1, <1>2, PollKnows DEF ghosts, backend

LEMMA ConnectTimesOutKnows ==
  ASSUME IInv, KnownInv, ConnectTimesOut
  PROVE  KnownInv'
<1> DEFINE v == Patch(Finish(ui), "DISCONNECTED")
           w == inn \o ui.out
<1>1. /\ ui.timer /\ ui' = v /\ abandoned' = TRUE /\ inn' = inn /\ connected' = connected
      /\ revoked' = revoked /\ hasty' = hasty
  BY DEF ConnectTimesOut, Failed, backend
<1>2. /\ Sound(ui) /\ ui \in Page /\ (ui.socket = "closed" => ~ui.manual)
      /\ Link(w, ui, hasty, abandoned, revoked)
  BY Wired DEF Live
<1>3. Clear(ui, v) /\ v.state = "DISCONNECTED" /\ v.out = ui.out
  BY <1>2, EndClears DEF States
<1>4. Heard(ui, v)
  BY <1>2, EndHeard
<1> HIDE DEF v, w
<1>5. ui.state # "CONNECTED"
  BY <1>1, <1>2 DEF Sound, Timed
<1>6. /\ v.state # "CONNECTED" /\ v.connectReq = {} /\ v.pending = FALSE
      /\ v.statusReq = ui.statusReq /\ v.poll = ui.poll /\ v.socket = ui.socket
      /\ v.disconnectReq = ui.disconnectReq /\ v.manual = ui.manual
  BY <1>3 DEF Clear
<1>7. /\ \A i \in DOMAIN w : Leaving(w[i]) => w[i].id \in v.disconnectReq
      /\ ~hasty => \A i, j \in DOMAIN w : Asking(w[j]) /\ w[i].id = ui.poll => Left(w, i)
  BY <1>2, <1>5, <1>6 DEF Link, Departs, OneStatus
<1>8. Link(w, v, hasty, TRUE, revoked)
  BY <1>2, <1>6, <1>7, LinkClosed
<1>9. Link(inn \o ui'.out, ui', hasty', abandoned', revoked')
  BY <1>1, <1>3, <1>8 DEF w
<1>10. ui' \in Page /\ Sends(ui, ui', {})
  BY <1>1, <1>3, <1>4 DEF Heard, Sound, Steady, Sends
<1> QED BY <1>1, <1>2, <1>6, <1>9, <1>10, PageKnows

\* An attempt of a page that is like the one that is.
LEMMA ConnectKnows ==
  ASSUME IInv, KnownInv, NEW d \in Page, Kept(ui, d), d.out = ui.out, d.listed = ui.listed,
         ui' \in Page, Kept(Connect(d), ui'), ui'.out = Connect(d).out, Sends(ui, ui', {"connect"}),
         inn' = inn, connected' = connected, abandoned' = abandoned, revoked' = FALSE,
         hasty => hasty', ~hasty' => ui.disconnectReq = {}
  PROVE  KnownInv'
<1> DEFINE v == Connect(d)
<1>1. /\ Live(inn, ui, hasty, abandoned, revoked)
      /\ ui.socket # "open" => inn \o ui.out = <<>>
      /\ ui.socket = "closed" => ~ui.listed /\ ~ui.manual
  BY Wired
<1>2. Live(inn, d, hasty, abandoned, revoked)
  BY <1>1, LiveKept
<1>3. d.socket # "open" => inn \o d.out = <<>>
  BY <1>1 DEF Kept
<1>4. /\ Link(inn \o v.out, v, hasty', abandoned, FALSE)
      /\ v.socket = d.socket /\ (v = d \/ v.pending = TRUE \/ d.socket # "open")
  <2>1. PICK hb : hb = hasty'
    OBVIOUS
  <2>2. (hasty => hb) /\ (~hb => d.disconnectReq = {})
    BY <2>1 DEF Kept
  <2>3. PICK b, ha, ab, rv : b = inn /\ ha = hasty /\ ab = abandoned /\ rv = revoked
    OBVIOUS
  <2>4. /\ Live(b, d, ha, ab, rv) /\ (ha => hb) /\ (~hb => d.disconnectReq = {})
        /\ d.socket # "open" => b \o d.out = <<>>
    BY <1>2, <1>3, <2>2, <2>3
  <2> HIDE DEF v
  <2>5. Link(b \o Connect(d).out, Connect(d), hb, ab, FALSE)
    BY <2>4, ConnectLinks
  <2>6. Connect(d).socket = d.socket
    BY <2>4, ConnectLinks
  <2>7. Connect(d) = d \/ Connect(d).pending = TRUE \/ d.socket # "open"
    BY <2>4, ConnectLinks
  <2> QED BY <2>1, <2>3, <2>5, <2>6, <2>7 DEF v
<1>5. ~d.listed => v = d
  BY DEF Connect
<1> HIDE DEF v
<1>6. Kept(v, ui') /\ ui'.out = v.out
  BY DEF v
<1>7. Link(inn \o ui'.out, ui', hasty', abandoned', revoked')
  BY <1>4, <1>6, LinkKept
<1>8. ui'.socket = ui.socket
  BY <1>4, <1>6 DEF Kept
<1>9. ui.socket = "closed" => ~ui'.manual
  BY <1>1, <1>5, <1>6 DEF Kept
<1>10. ui.socket = "open" => ui'.pending \/ Hopeful(ui, ui')
  BY <1>4, <1>6 DEF Kept, Hopeful
<1> QED BY <1>7, <1>8, <1>9, <1>10, PageKnows

LEMMA AutoStartKnows ==
  ASSUME IInv, KnownInv, AutoStart
  PROVE  KnownInv'
<1> DEFINE c == [ui EXCEPT !.autoTimer = FALSE]
<1>1. /\ ui.autoTimer /\ ui' = Connect(c)
      /\ UNCHANGED <<backend, clicks, drops, ghosts>>
  BY DEF AutoStart
<1>2. /\ Sound(ui) /\ ui \in Page /\ inn \in Seq(Reply) /\ ~revoked
      /\ revoked \in BOOLEAN
  BY <1>1, Wired DEF IInv, TypeOK
<1>3. c \in Page /\ Kept(ui, c) /\ c.listed = ui.listed /\ c.out = ui.out
  <2>1. c \in Page
    BY <1>2 DEF Page
  <2>2. Kept(ui, c) /\ c.listed = ui.listed /\ c.out = ui.out
    BY <1>2 DEF Page, Kept
  <2> QED BY <2>1, <2>2
<1>4. Finite(c) /\ Timed(c) /\ Counted(c) /\ Identified(c)
  BY <1>2 DEF Sound, Steady, Page, Finite, Timed, Counted, Identified
<1> HIDE DEF c
<1>5. Sound(c)
  BY <1>3, <1>4 DEF Sound, Steady
<1>6. Sound(ui') /\ Sends(ui, ui', {"connect"})
  BY <1>1, <1>2, <1>3, <1>5, Connects DEF Sends, Kept
<1>7. ~hasty => ui.disconnectReq = {}
  BY <1>2, Wired
<1>8. Kept(Connect(c), ui') /\ ui'.out = Connect(c).out /\ ui' \in Page
  BY <1>1, <1>6 DEF Kept, Sound, Steady
<1> QED BY <1>1, <1>2, <1>3, <1>6, <1>7, <1>8, ConnectKnows DEF ghosts, backend

LEMMA RetryFiresKnows ==
  ASSUME IInv, KnownInv, RetryFires
  PROVE  KnownInv'
<1> DEFINE e == [ui EXCEPT !.retryTimer = FALSE]
           c == [e EXCEPT !.attempts = @ + 1, !.tries = @ + 1]
<1>1. /\ ui.retryTimer /\ ui' = RetryDevice(ui)
      /\ UNCHANGED <<backend, clicks, drops, ghosts>>
  BY DEF RetryFires
<1>2. /\ Sound(ui) /\ ui \in Page /\ inn \in Seq(Reply) /\ revoked \in BOOLEAN
      /\ Live(inn, ui, hasty, abandoned, revoked) /\ (ui.socket = "closed" => ~ui.manual)
      /\ (revoked => ~ui.eligible)
  BY Wired DEF IInv, TypeOK
<1>3. e \in Page /\ Kept(ui, e) /\ e.out = ui.out
      /\ e.tries = ui.tries /\ e.attempts = ui.attempts /\ e.listed = ui.listed
  <2>1. e \in Page
    BY <1>2 DEF Page
  <2>2. e.out = ui.out /\ e.tries = ui.tries /\ e.attempts = ui.attempts /\ e.listed = ui.listed
    BY <1>2 DEF Page
  <2>3. Kept(ui, e)
    BY <1>2 DEF Page, Kept
  <2> QED BY <2>1, <2>2, <2>3
<1>4. Sound(ui') /\ Sends(ui, ui', {"connect"})
  BY <1>1, <1>2, RetrySound
<1>5. \/ ui' = e \/ (ui.eligible /\ ui' = Connect(c))
  BY <1>1 DEF RetryDevice
<1> HIDE DEF e
<1>6. CASE ui' = e
  <2>1. Link(inn \o e.out, e, hasty, abandoned, revoked)
    BY <1>2, <1>3, LiveKept DEF Live
  <2>2. Hopeful(ui, e) /\ e.socket = ui.socket /\ e.manual = ui.manual
    BY <1>3, KeptHopes DEF Kept
  <2> QED BY <1>1, <1>2, <1>3, <1>4, <1>6, <2>1, <2>2, PageKnows DEF ghosts, backend
<1>7. CASE ui.eligible /\ ui' = Connect(c)
  <2>1. ui.attempts < Retries /\ ui.attempts \in Nat /\ ui.tries \in Nat
    BY <1>1, <1>2, <1>7 DEF Sound, Steady, Counted, Page
  <2>2. e.attempts + 1 \in 0 .. Retries /\ e.tries + 1 \in Nat
    BY <1>3, <2>1 DEF Retries
  <2>3. c \in Page
    BY <1>3, <2>2 DEF Page
  <2>4. Kept(e, c) /\ c.out = e.out /\ c.listed = e.listed
    BY <1>3 DEF Page, Kept
  <2> HIDE DEF c
  <2>5. Kept(ui, c) /\ c.out = ui.out /\ c.listed = ui.listed
    BY <1>3, <2>4 DEF Kept
  <2>6. ~revoked /\ (~hasty => ui.disconnectReq = {})
    BY <1>2, <1>7, Wired
  <2>7. Kept(Connect(c), ui') /\ ui'.out = Connect(c).out /\ ui' \in Page
    BY <1>4, <1>7 DEF Kept, Sound, Steady
  <2> QED BY <1>1, <1>2, <1>4, <2>3, <2>5, <2>6, <2>7, ConnectKnows DEF ghosts, backend
<1> QED BY <1>5, <1>6, <1>7

LEMMA ClickConnectKnows ==
  ASSUME IInv, KnownInv, ClickConnect
  PROVE  KnownInv'
<1> DEFINE c == Connect(ui)
           v == [c EXCEPT !.tries = 0]
<1>1. /\ ui' = v /\ revoked' = FALSE
      /\ hasty' = (hasty \/ ui.disconnectReq # {})
      /\ UNCHANGED <<backend, drops, abandoned>>
  BY DEF ClickConnect
<1>2. /\ Sound(ui) /\ ui \in Page /\ inn \in Seq(Reply)
  BY Wired
<1>3. Sound(c) /\ Sends(ui, c, {"connect"})
  BY <1>2, Connects
<1> HIDE DEF c
<1>4. c \in Page
  BY <1>3 DEF Sound, Steady
<1>5. v \in Page /\ v.out = c.out /\ Kept(c, v)
  BY <1>4 DEF Page, Kept
<1> HIDE DEF v
<1>6. Sends(ui, v, {"connect"}) /\ Kept(ui, ui)
  BY <1>3, <1>5 DEF Sends, Kept
<1>7. Kept(Connect(ui), ui') /\ ui'.out = Connect(ui).out
  BY <1>1, <1>5 DEF c
<1> QED BY <1>1, <1>2, <1>5, <1>6, <1>7, ConnectKnows DEF backend

LEMMA ClickDisconnectKnows ==
  ASSUME IInv, KnownInv, ClickDisconnect
  PROVE  KnownInv'
<1>1. /\ ui' = Disconnect(ui) /\ revoked' = TRUE /\ ui.listed
      /\ UNCHANGED <<backend, drops, abandoned, hasty>>
  BY DEF ClickDisconnect, Clickable
<1>2. /\ Sound(ui) /\ ui \in Page /\ inn \in Seq(Reply) /\ Live(inn, ui, hasty, abandoned, revoked)
      /\ ui.socket # "open" => inn \o ui.out = <<>>
      /\ ui.socket # "closed"
  BY <1>1, Wired
<1>3. Sound(ui') /\ Sends(ui, ui', {"disconnect"})
  BY <1>1, <1>2, Disconnects
<1>4. LET v == Disconnect(ui)
      IN /\ Link(inn \o v.out, v, hasty, abandoned, TRUE) /\ v.socket = ui.socket
         /\ ui.socket = "open" => ~Stays(v)
  BY <1>1, <1>2, DisconnectLinks
<1>5. /\ Link(inn \o ui'.out, ui', hasty', abandoned', revoked') /\ ui'.socket = ui.socket
      /\ ui.socket = "open" => ~Stays(ui')
  BY <1>1, <1>4
<1>6. ui' \in Page
  BY <1>3 DEF Sound, Steady
<1> QED BY <1>1, <1>2, <1>3, <1>5, <1>6, PageKnows DEF backend

-----------------------------------------------------------------------------
(* Steps of the socket, the proxy and the instrument.                      *)

\* Before anything is heard.
LEMMA Unheralded ==
  ASSUME NEW c
  PROVE  Told(<<>>, c)
BY DEF Told

LEMMA FreshKnows ==
  ASSUME NEW v, v.connectReq = {}, v.disconnectReq = {}, v.state = "UNKNOWN"
  PROVE  Link(<<>>, v, FALSE, FALSE, FALSE)
BY LinkEmpty

LEMMA InitKnows ==
  ASSUME Init
  PROVE  KnownInv
<1>1. /\ ui.connectReq = {} /\ ui.disconnectReq = {} /\ ui.state = "UNKNOWN" /\ ui.out = <<>>
      /\ ui.socket = "closed" /\ ui.manual = FALSE
  BY DEF Init, Fresh
<1>2. inn = <<>> /\ ~hasty /\ ~abandoned /\ ~revoked /\ hasty = FALSE /\ abandoned = FALSE /\ revoked = FALSE
  BY DEF Init
<1>3. Wire = <<>>
  <2>1. <<>> \o <<>> = <<>>
    OBVIOUS
  <2> QED BY <1>1, <1>2, <2>1 DEF Wire
<1>4. Link(<<>>, ui, FALSE, FALSE, FALSE)
  BY <1>1, FreshKnows
<1>5. Link(Wire, ui, hasty, abandoned, revoked)
  BY <1>2, <1>3, <1>4
<1>6. Told(inn, connected)
  BY <1>2, Unheralded
<1>7. Known(Wire, ui, connected, hasty, abandoned)
  BY <1>1 DEF Known
<1> QED BY <1>1, <1>5, <1>6, <1>7 DEF KnownInv

LEMMA DropKnows ==
  ASSUME IInv, KnownInv, Drop
  PROVE  KnownInv'
<1> DEFINE v == [ui EXCEPT !.socket = "closing", !.out = <<>>]
<1>1. inn' = <<>> /\ ui' = v /\ revoked' = revoked /\ abandoned' = abandoned /\ hasty' = hasty
  BY DEF Drop, ghosts
<1>2. ui \in Page /\ Link(inn \o ui.out, ui, hasty, abandoned, revoked)
  BY Wired DEF Live
<1>3. /\ v.socket = "closing" /\ v.out = <<>> /\ v.connectReq = ui.connectReq
      /\ v.disconnectReq = ui.disconnectReq /\ v.pending = ui.pending /\ v.state = ui.state
  BY <1>2 DEF Page
<1> HIDE DEF v
<1>4. /\ v.connectReq # {} => v.pending
      /\ ~hasty /\ v.disconnectReq # {} => revoked
      /\ v.state = "CONNECTED" => ~abandoned
  BY <1>2, <1>3 DEF Link, OneAttempt, Departs, Awaited
<1>5. Link(<<>>, v, hasty, abandoned, revoked)
  BY <1>3, <1>4, LinkEmpty
<1>6. Wire' = <<>>
  <2>1. <<>> \o <<>> = <<>>
    OBVIOUS
  <2> QED BY <1>1, <1>3, <2>1 DEF Wire
<1>7. Told(inn, connected)'
  BY <1>1, Unheralded
<1>8. Known(Wire', ui', connected', hasty', abandoned')
  BY <1>1, <1>3 DEF Known
<1> QED BY <1>1, <1>3, <1>5, <1>6, <1>7, <1>8 DEF KnownInv

LEMMA CloseEventKnows ==
  ASSUME IInv, KnownInv, CloseEvent
  PROVE  KnownInv'
<1> DEFINE v == Reset(ui)
<1>1. /\ ui' = v /\ inn' = inn /\ connected' = connected /\ ui.socket = "closing"
      /\ revoked' = FALSE /\ abandoned' = FALSE /\ hasty' = FALSE
  BY DEF CloseEvent, backend
<1>2. inn = <<>> /\ Told(inn, connected)
  BY <1>1, Wired
<1>3. /\ v.connectReq = {} /\ v.disconnectReq = {} /\ v.state = "UNKNOWN" /\ v.out = <<>>
      /\ v.socket = "closed" /\ v.manual = FALSE
  BY FreshSound DEF Reset, Fresh
<1> HIDE DEF v
<1>4. Link(<<>>, v, FALSE, FALSE, FALSE)
  BY <1>3, FreshKnows
<1>5. Wire' = <<>>
  <2>1. <<>> \o <<>> = <<>>
    OBVIOUS
  <2> QED BY <1>1, <1>2, <1>3, <2>1 DEF Wire
<1>6. Known(Wire', ui', connected', hasty', abandoned')
  BY <1>1, <1>3 DEF Known
<1> QED BY <1>1, <1>2, <1>3, <1>4, <1>5, <1>6 DEF KnownInv

LEMMA OpenSocketKnows ==
  ASSUME IInv, KnownInv, OpenSocket
  PROVE  KnownInv'
<1> DEFINE o == [ui EXCEPT !.socket = "open", !.ws = TRUE, !.stale = TRUE]
           l == Send(o, "list")
           v == Send(l, "status")
           f == [kind |-> "list", id |-> NewId(o)]
           e == [kind |-> "status", id |-> NewId(l)]
<1>1. /\ ui.socket = "closed" /\ ui' = v /\ inn' = inn /\ connected' = connected
      /\ revoked' = revoked /\ abandoned' = abandoned /\ hasty' = hasty
  BY DEF OpenSocket, OnOpen, backend, ghosts
<1>2. /\ ui \in Page /\ inn = <<>> /\ ui.out = <<>> /\ inn \o ui.out = <<>> /\ ~ui.manual /\ ~revoked
      /\ inn \in Seq(Reply) /\ Live(inn, ui, hasty, abandoned, revoked) /\ Told(inn, connected)
  BY <1>1, Wired
<1>3. o \in Page
  BY <1>2 DEF Page
<1>4. /\ o.connectReq = ui.connectReq /\ o.disconnectReq = ui.disconnectReq /\ o.out = ui.out
      /\ o.pending = ui.pending /\ o.state = ui.state /\ o.manual = ui.manual /\ o.socket = "open"
  BY <1>2 DEF Page
<1> HIDE DEF o
<1>5. Link(<<>>, o, hasty, abandoned, revoked)
  <2>1. /\ o.connectReq # {} => o.pending
        /\ ~hasty /\ o.disconnectReq # {} => revoked
        /\ o.state = "CONNECTED" => ~abandoned
    BY <1>2, <1>4 DEF Live, Link, OneAttempt, Departs, Awaited
  <2> QED BY <1>2, <2>1, LinkEmpty
<1>6. Finite(o) /\ Range(inn) \subseteq Range(inn) /\ inn \o o.out = <<>>
  BY <1>2, <1>4 DEF Live, Finite
<1>7. /\ l \in Page /\ f \in Frame /\ inn \o l.out = Append(inn \o o.out, f) /\ inn \o o.out \in Seq(Item)
      /\ Unused(inn \o o.out, o, f.id) /\ Kept(o, l) /\ l.state = o.state
  BY <1>2, <1>3, <1>6, SendGives DEF Kinds
<1> HIDE DEF l
<1>8. f.kind \in {"idn", "list"} /\ f.kind = "list"
  OBVIOUS
<1> HIDE DEF f
<1>9. Link(inn \o l.out, l, hasty, abandoned, revoked)
  BY <1>5, <1>6, <1>7, <1>8, LinkIdle
<1>10. \A i \in DOMAIN (inn \o l.out) : ~Asking((inn \o l.out)[i]) /\ (inn \o l.out)[i].id # l.poll
  <2>1. \A i \in DOMAIN Append(<<>>, f) : Append(<<>>, f)[i] = f
    OBVIOUS
  <2>2. ~Asking(f) /\ f.id # l.poll
    BY <1>7, <1>8 DEF Asking, Unused, Kept
  <2> QED BY <1>6, <1>7, <2>1, <2>2
<1>11. Finite(l) /\ inn \o l.out \in Seq(Item)
  <2>1. Finite(l)
    BY <1>6, <1>7 DEF Finite, Kept
  <2>2. l.out \in Seq(Frame)
    BY <1>7 DEF Page
  <2> QED BY <1>2, <2>1, <2>2, Joined
<1>12. /\ v \in Page /\ inn \o v.out = Append(inn \o l.out, e)
       /\ Unused(inn \o l.out, l, e.id) /\ Kept(l, v) /\ v.state = l.state
  BY <1>2, <1>6, <1>7, <1>11, SendGives DEF Kinds
<1> HIDE DEF v
<1>13. e.kind = "status"
  OBVIOUS
<1> HIDE DEF e
<1>14. Link(inn \o v.out, v, hasty, abandoned, revoked)
  BY <1>9, <1>10, <1>11, <1>12, <1>13, LinkStatus DEF Kept
<1>15. v.socket = "open" /\ v.manual = FALSE /\ ~v.manual
  BY <1>2, <1>3, <1>4, <1>7, <1>12 DEF Kept, Page
<1>16. Hope(inn \o v.out, v)
  <2>1. LET a == Append(inn \o l.out, e)
            n == Len(inn \o l.out) + 1
        IN n \in DOMAIN a /\ a[n] = e
    BY <1>11
  <2>2. \E i \in DOMAIN (inn \o v.out) : Asking((inn \o v.out)[i])
    BY <1>12, <1>13, <2>1 DEF Asking
  <2> QED BY <1>15, <2>2 DEF Hope
<1>17. Known(Wire', ui', connected', hasty', abandoned')
  BY <1>1, <1>16 DEF Known, Wire
<1> QED BY <1>1, <1>2, <1>14, <1>15, <1>17 DEF KnownInv, Wire

LEMMA LoseKnows ==
  ASSUME IInv, KnownInv, Lose
  PROVE  KnownInv'
<1>1. connected' = FALSE /\ UNCHANGED <<ui, inn, revoked, abandoned, hasty>>
  BY DEF Lose, ghosts
<1> QED BY <1>1 DEF KnownInv, Wire, Told, Known

LEMMA StutterKnows ==
  ASSUME KnownInv, UNCHANGED vars
  PROVE  KnownInv'
BY DEF KnownInv, vars, Wire

\* A frame that is served: its answer takes its place.
LEMMA LinkServed ==
  ASSUME NEW w, NEW x, NEW u, NEW ha, NEW ab, NEW rv, Link(w, u, ha, ab, rv), DOMAIN x = DOMAIN w,
         \A i \in DOMAIN w : /\ x[i].id = w[i].id
                             /\ (Connecting(x[i]) => Connecting(w[i])) /\ (Attempt(x[i]) => Attempt(w[i]))
                             /\ (Asking(x[i]) => Asking(w[i]))
                             /\ (Leaving(x[i]) => Leaving(w[i])) /\ (Leaving(w[i]) => Leaving(x[i]))
  PROVE  Link(x, u, ha, ab, rv)
<1>1. \A i \in DOMAIN w : (Left(w, i) => Left(x, i)) /\ (Undisturbed(w, u, i) => Undisturbed(x, u, i))
  BY DEF Left, Undisturbed
<1>2. Distinct(x) /\ OneAttempt(x, u)
  BY DEF Link, Distinct, OneAttempt
<1>3. Departs(x, u, ha, rv)
  BY DEF Link, Departs
<1>4. OneStatus(x, u, ha)
  BY <1>1 DEF Link, OneStatus
<1>5. Awaited(x, u, ha, ab)
  BY <1>1 DEF Link, Awaited
<1> QED BY <1>2, <1>3, <1>4, <1>5 DEF Link

\* A disconnect that is served leaves nothing that was given up.
LEMMA LinkLeft ==
  ASSUME NEW w \in Seq(Item), NEW u, NEW ha, NEW ab, NEW rv, NEW p \in DOMAIN w,
         Link(w, u, ha, ab, rv), Leaving(w[p])
  PROVE  Link(w, u, ha, FALSE, rv)
<1>1. ~ha => \A i \in DOMAIN w : Connecting(w[i]) => Left(w, i)
  <2> SUFFICES ASSUME ~ha, NEW i \in DOMAIN w, Connecting(w[i]) PROVE Left(w, i)
    OBVIOUS
  <2>1. i < p
    BY DEF Link, Departs, Attempt
  <2> QED BY <2>1 DEF Left
<1>2. Awaited(w, u, ha, FALSE)
  BY <1>1 DEF Awaited
<1> QED BY <1>2 DEF Link

\* Frame f is answered by r, over a transport that was c and is d.
Answered(f, r, c, d) ==
  \/ f.kind = "list" /\ r.kind = "list" /\ d = c
  \/ f.kind = "status" /\ r.kind = "UP" /\ d = c
  \/ f.kind = "status" /\ r.kind = "DOWN" /\ d = c /\ ~c
  \/ f.kind = "connect" /\ r.kind = "OK CONNECTED" /\ d = TRUE
  \/ f.kind = "connect" /\ r.kind = "ERR" /\ d = c /\ ~c
  \/ f.kind = "disconnect" /\ r.kind = "OK DISCONNECTED" /\ d = FALSE
  \/ f.kind \in {"idn", "poll"} /\ r.kind \in {"VALUE", "TIMEOUT"} /\ d = c
  \/ f.kind \in {"idn", "poll"} /\ r.kind = "LOST" /\ d = c /\ ~c

LEMMA AnswersTell ==
  ASSUME NEW q \in Seq(Reply), NEW f, NEW r \in Reply, NEW c, NEW d, Answered(f, r, c, d), Told(q, c)
  PROVE  Told(Append(q, r), d)
<1> DEFINE a == Append(q, r)
           n == Len(q) + 1
<1>1. /\ n \in DOMAIN a /\ a[n] = r /\ \A i \in DOMAIN q : i \in DOMAIN a /\ a[i] = q[i] /\ n > i
      /\ \A i \in DOMAIN a : i = n \/ i \in DOMAIN q
  OBVIOUS
<1> HIDE DEF a, n
<1> SUFFICES ASSUME d, NEW i \in DOMAIN a, a[i].kind \in Losses
             PROVE  \E j \in DOMAIN a : j > i /\ a[j].kind = "OK CONNECTED"
  BY DEF Told, a
<1>1a. r.kind = "OK CONNECTED" \/ (r.kind \notin Losses /\ c)
  BY DEF Answered, Losses
<1>2. i \in DOMAIN q
  BY <1>1, <1>1a DEF Losses
<1>3. CASE r.kind = "OK CONNECTED"
  BY <1>1, <1>2, <1>3
<1>4. CASE r.kind \notin Losses /\ c
  <2>1. PICK j \in DOMAIN q : j > i /\ q[j].kind = "OK CONNECTED"
    BY <1>1, <1>2, <1>4 DEF Told
  <2> QED BY <1>1, <2>1
<1> QED BY <1>1a, <1>3, <1>4

LEMMA AnswersKeep ==
  ASSUME NEW f \in Frame, NEW r \in Reply, NEW c, NEW d, Answered(f, r, c, d)
  PROVE  /\ (Connecting(r) => Connecting(f)) /\ (Attempt(r) => Attempt(f))
         /\ (Asking(r) <=> Asking(f)) /\ (Leaving(r) <=> Leaving(f))
         /\ d => \/ r.kind = "OK CONNECTED"
                 \/ c /\ (Connecting(f) => Connecting(r)) /\ f.kind # "disconnect"
<1>1. f.kind \in {"list", "status", "connect", "disconnect", "idn", "poll"}
  BY DEF Frame
<1>2. (Connecting(r) => Connecting(f)) /\ (Attempt(r) => Attempt(f))
  BY <1>1 DEF Answered, Connecting, Attempt
<1>3. (Asking(r) <=> Asking(f)) /\ (Leaving(r) <=> Leaving(f))
  BY <1>1 DEF Answered, Asking, Leaving
<1>4. ASSUME d
      PROVE  \/ r.kind = "OK CONNECTED"
             \/ c /\ (Connecting(f) => Connecting(r)) /\ f.kind # "disconnect"
  BY <1>1, <1>4 DEF Answered, Connecting
<1> QED BY <1>2, <1>3, <1>4

LEMMA Served ==
  ASSUME NEW b \in Seq(Reply), NEW o \in Seq(Frame), o # <<>>, NEW r \in Reply
  PROVE  LET w == b \o o
             x == Append(b, r) \o Tail(o)
             p == Len(b) + 1
         IN /\ w \in Seq(Item) /\ p \in DOMAIN w /\ Len(x) = Len(w) /\ x \in Seq(Item) /\ w[p] = Head(o) /\ x[p] = r
            /\ Head(o) \in Frame /\ Tail(o) \in Seq(Frame)
            /\ \A i \in DOMAIN w : i # p => x[i] = w[i]
<1> DEFINE w == b \o o
           x == Append(b, r) \o Tail(o)
           p == Len(b) + 1
<1>1. w \in Seq(Item)
  BY Joined
<1>2. Head(o) \in Frame /\ Tail(o) \in Seq(Frame) /\ Len(Tail(o)) = Len(o) - 1 /\ Len(o) > 0 /\ o[1] = Head(o)
      /\ \A i \in 1 .. Len(Tail(o)) : Tail(o)[i] = o[i + 1]
  OBVIOUS
<1>3. Len(w) = Len(b) + Len(o) /\ Append(b, r) \in Seq(Reply) /\ Len(Append(b, r)) = Len(b) + 1
  OBVIOUS
<1>4. p \in DOMAIN w /\ w[p] = Head(o)
  BY <1>2, <1>3
<1>5. Len(x) = Len(w) /\ x \in Seq(Item)
  <2>1. Len(x) = Len(w)
    BY <1>2, <1>3
  <2>2. x \in Seq(Item)
    <3>1. \A a \in Seq(Reply), z \in Seq(Frame) : a \o z \in Seq(Item)
      BY Joined
    <3> QED BY <1>2, <1>3, <3>1
  <2> QED BY <2>1, <2>2
<1>6. x[p] = r
  BY <1>2, <1>3
<1>7. ASSUME NEW i \in DOMAIN w, i # p PROVE x[i] = w[i]
  <2>1. CASE i <= Len(b)
    BY <1>2, <1>3, <2>1
  <2>2. CASE i > Len(b) + 1
    <3>1. i \in 1 .. Len(b) + Len(o) /\ i - Len(b) - 1 \in 1 .. Len(Tail(o))
      BY <1>2, <1>3, <2>2
    <3>2. x[i] = Tail(o)[i - (Len(b) + 1)]
      BY <1>2, <1>3, <2>2, <3>1
    <3>3. w[i] = o[i - Len(b)]
      BY <1>3, <2>2, <3>1
    <3> QED BY <1>2, <3>1, <3>2, <3>3
  <2>3. i \in Int /\ Len(b) \in Int
    BY <1>1
  <2> QED BY <1>7, <2>1, <2>2, <2>3
<1> QED BY <1>1, <1>2, <1>4, <1>5, <1>6, <1>7

LEMMA ServeKnows ==
  ASSUME IInv, KnownInv, Serve
  PROVE  KnownInv'
<1> DEFINE o == Tail(ui.out)
           v == [ui EXCEPT !.out = o]
           f == Head(ui.out)
           w == inn \o ui.out
           p == Len(inn) + 1
<1>1. ui.out # <<>> /\ ui' = v /\ revoked' = revoked /\ hasty' = hasty
  BY DEF Serve
<1>2. /\ ui \in Page /\ inn \in Seq(Reply) /\ ui.out \in Seq(Frame) /\ Told(inn, connected)
      /\ Link(w, ui, hasty, abandoned, revoked) /\ Known(w, ui, connected, hasty, abandoned)
      /\ ui.socket = "closed" => ~ui.manual
  BY Wired DEF Live
<1>3. f \in Frame
  BY <1>1, <1>2
<1>4. PICK r \in Reply : /\ inn' = Append(inn, r) /\ r.id = f.id /\ Answered(f, r, connected, connected')
                         /\ abandoned' = IF f.kind = "disconnect" THEN FALSE ELSE abandoned
  <2> DEFINE Verdicts == {"list", "OK CONNECTED", "OK DISCONNECTED", "ERR", "UP", "DOWN", "VALUE", "LOST", "TIMEOUT"}
             a(k) == [kind |-> k, id |-> f.id]
  <2>1. \A k \in Verdicts : a(k) \in Reply /\ a(k).id = f.id /\ a(k).kind = k
    BY <1>3 DEF Frame, Reply
  <2>2. \A k : Answer(k) => inn' = Append(inn, a(k))
    BY DEF Answer
  <2>3. \E k \in Verdicts : Answer(k) /\ Answered(f, a(k), connected, connected')
                          /\ abandoned' = IF f.kind = "disconnect" THEN FALSE ELSE abandoned
    BY <2>1 DEF Serve, Answered
  <2> QED BY <2>1, <2>2, <2>3
<1>5. /\ o \in Seq(Frame) /\ w \in Seq(Item) /\ p \in DOMAIN w /\ w[p] = f
  BY <1>1, <1>2, <1>4, Served
<1>6. PICK x : x = Append(inn, r) \o o
  OBVIOUS
<1>7. /\ DOMAIN x = DOMAIN w /\ x[p] = r
      /\ \A i \in DOMAIN w : i # p => x[i] = w[i]
  <2> DEFINE y == Append(inn, r) \o o
  <2>1. ui.out # <<>> /\ ui.out \in Seq(Frame) /\ inn \in Seq(Reply)
    BY <1>1, <1>2
  <2>2. Len(y) = Len(w) /\ y \in Seq(Item)
    BY <2>1, Served, ZenonT(60)
  <2>3. y[p] = r
    BY <2>1, Served
  <2>4. \A i \in DOMAIN w : i # p => y[i] = w[i]
    BY <2>1, Served
  <2> HIDE DEF y
  <2>5. x = y
    BY <1>6 DEF y
  <2> QED BY <1>5, <2>2, <2>3, <2>4, <2>5
<1>8. /\ v.out = o /\ v.state = ui.state /\ v.pending = ui.pending /\ v.manual = ui.manual
      /\ v.socket = ui.socket /\ Kept(ui, v)
  BY <1>2 DEF Page, Kept
<1>9. /\ (Connecting(r) => Connecting(f)) /\ (Attempt(r) => Attempt(f))
      /\ (Asking(r) <=> Asking(f)) /\ (Leaving(r) <=> Leaving(f))
      /\ connected' => \/ r.kind = "OK CONNECTED"
                       \/ connected /\ (Connecting(f) => Connecting(r)) /\ f.kind # "disconnect"
  BY <1>3, <1>4, AnswersKeep
<1>10. Stays(v) /\ f.kind # "disconnect" => Stays(ui)
  <2>1. \A i \in DOMAIN ui.out : ui.out[i] = f \/ (i - 1 \in DOMAIN o /\ o[i - 1] = ui.out[i])
    BY <1>1, <1>2
  <2> HIDE DEF v, o, f
  <2> QED BY <1>8, <2>1 DEF Stays
<1> HIDE DEF v, o, f, w, p
<1>11. /\ Wire' = x
  BY <1>1, <1>4, <1>6, <1>8 DEF Wire
<1>12. /\ \A i \in DOMAIN w : /\ x[i].id = w[i].id
                              /\ (Connecting(x[i]) => Connecting(w[i])) /\ (Attempt(x[i]) => Attempt(w[i]))
                              /\ (Asking(x[i]) => Asking(w[i])) /\ (Asking(w[i]) => Asking(x[i]))
                              /\ (Leaving(x[i]) => Leaving(w[i])) /\ (Leaving(w[i]) => Leaving(x[i]))
                              /\ ((Connecting(f) => Connecting(r)) /\ Connecting(w[i]) => Connecting(x[i]))
  BY <1>4, <1>5, <1>7, <1>9
<1>13. Link(x, v, hasty, abandoned', revoked)
  <2>1. Link(w, ui, hasty, abandoned', revoked)
    <3>1. CASE f.kind = "disconnect"
      <4>1. Leaving(w[p])
        BY <1>5, <3>1 DEF Leaving
      <4>2. Link(w, ui, hasty, FALSE, revoked)
        BY <1>2, <1>5, <4>1, LinkLeft
      <4> QED BY <1>4, <3>1, <4>2
    <3>2. CASE f.kind # "disconnect"
      BY <1>2, <1>4, <3>2
    <3> QED BY <3>1, <3>2
  <2>2. Link(x, ui, hasty, abandoned', revoked)
    BY <1>7, <1>12, <2>1, LinkServed
  <2> QED BY <1>8, <2>2, LinkKept
<1>14. Told(inn', connected')
  BY <1>2, <1>4, AnswersTell
<1>15. Known(x, v, connected', hasty, abandoned')
  <2> SUFFICES ASSUME ui.socket = "open", ~abandoned', ~hasty, connected', Stays(v)
               PROVE  Hope(x, v)
    BY <1>8 DEF Known
  <2>1. CASE r.kind = "OK CONNECTED"
    BY <1>5, <1>7, <2>1 DEF Hope, Connecting
  <2>2. CASE connected /\ (Connecting(f) => Connecting(r)) /\ f.kind # "disconnect"
    <3>1. Hope(w, ui)
      BY <1>2, <1>4, <1>10, <2>2 DEF Known
    <3> QED BY <1>7, <1>8, <1>12, <2>2, <3>1 DEF Hope
  <2> QED BY <1>9, <2>1, <2>2
<1> QED BY <1>1, <1>2, <1>8, <1>11, <1>13, <1>14, <1>15 DEF KnownInv

LEMMA Regrouped ==
  ASSUME NEW m \in Reply, NEW b \in Seq(Reply), NEW o \in Seq(Frame)
  PROVE  (<<m>> \o b) \o o = <<m>> \o (b \o o)
<1>1. <<m>> \in Seq(Item) /\ b \in Seq(Item) /\ o \in Seq(Item)
  BY DEF Item
<1> QED BY <1>1

LEMMA DeliverKnows ==
  ASSUME IInv, KnownInv, Deliver
  PROVE  KnownInv'
<1>1. PICK m, b : m = Head(inn) /\ b = Tail(inn)
  OBVIOUS
<1>2. /\ inn # <<>> /\ ui' = Handle(ui, m) /\ inn' = b /\ connected' = connected
      /\ revoked' = revoked /\ hasty' = hasty /\ abandoned' = (abandoned /\ ui'.state # "CONNECTED")
  BY <1>1 DEF Deliver
<1>3. /\ Sound(ui) /\ inn \in Seq(Reply) /\ ui.out \in Seq(Frame) /\ (revoked => ui.manual)
      /\ ui.socket = "open" /\ Told(inn, connected)
      /\ Link(inn \o ui.out, ui, hasty, abandoned, revoked)
      /\ Known(inn \o ui.out, ui, connected, hasty, abandoned)
  BY <1>2, Wired DEF Live
<1>4. m \in Reply /\ b \in Seq(Reply) /\ inn = <<m>> \o b /\ Range(b) \subseteq Range(inn)
  <2>1. m \in Reply /\ b \in Seq(Reply) /\ inn = <<m>> \o b
    BY <1>1, <1>2, <1>3
  <2>2. \A i \in DOMAIN b : i + 1 \in DOMAIN inn /\ inn[i + 1] = b[i]
    BY <1>1, <1>2, <1>3
  <2> QED BY <2>1, <2>2 DEF Range
<1>5. inn \o ui.out = <<m>> \o (b \o ui.out)
  BY <1>3, <1>4, Regrouped
<1>6. Arrives(m, b, ui, hasty, abandoned, revoked)
  BY <1>3, <1>4, <1>5 DEF Arrives
<1>7. LET v == Handle(ui, m) IN Took(b, v, hasty, abandoned, revoked)
  BY <1>6, HandleTakes
<1>8. Told(b, connected)
  BY <1>3, <1>4, ToldBehind
<1>9. LET v == Handle(ui, m)
      IN Known(b \o v.out, v, connected, hasty, abandoned /\ v.state # "CONNECTED") /\ v.socket = "open"
  <2>1. Told(<<m>> \o b, connected) /\ Known(<<m>> \o (b \o ui.out), ui, connected, hasty, abandoned)
    BY <1>3, <1>4, <1>5
  <2> QED BY <1>6, <2>1, HandleKnows
<1>10. /\ Link(b \o ui'.out, ui', hasty, abandoned', revoked)
       /\ Known(b \o ui'.out, ui', connected, hasty, abandoned') /\ ui'.socket = "open"
  BY <1>2, <1>7, <1>9 DEF Took
<1> QED BY <1>2, <1>8, <1>10 DEF KnownInv, Wire

LEMMA StepKnows ==
  ASSUME IInv, KnownInv, [Next]_vars
  PROVE  KnownInv'
BY OpenSocketKnows, DeliverKnows, RenderKnows, RunEffectsKnows, PollIntervalKnows, RetryFiresKnows,
   ConnectTimesOutKnows, AutoStartKnows, ClickDisconnectKnows, ClickConnectKnows, DropKnows,
   CloseEventKnows, ServeKnows, LoseKnows, StutterKnows DEF Next

-----------------------------------------------------------------------------
(* The theorems.                                                           *)

(* What the page, its socket and the backend's answers keep to, whatever   *)
(* clicks, replies, timers, renders, losses and breaks come in any order.  *)
THEOREM PageIsSound == Spec => []IInv
BY InitSafe, StepSafe, PTL DEF Spec

(* A device is shown connecting exactly while its request is pending under *)
(* a running timer, and at most three retries follow a lost connection     *)
(* (useDeviceCommands.js, useDeviceRecovery.js).                           *)
THEOREM AttemptsBounded == Spec => []AttemptsAreBounded
<1>1. IInv => AttemptsAreBounded
  BY DEF IInv, Sound, Steady, Timed, Counted, AttemptsAreBounded, ConnectingIsTimed, RetryBudget
<1> QED BY <1>1, PageIsSound, PTL

(* No identity outlives the connection it was asked on, and none is        *)
(* awaited from an earlier one (useDeviceIdentities.js).                   *)
THEOREM IdentityIsCurrent == Spec => []IdentityOfThisConnection
<1>1. IInv => IdentityOfThisConnection
  BY DEF IInv, Sound, Steady, Identified, IdentityOfThisConnection
<1> QED BY <1>1, PageIsSound, PTL

(* After Disconnect or Cancel no timer, reply or effect sends /connect     *)
(* until the user clicks Connect (useDeviceRecovery.js).                   *)
THEOREM DisconnectHolds == Spec => ManualDisconnectHolds
<1>1. IInv /\ [Next]_vars => [ConnectSent => ~revoked']_vars
  BY StepSafe
<1> QED BY <1>1, PageIsSound, PTL DEF Spec, ManualDisconnectHolds

(* Once nothing is in flight, a device shown disconnected has no transport *)
(* open in the backend, unless an attempt was given up at its timeout or   *)
(* Connect was clicked before a disconnect was answered.                   *)
THEOREM DisconnectedIsClosed == Spec => []ShownDisconnectedIsClosed
<1>1. Init => KnownInv
  BY InitKnows
<1>2. IInv /\ KnownInv /\ [Next]_vars => KnownInv'
  BY StepKnows
<1>3. IInv /\ KnownInv => ShownDisconnectedIsClosed
  <2> SUFFICES ASSUME IInv, KnownInv, Quiet, ui.state = "DISCONNECTED", ~abandoned, ~hasty, connected
               PROVE  FALSE
    BY DEF ShownDisconnectedIsClosed
  <2>1. /\ ui.out = <<>> /\ inn = <<>> /\ ui.socket = "open" /\ ~ui.pending /\ Stays(ui)
    BY DEF Quiet, Stays
  <2>2. DOMAIN (inn \o ui.out) = {}
    BY <2>1
  <2>3. Hope(inn \o ui.out, ui)
    BY <2>1, Wired DEF Known
  <2> QED BY <2>1, <2>2, <2>3 DEF Hope
<1> QED BY <1>1, <1>2, <1>3, PageIsSound, PTL DEF Spec
=============================================================================
