----------------------------- MODULE CardsProofs -----------------------------
(***************************************************************************)
(* Theorems about the control widgets for any devices, presets, slots,     *)
(* values and bounds: what makes them busy ends (BusyEnds), what they show *)
(* at rest is what their device holds (RestShowsDevice), and no trip is    *)
(* told and no toggle command sent twice (ToldAndSentOnce).                *)
(*                                                                         *)
(* Each widget has an invariant of its own, about the requests in flight:  *)
(* which of them it still listens to, what is before and behind it on the  *)
(* wire, and what the widget may show meanwhile.                           *)
(***************************************************************************)
EXTENDS Cards, SequenceTheorems, TLAPS

-----------------------------------------------------------------------------
(* The wire.                                                               *)

\* What is left of a wire when its request i has been taken off it.
LEMMA Removed ==
  ASSUME NEW S, NEW s \in Seq(S), NEW i \in DOMAIN s
  PROVE  /\ RemoveAt(s, i) \in Seq(S)
         /\ Len(RemoveAt(s, i)) = Len(s) - 1
         /\ DOMAIN RemoveAt(s, i) = 1..(Len(s) - 1)
         /\ \A k \in 1..(Len(s) - 1) : RemoveAt(s, i)[k] = s[IF k < i THEN k ELSE k + 1]
<1>1. PICK a, b : a = SubSeq(s, 1, i - 1) /\ b = SubSeq(s, i + 1, Len(s))
  OBVIOUS
<1>2. i \in 1..Len(s) /\ Len(s) \in Nat
  OBVIOUS
<1>3. a \in Seq(S) /\ Len(a) = i - 1 /\ \A k \in 1..(i - 1) : a[k] = s[k]
  BY <1>1, <1>2
<1>4. b \in Seq(S) /\ Len(b) = Len(s) - i /\ \A k \in 1..(Len(s) - i) : b[k] = s[k + i]
  BY <1>1, <1>2
<1>5. RemoveAt(s, i) = a \o b
  BY <1>1 DEF RemoveAt
<1>6. /\ a \o b \in Seq(S) /\ Len(a \o b) = Len(s) - 1 /\ DOMAIN (a \o b) = 1..(Len(s) - 1)
      /\ \A k \in 1..(Len(s) - 1) : (a \o b)[k] = IF k <= i - 1 THEN a[k] ELSE b[k - (i - 1)]
  <2>1. PICK c : c = a \o b
    OBVIOUS
  <2>2. c \in Seq(S) /\ Len(c) = Len(a) + Len(b)
    BY <1>3, <1>4, <2>1, ConcatProperties
  <2>3. \A k \in 1..(Len(a) + Len(b)) : c[k] = IF k <= Len(a) THEN a[k] ELSE b[k - Len(a)]
    BY <1>3, <1>4, <2>1, ConcatProperties
  <2>4. Len(a) + Len(b) = Len(s) - 1 /\ Len(a) = i - 1
    BY <1>2, <1>3, <1>4
  <2> QED BY <2>1, <2>2, <2>3, <2>4
<1>7. ASSUME NEW k \in 1..(Len(s) - 1) PROVE (a \o b)[k] = s[IF k < i THEN k ELSE k + 1]
  <2>1. CASE k < i BY <1>2, <1>3, <1>6, <2>1
  <2>2. CASE ~(k < i)
    <3>1. (a \o b)[k] = b[k - (i - 1)] BY <1>2, <1>6, <2>2
    <3>2. k - (i - 1) \in 1..(Len(s) - i) BY <1>2, <2>2
    <3>3. b[k - (i - 1)] = s[(k - (i - 1)) + i] BY <1>4, <3>2
    <3> QED BY <1>2, <2>2, <3>1, <3>3
  <2> QED BY <2>1, <2>2
<1> QED BY <1>5, <1>6, <1>7

\* A wire whose requests have been changed one by one.
LEMMA Mapped ==
  ASSUME NEW S, NEW T, NEW s \in Seq(S), NEW g, g = [i \in DOMAIN s |-> g[i]], \A i \in DOMAIN s : g[i] \in T
  PROVE  g \in Seq(T) /\ Len(g) = Len(s) /\ DOMAIN g = DOMAIN s
<1>1. Len(s) \in Nat /\ DOMAIN s = 1..Len(s)
  OBVIOUS
<1>2. g \in [1..Len(s) -> T]
  BY <1>1
<1> QED BY <1>1, <1>2

\* A wire one of whose requests has been changed.
LEMMA Altered ==
  ASSUME NEW S, NEW s \in Seq(S), NEW k \in DOMAIN s, NEW q \in S, NEW g, g = [s EXCEPT ![k] = q]
  PROVE  /\ g \in Seq(S) /\ Len(g) = Len(s) /\ DOMAIN g = DOMAIN s /\ g[k] = q
         /\ \A i \in DOMAIN s : i # k => g[i] = s[i]
OBVIOUS


\* Wires whose requests are of no set that matters.
Wire(s) == s \in Seq({s[i] : i \in DOMAIN s})

LEMMA WireOf ==
  ASSUME NEW S, NEW s \in Seq(S)
  PROVE  Wire(s)
BY DEF Wire

\* q is s without its request i, s with r behind it.
Taken(s, i, q) ==
  /\ Wire(q) /\ Len(s) \in Nat /\ DOMAIN s = 1..Len(s)
  /\ Len(q) = Len(s) - 1 /\ DOMAIN q = 1..(Len(s) - 1)
  /\ \A k \in DOMAIN q : q[k] = s[IF k < i THEN k ELSE k + 1]
  /\ \A k \in DOMAIN q : \E j \in DOMAIN s : j # i /\ q[k] = s[j]
  /\ \A j \in DOMAIN s : j # i => \E k \in DOMAIN q : q[k] = s[j]
Asked(s, r, q) ==
  /\ Wire(q) /\ Len(s) \in Nat /\ DOMAIN s = 1..Len(s)
  /\ Len(q) = Len(s) + 1 /\ DOMAIN q = 1..(Len(s) + 1)
  /\ q[Len(s) + 1] = r
  /\ \A k \in DOMAIN s : k \in DOMAIN q /\ q[k] = s[k]

LEMMA WireTaken ==
  ASSUME NEW s, Wire(s), NEW i \in DOMAIN s, NEW q, q = RemoveAt(s, i)
  PROVE  Taken(s, i, q)
<1>1. PICK S : S = {s[k] : k \in DOMAIN s}
  OBVIOUS
<1>2. s \in Seq(S) /\ Len(s) \in Nat /\ DOMAIN s = 1..Len(s)
  BY <1>1 DEF Wire
<1>3. q \in Seq(S) /\ Len(q) = Len(s) - 1 /\ DOMAIN q = 1..(Len(s) - 1)
  BY <1>2, Removed
<1>4. \A k \in DOMAIN q : q[k] = s[IF k < i THEN k ELSE k + 1]
  BY <1>2, <1>3, Removed
<1>5. Wire(q)
  BY <1>3, WireOf
<1>6. \A k \in DOMAIN q : \E j \in DOMAIN s : j # i /\ q[k] = s[j]
  <2> SUFFICES ASSUME NEW k \in DOMAIN q PROVE \E j \in DOMAIN s : j # i /\ q[k] = s[j]
    OBVIOUS
  <2>1. PICK j : j = (IF k < i THEN k ELSE k + 1)
    OBVIOUS
  <2>2. j \in DOMAIN s /\ j # i /\ q[k] = s[j]
    BY <1>2, <1>3, <1>4, <2>1
  <2> QED BY <2>2
<1>7. \A j \in DOMAIN s : j # i => \E k \in DOMAIN q : q[k] = s[j]
  <2> SUFFICES ASSUME NEW j \in DOMAIN s, j # i PROVE \E k \in DOMAIN q : q[k] = s[j]
    OBVIOUS
  <2>1. PICK k : k = (IF j < i THEN j ELSE j - 1)
    OBVIOUS
  <2>2. k \in DOMAIN q /\ q[k] = s[j]
    BY <1>2, <1>3, <1>4, <2>1
  <2> QED BY <2>2
<1> QED BY <1>2, <1>3, <1>4, <1>5, <1>6, <1>7 DEF Taken

LEMMA WireAsked ==
  ASSUME NEW s, Wire(s), NEW r, NEW q, q = Append(s, r)
  PROVE  Asked(s, r, q)
<1>1. PICK S : S = {s[k] : k \in DOMAIN s} \union {r}
  OBVIOUS
<1>2. s \in Seq(S) /\ Len(s) \in Nat /\ DOMAIN s = 1..Len(s) /\ r \in S
  <2>1. s \in Seq({s[k] : k \in DOMAIN s}) BY DEF Wire
  <2>2. \A k \in DOMAIN s : s[k] \in S BY <1>1
  <2> QED BY <1>1, <2>1, <2>2
<1>3. q \in Seq(S) /\ Len(q) = Len(s) + 1 /\ DOMAIN q = 1..(Len(s) + 1)
  BY <1>2, AppendProperties
<1>4. q[Len(s) + 1] = r /\ \A k \in 1..Len(s) : q[k] = s[k]
  BY <1>2, AppendProperties
<1>5. Wire(q)
  BY <1>3, WireOf
<1> QED BY <1>2, <1>3, <1>4, <1>5 DEF Asked

LEMMA WireMapped ==
  ASSUME NEW s, Wire(s), NEW g, g = [i \in DOMAIN s |-> g[i]]
  PROVE  Wire(g) /\ Len(g) = Len(s) /\ DOMAIN g = DOMAIN s /\ Len(s) \in Nat /\ DOMAIN s = 1..Len(s)
<1>1. Len(s) \in Nat /\ DOMAIN s = 1..Len(s)
  BY DEF Wire
<1>2. PICK T : T = {g[i] : i \in DOMAIN s}
  OBVIOUS
<1>3. g \in [1..Len(s) -> T]
  BY <1>1, <1>2
<1>4. g \in Seq(T) /\ Len(g) = Len(s) /\ DOMAIN g = DOMAIN s
  BY <1>1, <1>3
<1> QED BY <1>1, <1>4, WireOf
-----------------------------------------------------------------------------
(* The toggle.                                                             *)

ToggleRequest ==
  [kind : {"check", "write"}, dev : Supplies, then : {"show", "change", "verify"},
   target : {"on", "off", "unknown"}, auto : BOOLEAN, cur : BOOLEAN]
ToggleStatus == [state : {"on", "off", "unknown"}, busy : BOOLEAN, error : BOOLEAN]
ToggleCard ==
  [config : [dev : Supplies, auto : BOOLEAN], up : SUBSET Supplies, due : BOOLEAN, wire : Seq(ToggleRequest),
   status : ToggleStatus, polled : {"none", "on", "off", "unknown"}, dev : [Supplies -> {"on", "off"}]]

\* A widget is busy while the one request is on its way whose end it notices.
ToggleBusy(x) ==
  /\ \A i, j \in DOMAIN x.wire : x.wire[i].cur /\ x.wire[j].cur => i = j
  /\ x.status.busy <=> \E i \in DOMAIN x.wire : x.wire[i].cur
\* It is for the widget's device; nothing was asked after it, unless it is the
\* automatic check, which is shared.
ToggleAims(x) ==
  \A i \in DOMAIN x.wire : x.wire[i].cur =>
    /\ ~x.due => x.wire[i].dev = x.config.dev
    /\ ~x.wire[i].auto => i = Len(x.wire)
\* A command is asked for when nothing else is on its way.
ToggleWrites(x) ==
  \A i \in DOMAIN x.wire :
    /\ x.wire[i].kind = "write" => i = 1 /\ x.dev[x.wire[i].dev] # x.wire[i].target
    /\ x.wire[i].kind = "write" \/ x.wire[i].then = "change" => ~x.wire[i].auto /\ x.wire[i].target \in {"on", "off"}
\* At rest no command is on its way.
ToggleRest(x) ==
  ~x.due /\ x.config.dev \in x.up /\ ~x.config.auto /\ ~x.status.busy /\ ~x.status.error =>
    /\ x.status.state = x.dev[x.config.dev]
    /\ \A i \in DOMAIN x.wire : x.wire[i].kind # "write"
ToggleInv(x) == x \in ToggleCard /\ ToggleBusy(x) /\ ToggleAims(x) /\ ToggleWrites(x) /\ ToggleRest(x)

LEMMA ToggleTook ==
  ASSUME NEW x \in ToggleCard, NEW i \in DOMAIN x.wire
  PROVE  LET y == Toggle!Took(x, i) IN
         /\ y \in ToggleCard
         /\ y.wire = RemoveAt(x.wire, i)
         /\ y.config = x.config /\ y.up = x.up /\ y.due = x.due /\ y.status = x.status /\ y.dev = x.dev
<1>1. RemoveAt(x.wire, i) \in Seq(ToggleRequest)
  BY Removed DEF ToggleCard
<1>2. Toggle!Took(x, i) = [x EXCEPT !.wire = RemoveAt(x.wire, i)]
  BY DEF Toggle!Took, RemoveAt
<1> QED BY <1>1, <1>2 DEF ToggleCard

\* r, but outdated.
ToggleLike(v, r) ==
  /\ v \in ToggleRequest
  /\ v.kind = r.kind /\ v.dev = r.dev /\ v.then = r.then /\ v.target = r.target /\ v.auto = r.auto

LEMMA ToggleDropped ==
  ASSUME NEW r \in ToggleRequest
  PROVE  /\ ToggleLike([r EXCEPT !.cur = FALSE], r) /\ ~[r EXCEPT !.cur = FALSE].cur
         /\ ToggleLike([r EXCEPT !.cur = TRUE], r) /\ [r EXCEPT !.cur = TRUE].cur
BY DEF ToggleRequest, ToggleLike

LEMMA ToggleOutdated ==
  ASSUME NEW x \in ToggleCard
  PROVE  LET y == Toggle!Outdated(x) IN
         /\ y \in ToggleCard
         /\ Len(y.wire) = Len(x.wire) /\ DOMAIN y.wire = DOMAIN x.wire
         /\ \A i \in DOMAIN x.wire : ToggleLike(y.wire[i], x.wire[i]) /\ ~y.wire[i].cur
         /\ y.config = x.config /\ y.up = x.up /\ y.due = x.due /\ y.status = x.status /\ y.dev = x.dev
<1>1. PICK g : g = [i \in DOMAIN x.wire |-> [x.wire[i] EXCEPT !.cur = FALSE]]
  OBVIOUS
<1>2. x.wire \in Seq(ToggleRequest)
  BY DEF ToggleCard
<1>3. \A i \in DOMAIN x.wire : g[i] \in ToggleRequest /\ ToggleLike(g[i], x.wire[i]) /\ ~g[i].cur
  <2> SUFFICES ASSUME NEW i \in DOMAIN x.wire
               PROVE  g[i] \in ToggleRequest /\ ToggleLike(g[i], x.wire[i]) /\ ~g[i].cur
    OBVIOUS
  <2>1. PICK r : r = x.wire[i]
    OBVIOUS
  <2>2. r \in ToggleRequest /\ g[i] = [r EXCEPT !.cur = FALSE]
    BY <1>1, <1>2, <2>1
  <2>3. ToggleLike([r EXCEPT !.cur = FALSE], r) /\ ~[r EXCEPT !.cur = FALSE].cur
    BY <2>2, ToggleDropped
  <2> QED BY <2>1, <2>2, <2>3 DEF ToggleLike
<1>4. g \in Seq(ToggleRequest) /\ Len(g) = Len(x.wire) /\ DOMAIN g = DOMAIN x.wire
  <2>1. g = [i \in DOMAIN x.wire |-> g[i]] BY <1>1
  <2> QED BY <1>2, <1>3, <2>1, Mapped
<1>5. Toggle!Outdated(x) = [x EXCEPT !.wire = g]
  BY <1>1 DEF Toggle!Outdated, ToggleCard
<1>6. LET y == [x EXCEPT !.wire = g] IN
         /\ y \in ToggleCard /\ y.wire = g
         /\ y.config = x.config /\ y.up = x.up /\ y.due = x.due /\ y.status = x.status /\ y.dev = x.dev
  BY <1>4 DEF ToggleCard
<1> QED BY <1>3, <1>4, <1>5, <1>6

LEMMA ToggleSetBusy ==
  ASSUME NEW x \in ToggleCard
  PROVE  LET y == Toggle!Busy(x) IN
         /\ y \in ToggleCard /\ y.status.busy
         /\ y.wire = x.wire /\ y.config = x.config /\ y.up = x.up /\ y.due = x.due /\ y.dev = x.dev
BY DEF Toggle!Busy, ToggleCard, ToggleStatus

LEMMA ToggleShow ==
  ASSUME NEW x \in ToggleCard, NEW s \in {"on", "off", "unknown"}, NEW failed \in BOOLEAN
  PROVE  LET y == Toggle!Show(x, s, failed) IN
         /\ y \in ToggleCard /\ ~y.status.busy /\ y.status.state = s /\ y.status.error = failed
         /\ y.wire = x.wire /\ y.config = x.config /\ y.up = x.up /\ y.due = x.due /\ y.dev = x.dev
BY DEF Toggle!Show, ToggleCard, ToggleStatus

LEMMA ToggleWritten ==
  ASSUME NEW x \in ToggleCard, NEW f \in ToggleRequest, f.target \in {"on", "off"}
  PROVE  LET y == Toggle!Written(x, f) IN
         /\ y \in ToggleCard /\ y.dev = [x.dev EXCEPT ![f.dev] = f.target]
         /\ y.wire = x.wire /\ y.config = x.config /\ y.up = x.up /\ y.due = x.due /\ y.status = x.status
BY DEF Toggle!Written, ToggleCard, ToggleRequest

LEMMA ToggleAsk ==
  ASSUME NEW x \in ToggleCard, NEW r \in ToggleRequest
  PROVE  LET y == Toggle!Ask(x, r) IN
         /\ y \in ToggleCard /\ y.wire = Append(x.wire, r) /\ y.status = x.status
         /\ y.config = x.config /\ y.up = x.up /\ y.due = x.due /\ y.dev = x.dev
<1>1. Append(x.wire, r) \in Seq(ToggleRequest)
  BY AppendProperties DEF ToggleCard
<1> QED BY <1>1 DEF Toggle!Ask, ToggleCard

\* A request is asked for, and everything before it is outdated.
LEMMA ToggleAsked ==
  ASSUME NEW x \in ToggleCard, NEW r \in ToggleRequest, r.cur, ToggleWrites(x),
         ~x.due => r.dev = x.config.dev,
         r.kind = "write" => x.wire = <<>> /\ x.dev[r.dev] # r.target,
         r.kind = "write" \/ r.then = "change" => ~r.auto /\ r.target \in {"on", "off"},
         NEW y, y = Toggle!Ask(Toggle!Busy(Toggle!Outdated(x)), r)
  PROVE  ToggleInv(y)
<1>1. PICK u : u = Toggle!Busy(Toggle!Outdated(x))
  OBVIOUS
<1>2. u \in ToggleCard /\ u.status.busy /\ u.config = x.config /\ u.up = x.up /\ u.due = x.due /\ u.dev = x.dev
  BY <1>1, ToggleOutdated, ToggleSetBusy
<1>3. Len(u.wire) = Len(x.wire) /\ DOMAIN u.wire = DOMAIN x.wire
      /\ \A i \in DOMAIN x.wire : ToggleLike(u.wire[i], x.wire[i]) /\ ~u.wire[i].cur
  BY <1>1, ToggleOutdated, ToggleSetBusy
<1>4. u.wire \in Seq(ToggleRequest) /\ x.wire \in Seq(ToggleRequest)
  BY <1>2 DEF ToggleCard
<1>5. y = Toggle!Ask(u, r)
  BY <1>1
<1>6. /\ y \in ToggleCard /\ y.wire = Append(u.wire, r) /\ y.status = u.status /\ y.config = x.config /\ y.up = x.up
      /\ y.due = x.due /\ y.dev = x.dev
  BY <1>2, <1>5, ToggleAsk
<1>7. /\ Len(Append(u.wire, r)) = Len(u.wire) + 1
      /\ \A i \in 1..Len(u.wire) : Append(u.wire, r)[i] = u.wire[i]
      /\ Append(u.wire, r)[Len(u.wire) + 1] = r
  BY <1>4, AppendProperties
<1>8. DOMAIN y.wire = 1..(Len(x.wire) + 1) /\ Len(y.wire) = Len(x.wire) + 1 /\ Len(x.wire) \in Nat
      /\ DOMAIN x.wire = 1..Len(x.wire)
  BY <1>3, <1>4, <1>6, <1>7
<1>9. y.wire[Len(x.wire) + 1] = r
  BY <1>3, <1>6, <1>7
<1>10. \A i \in 1..Len(x.wire) : ~y.wire[i].cur /\ ToggleLike(y.wire[i], x.wire[i])
  BY <1>3, <1>6, <1>7, <1>8
<1>11. ToggleBusy(y)
  BY <1>2, <1>6, <1>8, <1>9, <1>10 DEF ToggleBusy
<1>12. ToggleAims(y)
  BY <1>6, <1>8, <1>9, <1>10 DEF ToggleAims
<1>13. ToggleWrites(y)
  BY <1>6, <1>8, <1>9, <1>10 DEF ToggleWrites, ToggleLike
<1>14. ToggleRest(y)
  BY <1>2, <1>6 DEF ToggleRest
<1> QED BY <1>6, <1>11, <1>12, <1>13, <1>14 DEF ToggleInv


\* An answer takes its request off the wire.
LEMMA ToggleTaken ==
  ASSUME NEW x, ToggleInv(x), NEW i \in DOMAIN x.wire, NEW y, y = Toggle!Took(x, i)
  PROVE  /\ y \in ToggleCard /\ ToggleWrites(y)
         /\ y.config = x.config /\ y.up = x.up /\ y.due = x.due /\ y.status = x.status /\ y.dev = x.dev
         /\ x.wire[i].cur => \A j \in DOMAIN y.wire : ~y.wire[j].cur
         /\ ~x.wire[i].cur => ToggleInv(y)
         /\ x.wire[i].kind = "write" => \A j \in DOMAIN y.wire : y.wire[j].kind # "write"
         /\ x.wire[i].cur /\ ~x.wire[i].auto /\ i = 1 => y.wire = <<>>
         /\ i = 1 => \A j \in DOMAIN y.wire : y.wire[j].kind # "write"
<1>1. /\ y \in ToggleCard /\ y.wire = RemoveAt(x.wire, i)
      /\ y.config = x.config /\ y.up = x.up /\ y.due = x.due /\ y.status = x.status /\ y.dev = x.dev
  BY ToggleTook DEF ToggleInv
<1>2. x.wire \in Seq(ToggleRequest) /\ y.wire \in Seq(ToggleRequest)
  BY <1>1 DEF ToggleInv, ToggleCard
<1>3. /\ Len(y.wire) = Len(x.wire) - 1 /\ DOMAIN y.wire = 1..(Len(x.wire) - 1)
      /\ \A k \in DOMAIN y.wire : y.wire[k] = x.wire[IF k < i THEN k ELSE k + 1]
  <2>1. PICK q : q = RemoveAt(x.wire, i)
    OBVIOUS
  <2>2. Len(q) = Len(x.wire) - 1 /\ DOMAIN q = 1..(Len(x.wire) - 1)
    BY <1>2, <2>1, Removed
  <2>3. \A k \in 1..(Len(x.wire) - 1) : q[k] = x.wire[IF k < i THEN k ELSE k + 1]
    BY <1>2, <2>1, Removed
  <2> QED BY <1>1, <2>1, <2>2, <2>3
<1>4. i \in 1..Len(x.wire) /\ Len(x.wire) \in Nat /\ DOMAIN x.wire = 1..Len(x.wire)
  BY <1>2
<1>5. \A k \in DOMAIN y.wire : /\ k < i => y.wire[k] = x.wire[k] /\ k \in DOMAIN x.wire
                               /\ ~(k < i) => y.wire[k] = x.wire[k + 1] /\ k + 1 \in DOMAIN x.wire
  BY <1>3, <1>4
<1>6. ToggleBusy(x) /\ ToggleAims(x) /\ ToggleWrites(x) /\ ToggleRest(x)
  BY DEF ToggleInv
<1>7. ToggleWrites(y)
  <2> SUFFICES ASSUME NEW j \in DOMAIN y.wire
               PROVE  /\ y.wire[j].kind = "write" => j = 1 /\ y.dev[y.wire[j].dev] # y.wire[j].target
                      /\ y.wire[j].kind = "write" \/ y.wire[j].then = "change"
                           => ~y.wire[j].auto /\ y.wire[j].target \in {"on", "off"}
    BY DEF ToggleWrites
  <2>1. CASE j < i
    BY <1>1, <1>5, <1>6, <2>1 DEF ToggleWrites
  <2>2. CASE ~(j < i)
    <3>1. x.wire[j + 1].kind # "write"
      BY <1>3, <1>4, <1>5, <1>6, <2>2 DEF ToggleWrites
    <3> QED BY <1>1, <1>5, <1>6, <2>2, <3>1 DEF ToggleWrites
  <2> QED BY <2>1, <2>2
<1>8. ASSUME x.wire[i].cur, NEW j \in DOMAIN y.wire PROVE ~y.wire[j].cur
  BY <1>3, <1>4, <1>5, <1>6, <1>8 DEF ToggleBusy
<1>9. ASSUME ~x.wire[i].cur PROVE ToggleInv(y)
  <2>1. \A k \in DOMAIN x.wire : x.wire[k].cur =>
          IF k < i THEN k \in DOMAIN y.wire /\ y.wire[k] = x.wire[k]
          ELSE k - 1 \in DOMAIN y.wire /\ y.wire[k - 1] = x.wire[k]
    <3> SUFFICES ASSUME NEW k \in DOMAIN x.wire, x.wire[k].cur
                 PROVE  IF k < i THEN k \in DOMAIN y.wire /\ y.wire[k] = x.wire[k]
                        ELSE k - 1 \in DOMAIN y.wire /\ y.wire[k - 1] = x.wire[k]
      OBVIOUS
    <3>1. k \in Nat /\ k # i
      BY <1>4, <1>9
    <3>2. CASE k < i
      <4>1. k \in DOMAIN y.wire BY <1>3, <1>4, <3>1, <3>2
      <4> QED BY <1>5, <3>2, <4>1
    <3>3. CASE ~(k < i)
      <4>1. k - 1 \in DOMAIN y.wire /\ ~(k - 1 < i) /\ (k - 1) + 1 = k BY <1>3, <1>4, <3>1, <3>3
      <4> QED BY <1>5, <3>3, <4>1
    <3> QED BY <3>2, <3>3
  <2>2. ToggleBusy(y)
    <3>1. ASSUME NEW a \in DOMAIN y.wire, NEW b \in DOMAIN y.wire, y.wire[a].cur, y.wire[b].cur PROVE a = b
      <4>1. PICK k, l : k = (IF a < i THEN a ELSE a + 1) /\ l = (IF b < i THEN b ELSE b + 1)
        OBVIOUS
      <4>2. k \in DOMAIN x.wire /\ l \in DOMAIN x.wire /\ y.wire[a] = x.wire[k] /\ y.wire[b] = x.wire[l]
        BY <1>3, <1>4, <4>1
      <4>3. k = l
        BY <1>6, <3>1, <4>2 DEF ToggleBusy
      <4> QED BY <1>3, <1>4, <4>1, <4>3
    <3>2. (\E k \in DOMAIN y.wire : y.wire[k].cur) => x.status.busy
      BY <1>5, <1>6 DEF ToggleBusy
    <3>3. x.status.busy => \E k \in DOMAIN y.wire : y.wire[k].cur
      BY <1>6, <2>1 DEF ToggleBusy
    <3> QED BY <1>1, <3>1, <3>2, <3>3 DEF ToggleBusy
  <2>3. ToggleAims(y)
    BY <1>1, <1>3, <1>4, <1>5, <1>6, <1>9 DEF ToggleAims
  <2>4. ToggleRest(y)
    BY <1>1, <1>5, <1>6 DEF ToggleRest
  <2> QED BY <1>1, <1>7, <2>2, <2>3, <2>4 DEF ToggleInv
<1>10. ASSUME x.wire[i].kind = "write" \/ i = 1, NEW j \in DOMAIN y.wire PROVE y.wire[j].kind # "write"
  BY <1>3, <1>4, <1>5, <1>6, <1>10 DEF ToggleWrites
<1>11. ASSUME x.wire[i].cur, ~x.wire[i].auto, i = 1 PROVE y.wire = <<>>
  BY <1>2, <1>3, <1>4, <1>6, <1>11 DEF ToggleAims
<1> QED BY <1>1, <1>7, <1>8, <1>9, <1>10, <1>11

\* A status is shown when nothing current is on its way and no command is,
\* or as one that failed.
LEMMA ToggleShown ==
  ASSUME NEW x \in ToggleCard, ToggleWrites(x), \A i \in DOMAIN x.wire : ~x.wire[i].cur,
         NEW s \in {"on", "off", "unknown"}, NEW failed \in BOOLEAN,
         \/ failed
         \/ x.due
         \/ x.config.auto
         \/ s = x.dev[x.config.dev] /\ \A i \in DOMAIN x.wire : x.wire[i].kind # "write",
         NEW y, y = Toggle!Show(x, s, failed)
  PROVE  /\ ToggleInv(y) /\ y.wire = x.wire /\ y.config = x.config /\ y.due = x.due /\ y.dev = x.dev
<1>1. /\ y \in ToggleCard /\ ~y.status.busy /\ y.status.state = s /\ y.status.error = failed
      /\ y.wire = x.wire /\ y.config = x.config /\ y.up = x.up /\ y.due = x.due /\ y.dev = x.dev
  BY ToggleShow
<1>2. ToggleBusy(y) /\ ToggleAims(y)
  BY <1>1 DEF ToggleBusy, ToggleAims
<1>3. ToggleWrites(y)
  BY <1>1 DEF ToggleWrites
<1>4. ToggleRest(y)
  BY <1>1 DEF ToggleRest
<1> QED BY <1>1, <1>2, <1>3, <1>4 DEF ToggleInv

-----------------------------------------------------------------------------
\* A click.
LEMMA ToggleClick ==
  ASSUME ToggleInv(w), Toggle!Click
  PROVE  ToggleInv(w')
<1>1. ~w.due /\ w \in ToggleCard /\ ToggleWrites(w) /\ w.config.dev \in Supplies
  BY DEF Toggle!Click, ToggleInv, ToggleCard
<1>2. CASE w.status.state = "unknown"
  <2>1. PICK r : r = Toggle!Request("check", w.config.dev, "show", "unknown")
    OBVIOUS
  <2>2. r \in ToggleRequest /\ r.cur /\ r.dev = w.config.dev /\ r.kind = "check" /\ r.then = "show"
    BY <1>1, <2>1 DEF Toggle!Request, ToggleRequest
  <2>3. w' = Toggle!Ask(Toggle!Busy(Toggle!Outdated(w)), r)
    BY <1>2, <2>1 DEF Toggle!Click, Toggle!Check
  <2> QED BY <1>1, <2>2, <2>3, ToggleAsked
<1>3. CASE w.status.state # "unknown"
  <2>1. PICK r : r = Toggle!Request("check", w.config.dev, "change", Toggle!Other(w.status.state))
    OBVIOUS
  <2>2. Toggle!Other(w.status.state) \in {"on", "off"}
    BY DEF Toggle!Other
  <2>3. /\ r \in ToggleRequest /\ r.cur /\ r.dev = w.config.dev /\ r.kind = "check" /\ ~r.auto
        /\ r.target \in {"on", "off"}
    BY <1>1, <2>1, <2>2 DEF Toggle!Request, ToggleRequest
  <2>4. w' = Toggle!Ask(Toggle!Busy(Toggle!Outdated(w)), r)
    BY <1>3, <2>1 DEF Toggle!Click, Toggle!Check
  <2> QED BY <1>1, <2>3, <2>4, ToggleAsked
<1> QED BY <1>2, <1>3

\* A toggle that was left as it is, but for what waits for its effects.
LEMMA ToggleStays ==
  ASSUME NEW x, ToggleInv(x), NEW y \in ToggleCard, y.wire = x.wire, y.status = x.status, y.dev = x.dev,
         \/ y.due
         \/ ~x.due /\ y.config = x.config /\ (y.config.dev \in y.up => x.config.dev \in x.up)
  PROVE  ToggleInv(y)
<1>1. ToggleBusy(y)
  BY DEF ToggleInv, ToggleBusy
<1>2. ToggleAims(y)
  BY DEF ToggleInv, ToggleAims
<1>3. ToggleWrites(y)
  BY DEF ToggleInv, ToggleWrites
<1>4. ToggleRest(y)
  BY DEF ToggleInv, ToggleRest
<1> QED BY <1>1, <1>2, <1>3, <1>4 DEF ToggleInv

\* A command that reached the device is not on its way any more.
LEMMA ToggleReached ==
  ASSUME NEW x, ToggleInv(x), NEW i \in DOMAIN x.wire, x.wire[i].kind = "write",
         NEW y, y = Toggle!Written(Toggle!Took(x, i), x.wire[i])
  PROVE  /\ y \in ToggleCard /\ ToggleWrites(y)
         /\ y.config = x.config /\ y.up = x.up /\ y.due = x.due /\ y.status = x.status
         /\ x.wire[i].cur => \A j \in DOMAIN y.wire : ~y.wire[j].cur
         /\ ~x.wire[i].cur => ToggleInv(y)
<1>1. PICK u, f : u = Toggle!Took(x, i) /\ f = x.wire[i]
  OBVIOUS
<1>2. /\ u \in ToggleCard
      /\ u.config = x.config /\ u.up = x.up /\ u.due = x.due /\ u.status = x.status
      /\ f.cur => \A j \in DOMAIN u.wire : ~u.wire[j].cur
      /\ ~f.cur => ToggleInv(u)
      /\ \A j \in DOMAIN u.wire : u.wire[j].kind # "write"
  <2>1. /\ u \in ToggleCard
        /\ u.config = x.config /\ u.up = x.up /\ u.due = x.due /\ u.status = x.status
        /\ f.cur => \A j \in DOMAIN u.wire : ~u.wire[j].cur
        /\ ~f.cur => ToggleInv(u)
    BY <1>1, ToggleTaken
  <2>2. \A j \in DOMAIN u.wire : u.wire[j].kind # "write"
    BY <1>1, ToggleTaken
  <2> QED BY <2>1, <2>2
<1>3. f \in ToggleRequest /\ f.target \in {"on", "off"}
  <2>1. x.wire \in Seq(ToggleRequest) BY DEF ToggleInv, ToggleCard
  <2> QED BY <1>1, <2>1 DEF ToggleInv, ToggleWrites
<1>4. y = Toggle!Written(u, f)
  BY <1>1
<1>5. /\ y \in ToggleCard
      /\ y.wire = u.wire /\ y.config = u.config /\ y.up = u.up /\ y.due = u.due /\ y.status = u.status
  BY <1>2, <1>3, <1>4, ToggleWritten
<1>6. ToggleWrites(y)
  <2>1. \A j \in DOMAIN y.wire : y.wire[j].kind # "write" BY <1>2, <1>5
  <2>2. ASSUME NEW j \in DOMAIN y.wire, y.wire[j].then = "change"
        PROVE  ~y.wire[j].auto /\ y.wire[j].target \in {"on", "off"}
    <3>1. ToggleWrites(u) BY <1>1, ToggleTaken
    <3> QED BY <1>5, <2>2, <3>1 DEF ToggleWrites
  <2> QED BY <2>1, <2>2 DEF ToggleWrites
<1>7. ASSUME ~f.cur PROVE ToggleInv(y)
  <2>1. ToggleInv(u) BY <1>2, <1>7
  <2>2. ToggleBusy(y) BY <1>5, <2>1 DEF ToggleInv, ToggleBusy
  <2>3. ToggleAims(y) BY <1>5, <2>1 DEF ToggleInv, ToggleAims
  <2>4. ToggleRest(y)
    <3>1. ~(~x.due /\ x.config.dev \in x.up /\ ~x.config.auto /\ ~x.status.busy /\ ~x.status.error)
      BY DEF ToggleInv, ToggleRest
    <3> QED BY <1>2, <1>5, <3>1 DEF ToggleRest
  <2> QED BY <1>5, <1>6, <2>2, <2>3, <2>4 DEF ToggleInv
<1> QED BY <1>1, <1>2, <1>5, <1>6, <1>7

LEMMA ToggleAgain ==
  ASSUME NEW x, ToggleInv(x), NEW y \in ToggleCard, y.wire = x.wire, y.status = x.status, y.dev = x.dev,
         y.due = x.due, y.config = x.config, y.up = x.up
  PROVE  ToggleInv(y)
BY DEF ToggleInv, ToggleBusy, ToggleAims, ToggleWrites, ToggleRest

LEMMA ToggleCheckAnswer ==
  ASSUME ToggleInv(w), w.wire # <<>>, w.wire[1].kind = "check",
         Toggle!CheckAnswer(Toggle!Took(w, 1), w.wire[1])
  PROVE  ToggleInv(w')
<1>1. PICK x, f : x = Toggle!Took(w, 1) /\ f = w.wire[1]
  OBVIOUS
<1>2. PICK s \in {x.dev[f.dev], "unknown"} :
        w' = IF f.cur /\ f.then = "change" THEN Toggle!Change(Toggle!Checked(x, f, s), f, s) ELSE Toggle!Checked(x, f, s)
  BY <1>1 DEF Toggle!CheckAnswer
<1>3. /\ w \in ToggleCard /\ w.wire \in Seq(ToggleRequest) /\ 1 \in DOMAIN w.wire /\ f \in ToggleRequest
      /\ ToggleAims(w) /\ ToggleWrites(w)
  <2>1. w \in ToggleCard /\ w.wire \in Seq(ToggleRequest) /\ ToggleAims(w) /\ ToggleWrites(w)
    BY DEF ToggleInv, ToggleCard
  <2> QED BY <1>1, <2>1
<1>4. /\ x \in ToggleCard /\ ToggleWrites(x)
      /\ x.config = w.config /\ x.due = w.due /\ x.dev = w.dev
      /\ f.cur => \A j \in DOMAIN x.wire : ~x.wire[j].cur
      /\ ~f.cur => ToggleInv(x)
      /\ f.cur /\ ~f.auto => x.wire = <<>>
      /\ \A j \in DOMAIN x.wire : x.wire[j].kind # "write"
  <2>1. x \in ToggleCard /\ ToggleWrites(x) /\ x.config = w.config /\ x.due = w.due /\ x.dev = w.dev
    BY <1>1, <1>3, ToggleTaken
  <2>2. /\ f.cur => \A j \in DOMAIN x.wire : ~x.wire[j].cur
        /\ ~f.cur => ToggleInv(x)
    BY <1>1, <1>3, ToggleTaken
  <2>3. /\ f.cur /\ ~f.auto => x.wire = <<>>
        /\ \A j \in DOMAIN x.wire : x.wire[j].kind # "write"
    BY <1>1, <1>3, ToggleTaken
  <2> QED BY <2>1, <2>2, <2>3
<1>5. CASE ~f.cur
  BY <1>2, <1>4, <1>5 DEF Toggle!Checked
<1>6. CASE f.cur
  <2>1. s \in {"on", "off", "unknown"}
    BY <1>2, <1>3, <1>4 DEF ToggleCard, ToggleRequest
  <2>0. PICK failed \in BOOLEAN : failed = (s = "unknown")
    OBVIOUS
  <2>2. PICK y : y = Toggle!Show(x, s, failed)
    OBVIOUS
  <2>3. failed \/ x.due \/ s = x.dev[x.config.dev]
    BY <1>1, <1>2, <1>3, <1>4, <1>6, <2>0 DEF ToggleAims
  <2>4. \A j \in DOMAIN x.wire : ~x.wire[j].cur
    BY <1>4, <1>6
  <2>6. ToggleInv(y) /\ y.wire = x.wire /\ y.config = x.config /\ y.due = x.due /\ y.dev = x.dev
    BY <1>4, <2>1, <2>2, <2>3, <2>4, ToggleShown
  <2>7. w' = IF f.then = "change" THEN Toggle!Change(y, f, s) ELSE y
    BY <1>2, <1>6, <2>0, <2>2 DEF Toggle!Checked
  <2>8. CASE f.then # "change" \/ s \in {"unknown", f.target}
    BY <2>6, <2>7, <2>8 DEF Toggle!Change
  <2>9. CASE f.then = "change" /\ s \notin {"unknown", f.target}
    <3>1. PICK r : r = Toggle!Request("write", f.dev, "verify", f.target)
      OBVIOUS
    <3>2. w' = Toggle!Ask(Toggle!Busy(Toggle!Outdated(y)), r)
      BY <2>7, <2>9, <3>1 DEF Toggle!Change
    <3>3. ~f.auto /\ f.target \in {"on", "off"}
      BY <1>1, <1>3, <2>9 DEF ToggleWrites
    <3>4. /\ r \in ToggleRequest /\ r.cur /\ r.dev = f.dev /\ ~r.auto /\ r.target = f.target
      BY <1>3, <3>1, <3>3 DEF Toggle!Request, ToggleRequest
    <3>5. ~y.due => r.dev = y.config.dev
      BY <1>1, <1>3, <1>4, <1>6, <2>6, <3>4 DEF ToggleAims
    <3>6. y.wire = <<>> /\ y.dev[r.dev] # r.target
      BY <1>2, <1>4, <1>6, <2>6, <2>9, <3>3, <3>4
    <3>7. y \in ToggleCard /\ ToggleWrites(y)
      BY <2>6 DEF ToggleInv
    <3> QED BY <3>2, <3>3, <3>4, <3>5, <3>6, <3>7, ToggleAsked
  <2> QED BY <2>8, <2>9
<1> QED BY <1>5, <1>6

LEMMA ToggleWriteAnswer ==
  ASSUME ToggleInv(w), w.wire # <<>>, w.wire[1].kind = "write",
         Toggle!WriteAnswer(Toggle!Took(w, 1), w.wire[1])
  PROVE  ToggleInv(w')
<1>1. PICK f, y : f = w.wire[1] /\ y = Toggle!Written(Toggle!Took(w, 1), f)
  OBVIOUS
<1>2. w.wire \in Seq(ToggleRequest) /\ 1 \in DOMAIN w.wire /\ f \in ToggleRequest
  <2>1. w.wire \in Seq(ToggleRequest) BY DEF ToggleInv, ToggleCard
  <2> QED BY <1>1, <2>1
<1>3. /\ y \in ToggleCard /\ ToggleWrites(y) /\ y.config = w.config /\ y.due = w.due
      /\ ~f.cur => ToggleInv(y)
  BY <1>1, <1>2, ToggleReached
<1>4. w' = IF f.cur THEN Toggle!Check(y, f.dev, "verify", f.target) ELSE y
  BY <1>1 DEF Toggle!WriteAnswer
<1>5. CASE ~f.cur BY <1>3, <1>4, <1>5
<1>6. CASE f.cur
  <2>1. PICK r : r = Toggle!Request("check", f.dev, "verify", f.target)
    OBVIOUS
  <2>2. w' = Toggle!Ask(Toggle!Busy(Toggle!Outdated(y)), r)
    BY <1>4, <1>6, <2>1 DEF Toggle!Check
  <2>3. r \in ToggleRequest /\ r.cur /\ r.dev = f.dev /\ r.kind = "check" /\ r.then = "verify"
    BY <1>2, <2>1 DEF Toggle!Request, ToggleRequest
  <2>4. ~y.due => r.dev = y.config.dev
    BY <1>1, <1>2, <1>3, <1>6, <2>3 DEF ToggleInv, ToggleAims
  <2> QED BY <1>3, <2>2, <2>3, <2>4, ToggleAsked
<1> QED BY <1>5, <1>6

LEMMA ToggleAnswer ==
  ASSUME ToggleInv(w), Toggle!Answer
  PROVE  ToggleInv(w')
<1>1. w.wire \in Seq(ToggleRequest) /\ w.wire # <<>>
  BY DEF ToggleInv, ToggleCard, Toggle!Answer
<1>2. w.wire[1] \in ToggleRequest /\ Head(w.wire) = w.wire[1]
  BY <1>1
<1>3. w.wire[1].kind \in {"check", "write"}
  BY <1>2 DEF ToggleRequest
<1>4. \/ w.wire[1].kind = "check" /\ Toggle!CheckAnswer(Toggle!Took(w, 1), w.wire[1])
      \/ w.wire[1].kind = "write" /\ Toggle!WriteAnswer(Toggle!Took(w, 1), w.wire[1])
  BY <1>2, <1>3 DEF Toggle!Answer
<1> QED BY <1>1, <1>4, ToggleCheckAnswer, ToggleWriteAnswer

LEMMA ToggleFails ==
  ASSUME ToggleInv(w), NEW i \in DOMAIN w.wire, Toggle!Fails(i)
  PROVE  ToggleInv(w')
<1>1. PICK x, f : x = Toggle!Took(w, i) /\ f = w.wire[i]
  OBVIOUS
<1>2. f \in ToggleRequest
  <2>1. w.wire \in Seq(ToggleRequest) BY DEF ToggleInv, ToggleCard
  <2> QED BY <1>1, <2>1
<1>3. /\ x \in ToggleCard /\ ToggleWrites(x)
      /\ f.cur => \A j \in DOMAIN x.wire : ~x.wire[j].cur
      /\ ~f.cur => ToggleInv(x)
  BY <1>1, ToggleTaken
<1>4. CASE f.kind = "check"
  <2>1. w' = IF f.cur THEN Toggle!Show(x, "unknown", TRUE) ELSE x
    BY <1>1, <1>4 DEF Toggle!Fails
  <2> QED BY <1>3, <2>1, ToggleShown
<1>5. CASE f.kind # "check"
  <2>1. f.kind = "write" BY <1>2, <1>5 DEF ToggleRequest
  <2>2. PICK y \in {x, Toggle!Written(x, f)} : w' = IF f.cur THEN Toggle!Show(y, Toggle!Other(f.target), TRUE) ELSE y
    BY <1>1, <1>5 DEF Toggle!Fails
  <2>3. /\ y \in ToggleCard /\ ToggleWrites(y)
        /\ f.cur => \A j \in DOMAIN y.wire : ~y.wire[j].cur
        /\ ~f.cur => ToggleInv(y)
    <3>1. CASE y = x BY <1>3, <3>1
    <3>2. CASE y = Toggle!Written(Toggle!Took(w, i), w.wire[i])
      BY <1>1, <2>1, <3>2, ToggleReached
    <3> QED BY <1>1, <2>2, <3>1, <3>2
  <2>4. Toggle!Other(f.target) \in {"on", "off", "unknown"}
    BY DEF Toggle!Other
  <2> QED BY <2>2, <2>3, <2>4, ToggleShown
<1> QED BY <1>4, <1>5

\* The automatic check that is still on its way becomes the widget's again.
LEMMA ToggleShares ==
  ASSUME NEW x \in ToggleCard, ToggleWrites(x), ~x.due, NEW k \in Toggle!Shared(x),
         NEW y, y = [Toggle!Busy(Toggle!Outdated(x)) EXCEPT !.wire[k].cur = TRUE]
  PROVE  ToggleInv(y)
<1>1. PICK u : u = Toggle!Busy(Toggle!Outdated(x))
  OBVIOUS
<1>2. u \in ToggleCard /\ u.status.busy /\ u.config = x.config /\ u.up = x.up /\ u.due = x.due /\ u.dev = x.dev
  BY <1>1, ToggleOutdated, ToggleSetBusy
<1>3. Len(u.wire) = Len(x.wire) /\ DOMAIN u.wire = DOMAIN x.wire
      /\ \A i \in DOMAIN x.wire : ToggleLike(u.wire[i], x.wire[i]) /\ ~u.wire[i].cur
  BY <1>1, ToggleOutdated, ToggleSetBusy
<1>4. k \in DOMAIN x.wire /\ x.wire[k].auto /\ x.wire[k].dev = x.config.dev /\ k \in DOMAIN u.wire
  BY <1>3 DEF Toggle!Shared
<1>5. u.wire \in Seq(ToggleRequest) BY <1>2 DEF ToggleCard
<1>6. PICK r, q : r = u.wire[k] /\ q = [r EXCEPT !.cur = TRUE]
  OBVIOUS
<1>7. r \in ToggleRequest /\ ToggleLike(q, r) /\ q.cur
  <2>1. r \in ToggleRequest BY <1>4, <1>5, <1>6
  <2>2. ToggleLike([r EXCEPT !.cur = TRUE], r) /\ [r EXCEPT !.cur = TRUE].cur BY <2>1, ToggleDropped
  <2> QED BY <1>6, <2>1, <2>2
<1>8. q \in ToggleRequest /\ q.dev = x.wire[k].dev /\ q.auto /\ ToggleLike(q, x.wire[k])
  BY <1>3, <1>4, <1>6, <1>7 DEF ToggleLike
<1>9. PICK g : g = [u.wire EXCEPT ![k] = q]
  OBVIOUS
<1>10. /\ g \in Seq(ToggleRequest) /\ Len(g) = Len(u.wire) /\ DOMAIN g = DOMAIN u.wire /\ g[k] = q
       /\ \A i \in DOMAIN u.wire : i # k => g[i] = u.wire[i]
  BY <1>4, <1>5, <1>8, <1>9, Altered
<1>11. y = [u EXCEPT !.wire = g]
  BY <1>1, <1>2, <1>6, <1>9 DEF ToggleCard
<1>12. /\ y \in ToggleCard /\ y.wire = g /\ y.status = u.status
       /\ y.config = x.config /\ y.up = x.up /\ y.due = x.due /\ y.dev = x.dev
  BY <1>2, <1>10, <1>11 DEF ToggleCard
<1>13. ToggleBusy(y)
  BY <1>2, <1>3, <1>4, <1>7, <1>10, <1>12 DEF ToggleBusy
<1>14. ToggleAims(y)
  BY <1>3, <1>4, <1>8, <1>10, <1>12 DEF ToggleAims
<1>15. \A i \in DOMAIN x.wire : ToggleLike(y.wire[i], x.wire[i])
  BY <1>3, <1>8, <1>10, <1>12
<1>16. DOMAIN y.wire = DOMAIN x.wire
  BY <1>3, <1>10, <1>12
<1>17. ToggleWrites(y)
  BY <1>12, <1>15, <1>16 DEF ToggleWrites, ToggleLike
<1>18. ToggleRest(y)
  BY <1>2, <1>12 DEF ToggleRest
<1> QED BY <1>12, <1>13, <1>14, <1>17, <1>18 DEF ToggleInv

\* Effects of a widget whose device is lost: what is on its way is forgotten.
LEMMA ToggleForgets ==
  ASSUME NEW x \in ToggleCard, ToggleWrites(x), x.config.dev \notin x.up, \A i \in DOMAIN x.wire : ~x.wire[i].cur,
         NEW y, y = Toggle!Forget([x EXCEPT !.status = Toggle!Initial])
  PROVE  ToggleInv(y)
<1>1. PICK u : u = [x EXCEPT !.status = Toggle!Initial]
  OBVIOUS
<1>2. u \in ToggleCard /\ ~u.status.busy /\ u.wire = x.wire /\ u.config = x.config /\ u.up = x.up /\ u.dev = x.dev
  BY <1>1 DEF ToggleCard, ToggleStatus, Toggle!Initial
<1>3. PICK g : g = [i \in DOMAIN u.wire |-> IF i \in Toggle!Shared(u) THEN [u.wire[i] EXCEPT !.auto = FALSE] ELSE u.wire[i]]
  OBVIOUS
<1>4. u.wire \in Seq(ToggleRequest) BY <1>2 DEF ToggleCard
<1>5. \A i \in DOMAIN u.wire :
        /\ g[i] \in ToggleRequest /\ g[i].kind = u.wire[i].kind /\ g[i].dev = u.wire[i].dev /\ g[i].then = u.wire[i].then
        /\ g[i].target = u.wire[i].target /\ g[i].cur = u.wire[i].cur /\ (~u.wire[i].auto => ~g[i].auto)
  <2> SUFFICES ASSUME NEW i \in DOMAIN u.wire
      PROVE
        /\ g[i] \in ToggleRequest /\ g[i].kind = u.wire[i].kind /\ g[i].dev = u.wire[i].dev /\ g[i].then = u.wire[i].then
        /\ g[i].target = u.wire[i].target /\ g[i].cur = u.wire[i].cur /\ (~u.wire[i].auto => ~g[i].auto)
    OBVIOUS
  <2>1. PICK r : r = u.wire[i]
    OBVIOUS
  <2>2. r \in ToggleRequest BY <1>4, <2>1
  <2>3. g[i] = r \/ g[i] = [r EXCEPT !.auto = FALSE]
    BY <1>3, <2>1
  <2>4. CASE g[i] = r BY <2>1, <2>2, <2>4
  <2>5. CASE g[i] = [r EXCEPT !.auto = FALSE] BY <2>1, <2>2, <2>5 DEF ToggleRequest
  <2> QED BY <2>3, <2>4, <2>5
<1>6. g \in Seq(ToggleRequest) /\ Len(g) = Len(u.wire) /\ DOMAIN g = DOMAIN u.wire
  <2>1. g = [i \in DOMAIN u.wire |-> g[i]] BY <1>3
  <2> QED BY <1>4, <1>5, <2>1, Mapped
<1>7. y = [u EXCEPT !.wire = g]
  BY <1>1, <1>2, <1>3 DEF Toggle!Forget, ToggleCard
<1>8. /\ y \in ToggleCard /\ y.wire = g /\ y.status = u.status /\ y.config = x.config /\ y.up = x.up /\ y.dev = x.dev
  BY <1>2, <1>6, <1>7 DEF ToggleCard
<1>9. ToggleBusy(y) /\ ToggleAims(y)
  BY <1>2, <1>5, <1>6, <1>8 DEF ToggleBusy, ToggleAims
<1>10. ToggleWrites(y)
  BY <1>2, <1>5, <1>6, <1>8 DEF ToggleWrites
<1>11. ToggleRest(y)
  BY <1>8 DEF ToggleRest
<1> QED BY <1>8, <1>9, <1>10, <1>11 DEF ToggleInv

LEMMA ToggleRunEffects ==
  ASSUME ToggleInv(w), Toggle!RunEffects
  PROVE  ToggleInv(w')
<1>1. PICK u, x : u = [w EXCEPT !.due = FALSE] /\ x = Toggle!Outdated(u)
  OBVIOUS
<1>2. u \in ToggleCard /\ ~u.due /\ u.wire = w.wire /\ u.config = w.config /\ u.up = w.up /\ u.dev = w.dev
  BY <1>1 DEF ToggleInv, ToggleCard
<1>3. /\ x \in ToggleCard /\ ~x.due /\ x.config = w.config /\ x.up = w.up /\ x.dev = w.dev
      /\ DOMAIN x.wire = DOMAIN w.wire
      /\ \A i \in DOMAIN w.wire : ToggleLike(x.wire[i], w.wire[i]) /\ ~x.wire[i].cur
  <2>1. x \in ToggleCard /\ ~x.due /\ x.config = w.config /\ x.up = w.up /\ x.dev = w.dev
    BY <1>1, <1>2, ToggleOutdated
  <2>2. /\ DOMAIN x.wire = DOMAIN w.wire
        /\ \A i \in DOMAIN w.wire : ToggleLike(x.wire[i], w.wire[i]) /\ ~x.wire[i].cur
    BY <1>1, <1>2, ToggleOutdated
  <2> QED BY <2>1, <2>2
<1>4. ToggleWrites(x)
  BY <1>3 DEF ToggleInv, ToggleWrites, ToggleLike
<1>5. w' = IF Toggle!Available(w) THEN Toggle!AutoCheck(x) ELSE Toggle!Forget([x EXCEPT !.status = Toggle!Initial])
  BY <1>1 DEF Toggle!RunEffects
<1>6. CASE ~Toggle!Available(w)
  BY <1>3, <1>4, <1>5, <1>6, ToggleForgets DEF Toggle!Available
<1>7. CASE Toggle!Available(w) /\ Toggle!Shared(x) # {}
  <2>1. PICK k : k = CHOOSE i \in Toggle!Shared(x) : TRUE
    OBVIOUS
  <2>2. k \in Toggle!Shared(x) BY <1>7, <2>1
  <2>3. w' = [Toggle!Busy(Toggle!Outdated(x)) EXCEPT !.wire[k].cur = TRUE]
    BY <1>5, <1>7, <2>1 DEF Toggle!AutoCheck
  <2> QED BY <1>3, <1>4, <2>2, <2>3, ToggleShares
<1>8. CASE Toggle!Available(w) /\ Toggle!Shared(x) = {}
  <2>1. PICK r : r = [Toggle!Request("check", x.config.dev, "show", "unknown") EXCEPT !.auto = TRUE]
    OBVIOUS
  <2>2. w' = Toggle!Ask(Toggle!Busy(Toggle!Outdated(x)), r)
    BY <1>5, <1>8, <2>1 DEF Toggle!AutoCheck
  <2>3. x.config.dev \in Supplies BY <1>3 DEF ToggleCard
  <2>4. r \in ToggleRequest /\ r.cur /\ r.dev = x.config.dev /\ r.kind = "check" /\ r.then = "show"
    BY <2>1, <2>3 DEF Toggle!Request, ToggleRequest
  <2> QED BY <1>3, <1>4, <2>2, <2>4, ToggleAsked
<1> QED BY <1>6, <1>7, <1>8

LEMMA ToggleSnapshotEffect ==
  ASSUME ToggleInv(w), Toggle!SnapshotEffect
  PROVE  ToggleInv(w')
<1>1. /\ w \in ToggleCard /\ ToggleWrites(w) /\ w.config.auto /\ w.polled \in {"on", "off", "unknown"}
      /\ \A i \in DOMAIN w.wire : ~w.wire[i].cur
  BY DEF ToggleInv, ToggleCard, ToggleBusy, Toggle!SnapshotEffect
<1>2. w' = Toggle!Show(w, w.polled, w.polled = "unknown")
  BY DEF Toggle!SnapshotEffect
<1>3. (w.polled = "unknown") \in BOOLEAN
  OBVIOUS
<1> QED BY <1>1, <1>2, <1>3, ToggleShown

LEMMA TogglePolls ==
  ASSUME ToggleInv(w), Toggle!Polled
  PROVE  ToggleInv(w')
<1>1. w \in ToggleCard BY DEF ToggleInv
<1>2. PICK s \in {w.dev[w.config.dev], "unknown"} : w' = [w EXCEPT !.polled = s]
  BY DEF Toggle!Polled
<1>3. s \in {"on", "off", "unknown"} BY <1>1, <1>2 DEF ToggleCard
<1>4. /\ w' \in ToggleCard /\ w'.wire = w.wire /\ w'.status = w.status /\ w'.dev = w.dev
      /\ w'.due = w.due /\ w'.config = w.config /\ w'.up = w.up
  BY <1>1, <1>2, <1>3 DEF ToggleCard
<1> QED BY <1>4, ToggleAgain

\* What only renders leaves the requests alone.
LEMMA ToggleRenders ==
  ASSUME ToggleInv(w), ~w.due, Toggle!SaveSettings \/ Toggle!ConfigReloaded \/ Toggle!DeviceSwitches
  PROVE  ToggleInv(w')
<1>1. w \in ToggleCard BY DEF ToggleInv
<1>3. CASE Toggle!SaveSettings
  <2>1. PICK d \in Supplies, auto \in BOOLEAN :
          w' = [Toggle!Saved(w, [dev |-> d, auto |-> auto]) EXCEPT !.polled = IF d = w.config.dev THEN @ ELSE "none"]
    BY <1>3 DEF Toggle!SaveSettings
  <2>2. PICK c : c = [dev |-> d, auto |-> auto]
    OBVIOUS
  <2>3. /\ w' \in ToggleCard /\ w'.wire = w.wire /\ w'.status = w.status /\ w'.dev = w.dev /\ w'.due
    <3>1. w' = [[w EXCEPT !.config = c, !.due = TRUE] EXCEPT !.polled = IF d = w.config.dev THEN @ ELSE "none"]
      BY <2>1, <2>2 DEF Toggle!Saved
    <3>2. c \in [dev : Supplies, auto : BOOLEAN] BY <2>2
    <3> QED BY <1>1, <3>1, <3>2 DEF ToggleCard
  <2> QED BY <2>3, ToggleStays
<1>4. CASE Toggle!ConfigReloaded
  <2>1. w' \in ToggleCard /\ w'.wire = w.wire /\ w'.status = w.status /\ w'.dev = w.dev /\ w'.due
    BY <1>1, <1>4 DEF Toggle!ConfigReloaded, Toggle!Reloaded, ToggleCard
  <2> QED BY <2>1, ToggleStays
<1>5. CASE Toggle!DeviceSwitches
  <2>1. PICK d \in Supplies : w' = [Toggle!Switched(w, d) EXCEPT !.polled = IF d = w.config.dev THEN "none" ELSE @]
    BY <1>5 DEF Toggle!DeviceSwitches
  <2>2. PICK x : x = [w EXCEPT !.up = IF d \in @ THEN @ \ {d} ELSE @ \union {d}]
    OBVIOUS
  <2>3. /\ x \in ToggleCard /\ x.wire = w.wire /\ x.status = w.status /\ x.dev = w.dev /\ x.due = w.due
        /\ x.config = w.config
    BY <1>1, <2>2 DEF ToggleCard
  <2>4. w' = [[x EXCEPT !.due = @ \/ Toggle!Available(x) # Toggle!Available(w)]
                EXCEPT !.polled = IF d = w.config.dev THEN "none" ELSE @]
    BY <2>1, <2>2 DEF Toggle!Switched
  <2>5. PICK b \in BOOLEAN : b = (x.due \/ Toggle!Available(x) # Toggle!Available(w))
    OBVIOUS
  <2>6. /\ w' \in ToggleCard /\ w'.wire = x.wire /\ w'.status = x.status /\ w'.dev = x.dev /\ w'.due = b
        /\ w'.config = x.config /\ w'.up = x.up
    BY <2>3, <2>4, <2>5 DEF ToggleCard
  <2>7. ~b => (x.config.dev \in x.up => w.config.dev \in w.up)
    BY <2>5 DEF Toggle!Available
  <2> QED BY <1>5, <2>3, <2>6, <2>7, ToggleStays
<1> QED BY <1>3, <1>4, <1>5

LEMMA ToggleBegins ==
  ASSUME Toggle!Init
  PROVE  ToggleInv(w)
<1>1. PICK d \in Supplies, s \in {"on", "off"} :
        w = [config |-> [dev |-> d, auto |-> FALSE], up |-> {}, due |-> TRUE, wire |-> <<>>, status |-> Toggle!Initial,
             polled |-> "none", dev |-> [e \in Supplies |-> s]]
  BY DEF Toggle!Init
<1>2. w \in ToggleCard
  BY <1>1 DEF ToggleCard, ToggleStatus, Toggle!Initial
<1> QED BY <1>1, <1>2 DEF ToggleInv, ToggleBusy, ToggleAims, ToggleWrites, ToggleRest, Toggle!Initial

LEMMA ToggleSteps ==
  ASSUME ToggleInv(w), Toggle!Next
  PROVE  ToggleInv(w')
<1>1. CASE Toggle!Answer \/ Toggle!SnapshotEffect BY <1>1, ToggleAnswer, ToggleSnapshotEffect
<1>2. CASE Toggle!Polled BY <1>2, TogglePolls
<1>3. CASE ~w.due /\ (Toggle!SaveSettings \/ Toggle!ConfigReloaded \/ Toggle!DeviceSwitches)
  BY <1>3, ToggleRenders
<1>4. CASE Toggle!Click \/ Toggle!RunEffects BY <1>4, ToggleClick, ToggleRunEffects
<1>5. CASE \E i \in DOMAIN w.wire : Toggle!Fails(i)
  <2>1. PICK i \in DOMAIN w.wire : Toggle!Fails(i) BY <1>5
  <2> QED BY <2>1, ToggleFails
<1> QED BY <1>1, <1>2, <1>3, <1>4, <1>5 DEF Toggle!Next

-----------------------------------------------------------------------------
(* The value.                                                              *)

ValueRequest ==
  [kind : {"query", "write"}, dev : Supplies, set : Values \union {"--"}, cur : BOOLEAN]
Snapshot == [loading : BOOLEAN, error : BOOLEAN, value : Values \union {"--"}]
ValueFields(x) ==
  x \in [config : Supplies, up : SUBSET Supplies, due : BOOLEAN, wire : {x.wire},
         phase : {"idle", "writing", "refreshing", "error"}, pending : BOOLEAN, done : BOOLEAN,
         snap : [Supplies -> Snapshot], dev : [Supplies -> Values \union {"--"}]]
ValueCard(x) == ValueFields(x) /\ Wire(x.wire) /\ \A i \in DOMAIN x.wire : x.wire[i] \in ValueRequest

CurWrite(f) == f.kind = "write" /\ f.cur
Polls(f, d) == f.kind = "query" /\ f.dev = d /\ f.cur
\* A measurement that loads, unless of the devices in but, has its poll.
ValueOwnedBut(x, but) ==
  \A d \in Supplies \ but : x.snap[d].loading => \E i \in DOMAIN x.wire : Polls(x.wire[i], d)
ValueOwned(x) == ValueOwnedBut(x, {})
ValueWriting(x) == x.phase = "writing" => x.due \/ \E i \in DOMAIN x.wire : CurWrite(x.wire[i])
ValuePending(x) == x.pending => x.phase \in {"writing", "refreshing"}
\* The write that is not outdated is for the widget's device, and the last.
ValueWrites(x) ==
  ~x.due => \A i \in DOMAIN x.wire : CurWrite(x.wire[i]) =>
    /\ x.phase = "writing" /\ x.wire[i].dev = x.config /\ ~x.done
    /\ \A j \in DOMAIN x.wire : x.wire[j].kind = "write" => j <= i
\* Once it was acknowledged nothing is written, and what is measured is new.
ValueNoWrite(x) == \A i \in DOMAIN x.wire : x.wire[i].kind # "write"
ValueFresh(x) ==
  ~x.due /\ (x.phase = "refreshing" \/ x.done) =>
    /\ ValueNoWrite(x)
    /\ x.snap[x.config].loading \/ x.snap[x.config].error \/ x.snap[x.config].value = x.dev[x.config]
ValueInv(x) ==
  ValueCard(x) /\ ValueOwned(x) /\ ValueWriting(x) /\ ValuePending(x) /\ ValueWrites(x) /\ ValueFresh(x)

\* Everything but the wire is the same.
ValueSameBut(x, y) ==
  /\ y.config = x.config /\ y.up = x.up /\ y.due = x.due /\ y.phase = x.phase /\ y.pending = x.pending
  /\ y.done = x.done /\ y.snap = x.snap /\ y.dev = x.dev

LEMMA ValueTook ==
  ASSUME NEW x, ValueInv(x), NEW i \in DOMAIN x.wire, NEW y, y = Value!Took(x, i)
  PROVE  /\ ValueCard(y) /\ ValueSameBut(x, y) /\ Taken(x.wire, i, y.wire)
         /\ ValueOwnedBut(y, IF Polls(x.wire[i], x.wire[i].dev) THEN {x.wire[i].dev} ELSE {})
         /\ ~CurWrite(x.wire[i]) => ValueWriting(y)
         /\ ValuePending(y) /\ ValueWrites(y) /\ ValueFresh(y)
         /\ CurWrite(x.wire[i]) /\ ~x.due => \A k \in DOMAIN y.wire : ~CurWrite(y.wire[k])
         /\ CurWrite(x.wire[i]) /\ ~x.due /\ i = 1 => ValueNoWrite(y)
<1>1. PICK s, q : s = x.wire /\ q = RemoveAt(s, i)
  OBVIOUS
<1>2. Taken(s, i, q) /\ i \in DOMAIN s
  BY <1>1, WireTaken DEF ValueInv, ValueCard
<1>3. y = [x EXCEPT !.wire = q]
  BY <1>1 DEF Value!Took, RemoveAt
<1>4. ValueFields(y) /\ y.wire = q /\ ValueSameBut(x, y)
  BY <1>3 DEF ValueInv, ValueCard, ValueFields, ValueSameBut
<1>5. Wire(q) /\ Len(s) \in Nat /\ DOMAIN s = 1..Len(s) /\ Len(q) = Len(s) - 1 /\ DOMAIN q = 1..(Len(s) - 1)
  BY <1>2 DEF Taken
<1>6. \A k \in DOMAIN q : q[k] = s[IF k < i THEN k ELSE k + 1]
  BY <1>2 DEF Taken
<1>7. \A k \in DOMAIN q : \E j \in DOMAIN s : j # i /\ q[k] = s[j]
  BY <1>2 DEF Taken
<1>8. \A j \in DOMAIN s : j # i => \E k \in DOMAIN q : q[k] = s[j]
  BY <1>2 DEF Taken
<1>9. ValueCard(y)
  BY <1>1, <1>4, <1>5, <1>7 DEF ValueInv, ValueCard
<1>10. ValueOwnedBut(y, IF Polls(x.wire[i], x.wire[i].dev) THEN {x.wire[i].dev} ELSE {})
  <2> SUFFICES ASSUME NEW d \in Supplies, y.snap[d].loading, ~Polls(s[i], d)
               PROVE  \E k \in DOMAIN q : Polls(q[k], d)
    BY <1>1, <1>4 DEF ValueOwnedBut, Polls
  <2>1. PICK j \in DOMAIN s : Polls(s[j], d)
    BY <1>1, <1>4 DEF ValueInv, ValueOwned, ValueOwnedBut, ValueSameBut
  <2>2. j # i BY <2>1
  <2> QED BY <1>8, <2>1, <2>2
<1>11. ASSUME ~CurWrite(x.wire[i]) PROVE ValueWriting(y)
  BY <1>1, <1>4, <1>8, <1>11 DEF ValueInv, ValueWriting, ValueSameBut
<1>12. ValuePending(y)
  BY <1>4 DEF ValueInv, ValuePending, ValueSameBut
<1>13. ValueWrites(x) BY DEF ValueInv
<1>14. ValueWrites(y)
  <2> SUFFICES ASSUME ~x.due, NEW a \in DOMAIN q, CurWrite(q[a])
               PROVE  /\ x.phase = "writing" /\ q[a].dev = x.config /\ ~x.done
                      /\ \A b \in DOMAIN q : q[b].kind = "write" => b <= a
    BY <1>4 DEF ValueWrites, ValueSameBut
  <2>1. PICK k : k = IF a < i THEN a ELSE a + 1
    OBVIOUS
  <2>2. k \in DOMAIN s /\ q[a] = s[k]
    BY <1>2, <1>5, <1>6, <2>1
  <2>3. /\ x.phase = "writing" /\ s[k].dev = x.config /\ ~x.done
        /\ \A j \in DOMAIN s : s[j].kind = "write" => j <= k
    BY <1>1, <1>13, <2>2 DEF ValueWrites
  <2>4. ASSUME NEW b \in DOMAIN q, q[b].kind = "write" PROVE b <= a
    <3>1. PICK l : l = IF b < i THEN b ELSE b + 1
      OBVIOUS
    <3>2. l \in DOMAIN s /\ q[b] = s[l]
      BY <1>2, <1>5, <1>6, <3>1
    <3>3. l <= k BY <2>3, <2>4, <3>2
    <3> QED BY <1>2, <1>5, <2>1, <3>1, <3>3
  <2> QED BY <2>2, <2>3, <2>4
<1>15. ValueFresh(y)
  BY <1>1, <1>4, <1>7 DEF ValueInv, ValueFresh, ValueNoWrite, ValueSameBut
<1>16. ASSUME CurWrite(x.wire[i]), ~x.due, NEW k \in DOMAIN y.wire PROVE ~CurWrite(y.wire[k])
  <2>1. PICK j \in DOMAIN s : j # i /\ q[k] = s[j] BY <1>4, <1>7, <1>16
  <2>2. SUFFICES ASSUME CurWrite(s[j]) PROVE FALSE BY <1>4, <2>1
  <2>3. j <= i /\ i <= j BY <1>1, <1>13, <1>16, <2>2 DEF ValueWrites, CurWrite
  <2> QED BY <1>2, <1>5, <2>1, <2>3
<1>17. ASSUME CurWrite(x.wire[i]), ~x.due, i = 1 PROVE ValueNoWrite(y)
  <2> SUFFICES ASSUME NEW k \in DOMAIN q, q[k].kind = "write" PROVE FALSE BY <1>4 DEF ValueNoWrite
  <2>1. k + 1 \in DOMAIN s /\ q[k] = s[k + 1] BY <1>5, <1>6, <1>17
  <2>2. k + 1 <= 1 BY <1>1, <1>13, <1>17, <2>1 DEF ValueWrites
  <2> QED BY <1>5, <2>2
<1> QED BY <1>1, <1>2, <1>4, <1>9, <1>10, <1>11, <1>12, <1>14, <1>15, <1>16, <1>17

\* The requests of one kind for some devices are outdated.
LEMMA ValueDisown ==
  ASSUME NEW x, ValueCard(x), NEW kind, NEW devs, NEW y, y = Value!Disown(x, kind, devs)
  PROVE  /\ ValueCard(y) /\ ValueSameBut(x, y) /\ DOMAIN y.wire = DOMAIN x.wire
         /\ \A i \in DOMAIN x.wire :
              /\ y.wire[i].kind = x.wire[i].kind /\ y.wire[i].dev = x.wire[i].dev
              /\ y.wire[i].cur <=> x.wire[i].cur /\ ~(x.wire[i].kind = kind /\ x.wire[i].dev \in devs)
<1>1. PICK g : g = [i \in DOMAIN x.wire |-> IF x.wire[i].kind = kind /\ x.wire[i].dev \in devs
                                            THEN [x.wire[i] EXCEPT !.cur = FALSE] ELSE x.wire[i]]
  OBVIOUS
<1>2. Wire(g) /\ DOMAIN g = DOMAIN x.wire
  <2>1. g = [i \in DOMAIN x.wire |-> g[i]] BY <1>1
  <2> QED BY <2>1, WireMapped DEF ValueCard
<1>3. ASSUME NEW i \in DOMAIN x.wire
      PROVE  /\ g[i] \in ValueRequest /\ g[i].kind = x.wire[i].kind /\ g[i].dev = x.wire[i].dev
             /\ g[i].cur <=> x.wire[i].cur /\ ~(x.wire[i].kind = kind /\ x.wire[i].dev \in devs)
  <2>1. PICK r : r = x.wire[i]
    OBVIOUS
  <2>2. r \in ValueRequest BY <2>1 DEF ValueCard
  <2>3. CASE r.kind = kind /\ r.dev \in devs
    <3>1. g[i] = [r EXCEPT !.cur = FALSE] BY <1>1, <2>1, <2>3
    <3> QED BY <2>1, <2>2, <2>3, <3>1 DEF ValueRequest
  <2>4. CASE ~(r.kind = kind /\ r.dev \in devs)
    <3>1. g[i] = r BY <1>1, <2>1, <2>4
    <3> QED BY <2>1, <2>2, <2>4, <3>1
  <2> QED BY <2>3, <2>4
<1>4. y = [x EXCEPT !.wire = g]
  BY <1>1 DEF Value!Disown
<1>5. ValueFields(y) /\ y.wire = g /\ ValueSameBut(x, y)
  BY <1>4 DEF ValueCard, ValueFields, ValueSameBut
<1> QED BY <1>2, <1>3, <1>5 DEF ValueCard

\* A request is sent.
LEMMA ValueAsk ==
  ASSUME NEW x, ValueCard(x), NEW r \in ValueRequest, NEW y, y = Value!Ask(x, r)
  PROVE  ValueCard(y) /\ ValueSameBut(x, y) /\ Asked(x.wire, r, y.wire)
<1>1. PICK q : q = Append(x.wire, r)
  OBVIOUS
<1>2. Asked(x.wire, r, q) BY <1>1, WireAsked DEF ValueCard
<1>3. y = [x EXCEPT !.wire = q]
  BY <1>1 DEF Value!Ask
<1>4. ValueFields(y) /\ y.wire = q /\ ValueSameBut(x, y)
  BY <1>3 DEF ValueCard, ValueFields, ValueSameBut
<1>5. \A k \in DOMAIN q : q[k] \in ValueRequest
  <2>1. \A k \in DOMAIN q : k = Len(x.wire) + 1 \/ k \in DOMAIN x.wire BY <1>2 DEF Asked
  <2> QED BY <1>2, <2>1 DEF Asked, ValueCard
<1> QED BY <1>2, <1>4, <1>5 DEF ValueCard, Asked

\* The snapshot of one device is replaced.
LEMMA ValuePut ==
  ASSUME NEW x, ValueCard(x), NEW g \in [Supplies -> Snapshot], NEW y, y = [x EXCEPT !.snap = g]
  PROVE  /\ ValueCard(y) /\ y.config = x.config /\ y.up = x.up /\ y.due = x.due /\ y.phase = x.phase
         /\ y.pending = x.pending /\ y.done = x.done /\ y.dev = x.dev /\ y.wire = x.wire /\ y.snap = g
<1>1. /\ ValueFields(y) /\ y.config = x.config /\ y.up = x.up /\ y.due = x.due /\ y.phase = x.phase
      /\ y.pending = x.pending /\ y.done = x.done /\ y.dev = x.dev /\ y.wire = x.wire /\ y.snap = g
  BY DEF ValueCard, ValueFields
<1> QED BY <1>1 DEF ValueCard

-----------------------------------------------------------------------------
ValueNoCur(x) == \A i \in DOMAIN x.wire : ~CurWrite(x.wire[i])

\* Of what a card shows, a measurement that is asked for changes one entry.
ValueKept(x, y, d) ==
  /\ y.config = x.config /\ y.up = x.up /\ y.due = x.due /\ y.phase = x.phase
  /\ y.pending = x.pending /\ y.done = x.done /\ y.dev = x.dev
  /\ y.snap[d].loading /\ \A e \in Supplies \ {d} : y.snap[e] = x.snap[e]

\* A measurement is asked for.
LEMMA ValueQueried ==
  ASSUME NEW x, ValueCard(x), NEW d \in Supplies, NEW y, y = Value!Queried(x, d)
  PROVE  /\ ValueCard(y) /\ ValueKept(x, y, d)
         /\ ValueOwnedBut(x, {d}) => ValueOwned(y)
         /\ ValueNoWrite(x) => ValueNoWrite(y)
         /\ ValueNoCur(x) => ValueNoCur(y)
         /\ ValueWriting(x) => ValueWriting(y)
         /\ ValueWrites(x) => ValueWrites(y)
<1>1. PICK s, g, u, r : /\ s = [x.snap[d] EXCEPT !.loading = TRUE, !.error = FALSE]
                        /\ g = [x.snap EXCEPT ![d] = s] /\ u = [x EXCEPT !.snap = g]
                        /\ r = Value!Query(d)
  OBVIOUS
<1>2. s \in Snapshot /\ s.loading
  <2>1. PICK t : t = x.snap[d]
    OBVIOUS
  <2>2. t \in Snapshot BY <2>1 DEF ValueCard, ValueFields
  <2> QED BY <1>1, <2>1, <2>2 DEF Snapshot
<1>3. /\ ValueCard(u) /\ u.config = x.config /\ u.up = x.up /\ u.due = x.due /\ u.phase = x.phase
      /\ u.pending = x.pending /\ u.done = x.done /\ u.dev = x.dev /\ u.wire = x.wire
      /\ u.snap = g
  <2>1. x.snap \in [Supplies -> Snapshot] BY DEF ValueCard, ValueFields
  <2>2. g \in [Supplies -> Snapshot] BY <1>1, <1>2, <2>1
  <2> QED BY <1>1, <2>2, ValuePut
<1>4. u.snap[d] = s /\ \A e \in Supplies \ {d} : u.snap[e] = x.snap[e]
  <2>1. x.snap \in [Supplies -> Snapshot] BY DEF ValueCard, ValueFields
  <2> QED BY <1>1, <1>3, <2>1
<1>5. r \in ValueRequest /\ Polls(r, d) /\ r.kind = "query" /\ ~CurWrite(r)
  BY <1>1 DEF Value!Query, ValueRequest, Polls, CurWrite
<1>6. y = Value!Ask(u, r)
  BY <1>1 DEF Value!Queried
<1>7. ValueCard(y) /\ ValueSameBut(u, y) /\ Asked(x.wire, r, y.wire)
  BY <1>3, <1>5, <1>6, ValueAsk
<1>8. PICK n : n = Len(x.wire) + 1
  OBVIOUS
<1>9. /\ n \in DOMAIN y.wire /\ y.wire[n] = r /\ \A k \in DOMAIN y.wire : k = n \/ k \in DOMAIN x.wire
      /\ \A k \in DOMAIN x.wire : k \in DOMAIN y.wire /\ y.wire[k] = x.wire[k]
  BY <1>7, <1>8 DEF Asked
<1>10. ASSUME ValueOwnedBut(x, {d}) PROVE ValueOwned(y)
  <2> SUFFICES ASSUME NEW e \in Supplies, y.snap[e].loading
               PROVE  \E i \in DOMAIN y.wire : Polls(y.wire[i], e)
    BY DEF ValueOwned, ValueOwnedBut
  <2>1. CASE e = d BY <1>5, <1>9, <2>1
  <2>2. CASE e # d
    <3>1. x.snap[e].loading BY <1>4, <1>7, <2>2 DEF ValueSameBut
    <3>2. PICK i \in DOMAIN x.wire : Polls(x.wire[i], e) BY <1>10, <2>2, <3>1 DEF ValueOwnedBut
    <3> QED BY <1>9, <3>2
  <2> QED BY <2>1, <2>2
<1>11. ASSUME ValueNoWrite(x) PROVE ValueNoWrite(y)
  BY <1>5, <1>9, <1>11 DEF ValueNoWrite
<1>12. ASSUME ValueNoCur(x) PROVE ValueNoCur(y)
  BY <1>5, <1>9, <1>12 DEF ValueNoCur
<1>13. ASSUME ValueWriting(x) PROVE ValueWriting(y)
  BY <1>3, <1>7, <1>9, <1>13 DEF ValueWriting, ValueSameBut
<1>14. ASSUME ValueWrites(x) PROVE ValueWrites(y)
  BY <1>3, <1>5, <1>7, <1>9, <1>14 DEF ValueWrites, ValueSameBut, CurWrite
<1>15. y.config = x.config /\ y.up = x.up /\ y.due = x.due /\ y.phase = x.phase /\ y.pending = x.pending
       /\ y.done = x.done /\ y.dev = x.dev /\ y.snap = u.snap
  BY <1>3, <1>7 DEF ValueSameBut
<1>16. ValueKept(x, y, d)
  BY <1>2, <1>4, <1>15 DEF ValueKept
<1> QED BY <1>7, <1>10, <1>11, <1>12, <1>13, <1>14, <1>16

\* A write that reached its device.
LEMMA ValueReached ==
  ASSUME ValueInv(w), NEW i \in DOMAIN w.wire, w.wire[i].kind # "query",
         NEW y, y = Value!Written(Value!Took(w, i), w.wire[i]) \/ y = Value!Took(w, i)
  PROVE  /\ ValueCard(y) /\ y.config = w.config /\ y.up = w.up /\ y.due = w.due /\ y.phase = w.phase /\ y.done = w.done
         /\ ValueOwned(y) /\ ValuePending(y) /\ ValueWrites(y) /\ ValueFresh(y)
         /\ ~w.wire[i].cur => ValueInv(y)
         /\ w.wire[i].cur /\ ~w.due => ValueNoCur(y) /\ ~y.done /\ w.wire[i].dev = w.config
         /\ w.wire[i].cur /\ ~w.due /\ i = 1 => ValueNoWrite(y)
<1>1. PICK f, u : f = w.wire[i] /\ u = Value!Took(w, i)
  OBVIOUS
<1>2. f \in ValueRequest /\ f.kind = "write" /\ ~Polls(f, f.dev) /\ (CurWrite(f) <=> f.cur)
  <2>1. f \in ValueRequest BY <1>1 DEF ValueInv, ValueCard
  <2> QED BY <1>1, <2>1 DEF ValueRequest, Polls, CurWrite
<1>3. ValueCard(u) /\ ValueSameBut(w, u) /\ ValuePending(u) /\ ValueWrites(u) /\ ValueFresh(u)
  BY <1>1, ValueTook
<1>4. ValueOwnedBut(u, IF Polls(f, f.dev) THEN {f.dev} ELSE {})
  BY <1>1, ValueTook
<1>5. /\ ~CurWrite(f) => ValueWriting(u)
      /\ CurWrite(f) /\ ~w.due => \A k \in DOMAIN u.wire : ~CurWrite(u.wire[k])
      /\ CurWrite(f) /\ ~w.due /\ i = 1 => ValueNoWrite(u)
  BY <1>1, ValueTook
<1>6. ValueOwned(u)
  BY <1>2, <1>4 DEF ValueOwned
<1>7. ~(~w.due /\ (w.phase = "refreshing" \/ w.done))
  BY <1>1, <1>2 DEF ValueInv, ValueFresh, ValueNoWrite
<1>8. f.cur /\ ~w.due => ~w.done /\ f.dev = w.config
  BY <1>1, <1>2 DEF ValueInv, ValueWrites
<1>9. /\ ValueCard(y) /\ y.config = u.config /\ y.up = u.up /\ y.due = u.due /\ y.phase = u.phase /\ y.done = u.done
      /\ y.pending = u.pending /\ y.wire = u.wire /\ y.snap = u.snap
  <2>1. CASE y = u BY <1>3, <2>1
  <2>2. CASE y = Value!Written(u, f)
    <3>1. PICK g : g = [u.dev EXCEPT ![f.dev] = f.set]
      OBVIOUS
    <3>2. g \in [Supplies -> Values \union {"--"}]
      BY <1>2, <1>3, <3>1 DEF ValueCard, ValueFields, ValueRequest
    <3>3. y = [u EXCEPT !.dev = g]
      BY <2>2, <3>1 DEF Value!Written
    <3>4. /\ ValueFields(y) /\ y.config = u.config /\ y.up = u.up /\ y.due = u.due /\ y.phase = u.phase /\ y.done = u.done
          /\ y.pending = u.pending /\ y.wire = u.wire /\ y.snap = u.snap
      BY <1>3, <3>2, <3>3 DEF ValueCard, ValueFields
    <3> QED BY <1>3, <3>4 DEF ValueCard
  <2> QED BY <1>1, <2>1, <2>2
<1>10. y.config = w.config /\ y.up = w.up /\ y.due = w.due /\ y.phase = w.phase /\ y.done = w.done
  BY <1>3, <1>9 DEF ValueSameBut
<1>11. ValueOwned(y) /\ ValuePending(y) /\ ValueWrites(y)
  <2>1. ValueOwned(y) BY <1>6, <1>9 DEF ValueOwned, ValueOwnedBut
  <2>2. ValuePending(y) BY <1>3, <1>9 DEF ValuePending
  <2>3. ValueWrites(y) BY <1>3, <1>9 DEF ValueWrites
  <2> QED BY <2>1, <2>2, <2>3
<1>12. ValueFresh(y)
  BY <1>7, <1>10 DEF ValueFresh
<1>13. ASSUME ~f.cur PROVE ValueInv(y)
  <2>1. ValueWriting(y) BY <1>2, <1>5, <1>9, <1>13 DEF ValueWriting
  <2> QED BY <1>9, <1>11, <1>12, <2>1 DEF ValueInv
<1>14. ASSUME f.cur, ~w.due PROVE ValueNoCur(y) /\ ~y.done /\ f.dev = w.config
  BY <1>2, <1>5, <1>8, <1>9, <1>10, <1>14 DEF ValueNoCur
<1>15. ASSUME f.cur, ~w.due, i = 1 PROVE ValueNoWrite(y)
  BY <1>2, <1>5, <1>9, <1>15 DEF ValueNoWrite
<1> QED BY <1>1, <1>9, <1>10, <1>11, <1>12, <1>13, <1>14, <1>15

\* An action that failed.
LEMMA ValueEnds ==
  ASSUME NEW x, ValueCard(x), ValueOwned(x), ~x.due => ValueNoCur(x) /\ ~x.done,
         NEW y, y = [x EXCEPT !.pending = FALSE, !.phase = "error"]
  PROVE  ValueInv(y)
<1>1. /\ ValueFields(y) /\ y.due = x.due /\ y.done = x.done /\ y.wire = x.wire /\ y.snap = x.snap
      /\ ~y.pending /\ y.phase = "error"
  BY DEF ValueCard, ValueFields
<1>2. ValueCard(y) /\ ValueOwned(y) /\ ValueWriting(y) /\ ValuePending(y)
  BY <1>1 DEF ValueCard, ValueOwned, ValueOwnedBut, ValueWriting, ValuePending
<1>3. ValueWrites(y) /\ ValueFresh(y)
  BY <1>1 DEF ValueWrites, ValueFresh, ValueNoCur
<1> QED BY <1>2, <1>3 DEF ValueInv

LEMMA ValueWriteAnswer ==
  ASSUME ValueInv(w), 1 \in DOMAIN w.wire, w.wire[1].kind # "query",
         Value!WriteAnswer(Value!Written(Value!Took(w, 1), w.wire[1]), w.wire[1])
  PROVE  ValueInv(w')
<1>1. PICK f, x : f = w.wire[1] /\ x = Value!Written(Value!Took(w, 1), f)
  OBVIOUS
<1>2. /\ ValueCard(x) /\ x.config = w.config /\ x.up = w.up /\ x.due = w.due /\ x.phase = w.phase /\ x.done = w.done
      /\ ValueOwned(x) /\ ValuePending(x) /\ ValueWrites(x) /\ ValueFresh(x)
  BY <1>1, ValueReached
<1>3. /\ ~f.cur => ValueInv(x)
      /\ f.cur /\ ~w.due => ValueNoCur(x) /\ ~x.done /\ f.dev = w.config
      /\ f.cur /\ ~w.due => ValueNoWrite(x)
  BY <1>1, ValueReached
<1>4. w' = IF ~f.cur THEN x
           ELSE IF f.dev \in x.up THEN [Value!Refresh(x, f.dev) EXCEPT !.phase = "refreshing"]
           ELSE [x EXCEPT !.pending = FALSE, !.phase = "error"]
  BY <1>1 DEF Value!WriteAnswer
<1>5. CASE ~f.cur BY <1>3, <1>4, <1>5
<1>6. CASE f.cur /\ f.dev \notin x.up
  <2>1. w' = [x EXCEPT !.pending = FALSE, !.phase = "error"] BY <1>4, <1>6
  <2> QED BY <1>2, <1>3, <1>6, <2>1, ValueEnds
<1>7. CASE f.cur /\ f.dev \in x.up
  <2>1. PICK d : d = f.dev
    OBVIOUS
  <2>2. d \in Supplies BY <1>2, <1>7, <2>1 DEF ValueCard, ValueFields
  <2>3. PICK u, v : u = Value!Disown(x, "query", {d}) /\ v = Value!Queried(u, d)
    OBVIOUS
  <2>4. ValueCard(u) /\ ValueSameBut(x, u) /\ DOMAIN u.wire = DOMAIN x.wire
    BY <1>2, <2>3, ValueDisown
  <2>5. \A i \in DOMAIN x.wire :
          /\ u.wire[i].kind = x.wire[i].kind /\ u.wire[i].dev = x.wire[i].dev
          /\ u.wire[i].cur <=> x.wire[i].cur /\ ~(x.wire[i].kind = "query" /\ x.wire[i].dev \in {d})
    BY <1>2, <2>3, ValueDisown
  <2>6. ValueOwnedBut(u, {d})
    <3> SUFFICES ASSUME NEW e \in Supplies \ {d}, u.snap[e].loading
                 PROVE  \E i \in DOMAIN u.wire : Polls(u.wire[i], e)
      BY DEF ValueOwnedBut
    <3>1. PICK i \in DOMAIN x.wire : Polls(x.wire[i], e)
      BY <1>2, <2>4 DEF ValueOwned, ValueOwnedBut, ValueSameBut
    <3>2. Polls(u.wire[i], e) BY <2>5, <3>1 DEF Polls
    <3> QED BY <2>4, <3>2
  <2>7. /\ f.cur /\ ~w.due => ValueNoCur(u) /\ ValueNoWrite(u)
    BY <1>3, <2>4, <2>5 DEF ValueNoCur, ValueNoWrite, CurWrite
  <2>17. ValueKept(u, v, d)
    BY <2>2, <2>3, <2>4, ValueQueried
  <2>18. ValueCard(v) /\ (ValueOwnedBut(u, {d}) => ValueOwned(v))
    BY <2>2, <2>3, <2>4, ValueQueried
  <2>8. /\ ValueCard(v) /\ v.config = u.config /\ v.due = u.due /\ v.snap[d].loading
        /\ ValueOwnedBut(u, {d}) => ValueOwned(v)
    BY <2>17, <2>18 DEF ValueKept
  <2>9. (ValueNoWrite(u) => ValueNoWrite(v)) /\ (ValueNoCur(u) => ValueNoCur(v))
    BY <2>2, <2>3, <2>4, ValueQueried
  <2>10. w' = [v EXCEPT !.phase = "refreshing"]
    BY <1>4, <1>7, <2>1, <2>3 DEF Value!Refresh
  <2>11. PICK y : y = [v EXCEPT !.phase = "refreshing"]
    OBVIOUS
  <2>12. /\ ValueFields(y) /\ y.config = v.config /\ y.due = v.due /\ y.wire = v.wire /\ y.snap = v.snap
         /\ y.phase = "refreshing"
    BY <2>8, <2>11 DEF ValueCard, ValueFields
  <2>13. ValueCard(y) /\ ValueOwned(y) /\ ValueWriting(y) /\ ValuePending(y)
    BY <2>6, <2>8, <2>12 DEF ValueCard, ValueOwned, ValueOwnedBut, ValueWriting, ValuePending
  <2>14. y.due = w.due /\ y.config = w.config
    BY <1>2, <2>4, <2>8, <2>12 DEF ValueSameBut
  <2>15. ValueWrites(y)
    BY <1>7, <2>7, <2>9, <2>12, <2>14 DEF ValueWrites, ValueNoCur
  <2>16. ValueFresh(y)
    BY <1>3, <1>7, <2>1, <2>7, <2>8, <2>9, <2>12, <2>14 DEF ValueFresh, ValueNoWrite
  <2> QED BY <2>10, <2>11, <2>13, <2>15, <2>16 DEF ValueInv
<1> QED BY <1>5, <1>6, <1>7

\* The end of a poll: its device is measured, or not.
LEMMA ValueMeasured ==
  ASSUME ValueInv(w), NEW i \in DOMAIN w.wire, w.wire[i].kind = "query", NEW s \in Snapshot, ~s.loading,
         NEW x, x = Value!Took(w, i), s.error \/ s.value = x.dev[w.wire[i].dev],
         NEW g, g = [x.snap EXCEPT ![w.wire[i].dev] = s], NEW y, y = IF w.wire[i].cur THEN [x EXCEPT !.snap = g] ELSE x
  PROVE  ValueInv(y)
<1>1. PICK f : f = w.wire[i]
  OBVIOUS
<1>2. f \in ValueRequest /\ ~CurWrite(f) /\ (Polls(f, f.dev) <=> f.cur) /\ f.dev \in Supplies
  <2>1. f \in ValueRequest BY <1>1 DEF ValueInv, ValueCard
  <2> QED BY <1>1, <2>1 DEF ValueRequest, Polls, CurWrite
<1>3. ValueCard(x) /\ ValueSameBut(w, x) /\ ValuePending(x) /\ ValueWrites(x) /\ ValueFresh(x)
  BY ValueTook
<1>4. ValueOwnedBut(x, IF Polls(f, f.dev) THEN {f.dev} ELSE {})
  BY <1>1, ValueTook
<1>5. ~CurWrite(f) => ValueWriting(x)
  BY <1>1, ValueTook
<1>6. CASE ~f.cur
  <2>1. ValueOwned(x) BY <1>2, <1>4, <1>6 DEF ValueOwned
  <2> QED BY <1>1, <1>2, <1>3, <1>5, <1>6, <2>1 DEF ValueInv
<1>7. CASE f.cur
  <2>1. PICK d : d = f.dev
    OBVIOUS
  <2>2. ValueOwnedBut(x, {d}) BY <1>2, <1>4, <1>7, <2>1
  <2>3. g = [x.snap EXCEPT ![d] = s] /\ y = [x EXCEPT !.snap = g]
    BY <1>1, <1>7, <2>1
  <2>9. x.snap \in [Supplies -> Snapshot] BY <1>3 DEF ValueCard, ValueFields
  <2>4. /\ ValueCard(y) /\ y.config = x.config /\ y.due = x.due /\ y.phase = x.phase
        /\ y.pending = x.pending /\ y.done = x.done /\ y.dev = x.dev /\ y.wire = x.wire /\ y.snap = g
    <3>1. g \in [Supplies -> Snapshot] BY <2>3, <2>9
    <3> QED BY <1>3, <2>3, <3>1, ValuePut
  <2>5. y.snap[d] = s /\ \A e \in Supplies \ {d} : y.snap[e] = x.snap[e]
    BY <1>2, <2>1, <2>3, <2>4, <2>9
  <2>6. ValueOwned(y)
    BY <2>2, <2>4, <2>5 DEF ValueOwned, ValueOwnedBut
  <2>7. ValueWriting(y) /\ ValuePending(y) /\ ValueWrites(y)
    <3>1. ValueWriting(y) BY <1>2, <1>5, <2>4 DEF ValueWriting
    <3>2. ValuePending(y) BY <1>3, <2>4 DEF ValuePending
    <3>3. ValueWrites(y) BY <1>3, <2>4 DEF ValueWrites
    <3> QED BY <3>1, <3>2, <3>3
  <2>8. ValueFresh(y)
    <3>1. x.config \in Supplies BY <1>3 DEF ValueCard, ValueFields
    <3>2. ValueNoWrite(x) => ValueNoWrite(y) BY <2>4 DEF ValueNoWrite
    <3> QED BY <1>1, <1>3, <2>1, <2>4, <2>5, <3>1, <3>2 DEF ValueFresh
  <2> QED BY <2>4, <2>6, <2>7, <2>8 DEF ValueInv
<1> QED BY <1>6, <1>7

LEMMA ValueAnswer ==
  ASSUME ValueInv(w), Value!Answer
  PROVE  ValueInv(w')
<1>1. 1 \in DOMAIN w.wire /\ Head(w.wire) = w.wire[1] /\ w.wire[1] \in ValueRequest
  <2>1. Wire(w.wire) /\ w.wire # <<>> BY DEF ValueInv, ValueCard, Value!Answer
  <2>2. 1 \in DOMAIN w.wire /\ Head(w.wire) = w.wire[1] BY <2>1 DEF Wire
  <2> QED BY <2>2 DEF ValueInv, ValueCard
<1>2. CASE w.wire[1].kind # "query"
  BY <1>1, <1>2, ValueWriteAnswer DEF Value!Answer
<1>3. CASE w.wire[1].kind = "query"
  <2>1. PICK f, x : f = w.wire[1] /\ x = Value!Took(w, 1)
    OBVIOUS
  <2>2. w' = IF f.cur THEN [x EXCEPT !.snap[f.dev] = [Value!Blank EXCEPT !.value = x.dev[f.dev]]] ELSE x
    BY <1>1, <1>3, <2>1 DEF Value!Answer, Value!QueryAnswer
  <2>3. PICK s : s = [Value!Blank EXCEPT !.value = x.dev[f.dev]]
    OBVIOUS
  <2>4. PICK g : g = [x.snap EXCEPT ![f.dev] = s] /\ w' = IF f.cur THEN [x EXCEPT !.snap = g] ELSE x
    BY <2>2, <2>3
  <2>5. ValueCard(x) BY <1>1, <2>1, ValueTook
  <2>6. x.dev[f.dev] \in Values \union {"--"}
    BY <1>1, <2>1, <2>5 DEF ValueCard, ValueFields, ValueRequest
  <2>7. s \in Snapshot /\ ~s.loading /\ s.value = x.dev[f.dev]
    BY <2>3, <2>6 DEF Value!Blank, Snapshot
  <2> QED BY <1>1, <1>3, <2>1, <2>4, <2>7, ValueMeasured
<1> QED BY <1>2, <1>3

LEMMA ValueFails ==
  ASSUME ValueInv(w), NEW i \in DOMAIN w.wire, Value!Fails(i)
  PROVE  ValueInv(w')
<1>1. PICK f, u : f = w.wire[i] /\ u = Value!Took(w, i)
  OBVIOUS
<1>2. CASE f.kind # "query"
  <2>1. PICK x : /\ x = Value!Written(u, f) \/ x = u
                 /\ w' = IF f.cur THEN [x EXCEPT !.pending = FALSE, !.phase = "error"] ELSE x
    BY <1>1, <1>2 DEF Value!Fails, Value!WriteFails
  <2>2. ValueCard(x) /\ x.due = w.due /\ ValueOwned(x)
    BY <1>1, <1>2, <2>1, ValueReached
  <2>3. /\ ~f.cur => ValueInv(x)
        /\ f.cur /\ ~w.due => ValueNoCur(x) /\ ~x.done /\ f.dev = w.config
    BY <1>1, <1>2, <2>1, ValueReached
  <2>4. CASE ~f.cur BY <2>1, <2>3, <2>4
  <2>5. CASE f.cur
    <3>1. w' = [x EXCEPT !.pending = FALSE, !.phase = "error"] BY <2>1, <2>5
    <3> QED BY <2>2, <2>3, <2>5, <3>1, ValueEnds
  <2> QED BY <2>4, <2>5
<1>3. CASE f.kind = "query"
  <2>1. w' = IF f.cur THEN [u EXCEPT !.snap[f.dev] = [@ EXCEPT !.loading = FALSE, !.error = TRUE]] ELSE u
    BY <1>1, <1>3 DEF Value!Fails, Value!QueryFails
  <2>2. PICK t, s : t = u.snap[f.dev] /\ s = [t EXCEPT !.loading = FALSE, !.error = TRUE]
    OBVIOUS
  <2>3. PICK g : g = [u.snap EXCEPT ![f.dev] = s] /\ w' = IF f.cur THEN [u EXCEPT !.snap = g] ELSE u
    BY <2>1, <2>2
  <2>4. ValueCard(u) /\ f.dev \in Supplies
    <3>1. ValueCard(u) BY <1>1, ValueTook
    <3>2. f \in ValueRequest BY <1>1 DEF ValueInv, ValueCard
    <3> QED BY <3>1, <3>2 DEF ValueRequest
  <2>5. t \in Snapshot BY <2>2, <2>4 DEF ValueCard, ValueFields
  <2>6. s \in Snapshot /\ ~s.loading /\ s.error
    BY <2>2, <2>5 DEF Snapshot
  <2> QED BY <1>1, <1>3, <2>3, <2>6, ValueMeasured
<1> QED BY <1>2, <1>3

LEMMA ValueFinish ==
  ASSUME ValueInv(w), Value!Finish
  PROVE  ValueInv(w')
<1>1. PICK f \in BOOLEAN : f = w.snap[w.config].error
  <2>1. w.config \in Supplies /\ w.snap \in [Supplies -> Snapshot] BY DEF ValueInv, ValueCard, ValueFields
  <2>2. w.snap[w.config] \in Snapshot BY <2>1
  <2> QED BY <2>2 DEF Snapshot
<1>2. w' = [w EXCEPT !.pending = FALSE, !.done = ~f, !.phase = IF f THEN "error" ELSE "idle"]
  BY <1>1 DEF Value!Finish
<1>3. ValueCard(w) /\ w.phase = "refreshing"
  BY DEF ValueInv, Value!Finish
<1>4. /\ ValueFields(w') /\ w'.config = w.config /\ w'.due = w.due /\ w'.wire = w.wire /\ w'.snap = w.snap
      /\ w'.dev = w.dev /\ ~w'.pending /\ w'.phase \in {"idle", "error"}
  BY <1>2, <1>3 DEF ValueCard, ValueFields
<1>5. ValueCard(w') /\ ValueOwned(w') /\ ValueWriting(w') /\ ValuePending(w')
  BY <1>3, <1>4 DEF ValueInv, ValueCard, ValueOwned, ValueOwnedBut, ValueWriting, ValuePending
<1>6. ~w.due => ValueNoWrite(w) /\ (w.snap[w.config].loading \/ w.snap[w.config].error \/ w.snap[w.config].value = w.dev[w.config])
  BY <1>3 DEF ValueInv, ValueFresh
<1>7. ValueWrites(w')
  BY <1>4, <1>6 DEF ValueWrites, ValueNoWrite, CurWrite
<1>8. ValueFresh(w')
  BY <1>4, <1>6 DEF ValueFresh, ValueNoWrite
<1> QED BY <1>5, <1>7, <1>8 DEF ValueInv

LEMMA ValueRunEffects ==
  ASSUME ValueInv(w), Value!RunEffects
  PROVE  ValueInv(w')
<1>1. PICK u : u = Value!Disown(w, "write", Supplies)
  OBVIOUS
<1>2. w' = [u EXCEPT !.due = FALSE, !.pending = FALSE, !.phase = "idle", !.done = FALSE]
  BY <1>1 DEF Value!RunEffects
<1>3. ValueCard(u) /\ ValueSameBut(w, u) /\ DOMAIN u.wire = DOMAIN w.wire
  BY <1>1, ValueDisown DEF ValueInv
<1>4. \A i \in DOMAIN w.wire :
        /\ u.wire[i].kind = w.wire[i].kind /\ u.wire[i].dev = w.wire[i].dev
        /\ u.wire[i].cur <=> w.wire[i].cur /\ ~(w.wire[i].kind = "write" /\ w.wire[i].dev \in Supplies)
  BY <1>1, ValueDisown DEF ValueInv
<1>5. /\ ValueFields(w') /\ w'.config = u.config /\ w'.wire = u.wire /\ w'.snap = u.snap
      /\ w'.dev = u.dev /\ ~w'.pending /\ w'.phase = "idle" /\ ~w'.done /\ ~w'.due
  BY <1>2, <1>3 DEF ValueCard, ValueFields
<1>6. ValueOwned(w')
  <2> SUFFICES ASSUME NEW e \in Supplies, w'.snap[e].loading
               PROVE  \E i \in DOMAIN w'.wire : Polls(w'.wire[i], e)
    BY DEF ValueOwned, ValueOwnedBut
  <2>1. PICK i \in DOMAIN w.wire : Polls(w.wire[i], e)
    BY <1>3, <1>5 DEF ValueInv, ValueOwned, ValueOwnedBut, ValueSameBut
  <2> QED BY <1>3, <1>4, <1>5, <2>1 DEF Polls
<1>7. ValueCard(w') /\ ValueWriting(w') /\ ValuePending(w') /\ ValueFresh(w')
  BY <1>3, <1>5 DEF ValueCard, ValueWriting, ValuePending, ValueFresh
<1>8. ASSUME NEW i \in DOMAIN w.wire PROVE ~CurWrite(u.wire[i])
  <2>1. u.wire[i] \in ValueRequest /\ w.wire[i] \in ValueRequest BY <1>3 DEF ValueInv, ValueCard
  <2>2. w.wire[i].dev \in Supplies BY <2>1 DEF ValueRequest
  <2> QED BY <1>4, <2>2 DEF CurWrite
<1>9. ValueWrites(w')
  BY <1>3, <1>5, <1>8 DEF ValueWrites
<1> QED BY <1>6, <1>7, <1>9 DEF ValueInv

LEMMA ValuePollTick ==
  ASSUME ValueInv(w), Value!PollTick
  PROVE  ValueInv(w')
<1>1. ValueCard(w) BY DEF ValueInv
<1>2. PICK d \in w.up : w' = Value!Queried(w, d)
  BY DEF Value!PollTick
<1>3. d \in Supplies BY <1>1, <1>2 DEF ValueCard, ValueFields
<1>11. ValueCard(w') /\ ValueKept(w, w', d)
  BY <1>1, <1>2, <1>3, ValueQueried
<1>4. /\ ValueCard(w') /\ w'.config = w.config /\ w'.due = w.due /\ w'.phase = w.phase
      /\ w'.pending = w.pending /\ w'.done = w.done /\ w'.dev = w.dev
  BY <1>11 DEF ValueKept
<1>10. w'.snap[d].loading /\ \A e \in Supplies \ {d} : w'.snap[e] = w.snap[e]
  BY <1>11 DEF ValueKept
<1>5. (ValueOwnedBut(w, {d}) => ValueOwned(w')) /\ (ValueNoWrite(w) => ValueNoWrite(w'))
  BY <1>1, <1>2, <1>3, ValueQueried
<1>6. (ValueWriting(w) => ValueWriting(w')) /\ (ValueWrites(w) => ValueWrites(w'))
  BY <1>1, <1>2, <1>3, ValueQueried
<1>7. ValueOwnedBut(w, {d}) BY DEF ValueInv, ValueOwned, ValueOwnedBut
<1>8. ValuePending(w') BY <1>4 DEF ValueInv, ValuePending
<1>9. ValueFresh(w')
  <2>1. w.config \in Supplies BY <1>1 DEF ValueCard, ValueFields
  <2> QED BY <1>4, <1>5, <1>10, <2>1 DEF ValueInv, ValueFresh
<1> QED BY <1>4, <1>5, <1>6, <1>7, <1>8, <1>9 DEF ValueInv

LEMMA ValueSends ==
  ASSUME ValueInv(w), Value!SendValue
  PROVE  ValueInv(w')
<1>1. ValueCard(w) /\ ~w.due /\ w.phase # "writing" BY DEF ValueInv, Value!SendValue
<1>2. PICK v \in Values :
        w' = Value!Ask([w EXCEPT !.pending = TRUE, !.phase = "writing", !.done = FALSE],
                       [Value!Query(w.config) EXCEPT !.kind = "write", !.set = v])
  BY DEF Value!SendValue
<1>3. PICK u, r : /\ u = [w EXCEPT !.pending = TRUE, !.phase = "writing", !.done = FALSE]
                  /\ r = [Value!Query(w.config) EXCEPT !.kind = "write", !.set = v]
  OBVIOUS
<1>4. /\ ValueFields(u) /\ u.config = w.config /\ u.due = w.due /\ u.wire = w.wire /\ u.snap = w.snap
      /\ u.pending /\ u.phase = "writing" /\ ~u.done
  BY <1>1, <1>3 DEF ValueCard, ValueFields
<1>5. ValueCard(u) BY <1>1, <1>4 DEF ValueCard
<1>6. r \in ValueRequest /\ CurWrite(r) /\ r.dev = w.config /\ r.kind = "write"
  <2>1. w.config \in Supplies BY <1>1 DEF ValueCard, ValueFields
  <2>2. r = [kind |-> "write", dev |-> w.config, set |-> v, cur |-> TRUE] BY <1>3 DEF Value!Query
  <2> QED BY <2>1, <2>2 DEF ValueRequest, CurWrite
<1>7. ValueCard(w') /\ ValueSameBut(u, w') /\ Asked(w.wire, r, w'.wire)
  BY <1>2, <1>3, <1>4, <1>5, <1>6, ValueAsk
<1>8. PICK n : n = Len(w.wire) + 1
  OBVIOUS
<1>9. /\ n \in DOMAIN w'.wire /\ w'.wire[n] = r /\ \A k \in DOMAIN w'.wire : k = n \/ k \in DOMAIN w.wire
      /\ \A k \in DOMAIN w.wire : k \in DOMAIN w'.wire /\ w'.wire[k] = w.wire[k]
      /\ \A k \in DOMAIN w'.wire : k <= n
  BY <1>7, <1>8 DEF Asked
<1>10. \A k \in DOMAIN w.wire : ~CurWrite(w.wire[k])
  BY <1>1 DEF ValueInv, ValueWrites
<1>11. ValueOwned(w')
  <2> SUFFICES ASSUME NEW e \in Supplies, w'.snap[e].loading
               PROVE  \E i \in DOMAIN w'.wire : Polls(w'.wire[i], e)
    BY DEF ValueOwned, ValueOwnedBut
  <2>1. PICK i \in DOMAIN w.wire : Polls(w.wire[i], e)
    BY <1>4, <1>7 DEF ValueInv, ValueOwned, ValueOwnedBut, ValueSameBut
  <2> QED BY <1>9, <2>1
<1>12. ValueWriting(w') /\ ValuePending(w') /\ ValueFresh(w')
  BY <1>4, <1>6, <1>7, <1>9 DEF ValueWriting, ValuePending, ValueFresh, ValueSameBut
<1>13. ValueWrites(w')
  BY <1>4, <1>6, <1>7, <1>9, <1>10 DEF ValueWrites, ValueSameBut
<1> QED BY <1>7, <1>11, <1>12, <1>13 DEF ValueInv

LEMMA ValueRenders ==
  ASSUME ValueInv(w), ~w.due, Value!SaveSettings \/ Value!DeviceSwitches
  PROVE  ValueInv(w')
<1>1. ValueCard(w) BY DEF ValueInv
<1>2. CASE Value!SaveSettings
  <2>1. PICK d \in Supplies : w' = [w EXCEPT !.config = d, !.due = TRUE]
    BY <1>2 DEF Value!SaveSettings, Value!Saved
  <2>2. /\ ValueFields(w') /\ w'.due /\ w'.wire = w.wire /\ w'.snap = w.snap
        /\ w'.pending = w.pending /\ w'.phase = w.phase
    BY <1>1, <2>1 DEF ValueCard, ValueFields
  <2> QED BY <1>1, <2>2 DEF ValueInv, ValueCard, ValueOwned, ValueOwnedBut, ValueWriting, ValuePending, ValueWrites, ValueFresh
<1>3. CASE Value!DeviceSwitches
  <2>1. PICK d \in Supplies :
          w' = [Value!Disown(w, "query", {d}) EXCEPT
                  !.up = IF d \in @ THEN @ \ {d} ELSE @ \union {d}, !.snap[d] = Value!Blank, !.due = @ \/ d = w.config]
    BY <1>3 DEF Value!DeviceSwitches
  <2>2. PICK u : u = Value!Disown(w, "query", {d})
    OBVIOUS
  <2>3. ValueCard(u) /\ ValueSameBut(w, u) /\ DOMAIN u.wire = DOMAIN w.wire
    BY <1>1, <2>2, ValueDisown
  <2>4. \A i \in DOMAIN w.wire :
          /\ u.wire[i].kind = w.wire[i].kind /\ u.wire[i].dev = w.wire[i].dev
          /\ u.wire[i].cur <=> w.wire[i].cur /\ ~(w.wire[i].kind = "query" /\ w.wire[i].dev \in {d})
    BY <1>1, <2>2, ValueDisown
  <2>5. PICK b \in BOOLEAN : b = (u.due \/ d = w.config)
    OBVIOUS
  <2>6. PICK g, up : g = [u.snap EXCEPT ![d] = Value!Blank] /\ up = (IF d \in u.up THEN u.up \ {d} ELSE u.up \union {d})
    OBVIOUS
  <2>7. w' = [u EXCEPT !.up = up, !.snap = g, !.due = b]
    BY <2>1, <2>2, <2>5, <2>6
  <2>8. /\ g \in [Supplies -> Snapshot] /\ up \in SUBSET Supplies /\ ~g[d].loading
        /\ \A e \in Supplies \ {d} : g[e] = w.snap[e]
    <3>1. u.snap \in [Supplies -> Snapshot] /\ u.up \in SUBSET Supplies BY <2>3 DEF ValueCard, ValueFields
    <3>2. Value!Blank \in Snapshot /\ ~Value!Blank.loading BY DEF Snapshot, Value!Blank
    <3> QED BY <2>3, <2>6, <3>1, <3>2 DEF ValueSameBut
  <2>9. /\ ValueFields(w') /\ w'.due = b /\ w'.wire = u.wire /\ w'.snap = g /\ w'.config = w.config
        /\ w'.pending = w.pending /\ w'.phase = w.phase /\ w'.done = w.done /\ w'.dev = w.dev
    <3>1. /\ ValueFields(w') /\ w'.due = b /\ w'.wire = u.wire /\ w'.snap = g /\ w'.config = u.config
          /\ w'.pending = u.pending /\ w'.phase = u.phase /\ w'.done = u.done /\ w'.dev = u.dev
      BY <2>3, <2>7, <2>8 DEF ValueCard, ValueFields
    <3> QED BY <2>3, <3>1 DEF ValueSameBut
  <2>10. ValueOwned(w')
    <3> SUFFICES ASSUME NEW e \in Supplies, g[e].loading
                 PROVE  \E i \in DOMAIN u.wire : Polls(u.wire[i], e)
      BY <2>9 DEF ValueOwned, ValueOwnedBut
    <3>1. e # d /\ w.snap[e].loading BY <2>8
    <3>2. PICK i \in DOMAIN w.wire : Polls(w.wire[i], e)
      BY <3>1 DEF ValueInv, ValueOwned, ValueOwnedBut
    <3> QED BY <2>3, <2>4, <3>1, <3>2 DEF Polls
  <2>11. ValueCard(w') /\ ValuePending(w')
    BY <2>3, <2>9 DEF ValueInv, ValueCard, ValuePending
  <2>12. \A i \in DOMAIN w.wire : CurWrite(u.wire[i]) <=> CurWrite(w.wire[i])
    BY <2>4 DEF CurWrite
  <2>13. ~b => d # w.config
    BY <2>5
  <2>14. ValueWriting(w')
    BY <2>3, <2>9, <2>12 DEF ValueInv, ValueWriting
  <2>15. ValueWrites(w')
    BY <2>3, <2>4, <2>9, <2>12 DEF ValueInv, ValueWrites
  <2>16. ValueFresh(w')
    <3>1. w.config \in Supplies BY <1>1 DEF ValueCard, ValueFields
    <3>2. ValueNoWrite(w) => ValueNoWrite(w') BY <2>3, <2>4, <2>9 DEF ValueNoWrite
    <3> QED BY <2>8, <2>9, <2>13, <3>1, <3>2 DEF ValueInv, ValueFresh
  <2> QED BY <2>10, <2>11, <2>14, <2>15, <2>16 DEF ValueInv
<1> QED BY <1>2, <1>3

LEMMA ValueBegins ==
  ASSUME Value!Init
  PROVE  ValueInv(w)
<1>1. PICK d \in Supplies, v \in Values :
        w = [config |-> d, up |-> {}, due |-> TRUE, wire |-> <<>>, phase |-> "idle", pending |-> FALSE, done |-> FALSE,
             snap |-> [e \in Supplies |-> Value!Blank], dev |-> [e \in Supplies |-> v]]
  BY DEF Value!Init
<1>2. Wire(<<>>) /\ DOMAIN <<>> = {}
  BY DEF Wire
<1>3. Value!Blank \in Snapshot /\ ~Value!Blank.loading
  BY DEF Value!Blank, Snapshot
<1>4. ValueFields(w) /\ w.wire = <<>> /\ w.due /\ w.phase = "idle" /\ ~w.pending /\ w.snap = [e \in Supplies |-> Value!Blank]
  BY <1>1, <1>3 DEF ValueFields
<1>5. ValueCard(w) BY <1>2, <1>4 DEF ValueCard
<1> QED BY <1>2, <1>3, <1>4, <1>5 DEF ValueInv, ValueOwned, ValueOwnedBut, ValueWriting, ValuePending, ValueWrites, ValueFresh

LEMMA ValueSteps ==
  ASSUME ValueInv(w), Value!Next
  PROVE  ValueInv(w')
<1>1. CASE Value!Answer \/ Value!Finish \/ Value!RunEffects
  BY <1>1, ValueAnswer, ValueFinish, ValueRunEffects
<1>2. CASE ~w.due /\ (Value!SaveSettings \/ Value!DeviceSwitches)
  BY <1>2, ValueRenders
<1>3. CASE Value!SendValue \/ Value!PollTick
  BY <1>3, ValueSends, ValuePollTick
<1>4. CASE \E i \in DOMAIN w.wire : Value!Fails(i)
  <2>1. PICK i \in DOMAIN w.wire : Value!Fails(i) BY <1>4
  <2> QED BY <2>1, ValueFails
<1> QED BY <1>1, <1>2, <1>3, <1>4 DEF Value!Next

-----------------------------------------------------------------------------
(* The trigger.                                                            *)

TriggerRuntime(r) == r \in [slots : {r.slots}, loading : BOOLEAN, error : BOOLEAN]
TriggerRequest(f) == f \in [kind : {"read", "write"}, dev : {f.dev}, rest : {f.rest}, slots : {f.slots}, cur : BOOLEAN]
TriggerFields(x) ==
  x \in [config : {x.config}, up : {x.up}, due : BOOLEAN, wire : {x.wire}, rt : {x.rt}, draft : {x.draft}, dev : {x.dev}]
TriggerCard(x) ==
  TriggerFields(x) /\ TriggerRuntime(x.rt) /\ Wire(x.wire) /\ \A i \in DOMAIN x.wire : TriggerRequest(x.wire[i])

\* A card is busy while a request of its own is on its way.
TriggerBusy(x) == x.rt.loading <=> \E i \in DOMAIN x.wire : x.wire[i].cur
\* It is the last on the wire, and for the card's device.
TriggerAims(x) ==
  \A i \in DOMAIN x.wire : x.wire[i].cur => i = Len(x.wire) /\ (~x.due => x.wire[i].dev = x.config.dev)
\* At rest nothing is on its way, not even what is outdated.
TriggerResting(x) == x.config.dev \in x.up /\ ~x.due /\ ~x.rt.loading /\ ~x.rt.error
TriggerRest(x) == TriggerResting(x) => x.wire = <<>> /\ x.rt.slots = x.dev[x.config.dev]
TriggerInv(x) == TriggerCard(x) /\ TriggerBusy(x) /\ TriggerAims(x) /\ TriggerRest(x)

LEMMA TriggerTook ==
  ASSUME NEW x, TriggerInv(x), NEW i \in DOMAIN x.wire, NEW y, y = Trigger!Took(x, i)
  PROVE  /\ TriggerCard(y) /\ TriggerAims(y) /\ ~TriggerResting(y)
         /\ y.config = x.config /\ y.up = x.up /\ y.due = x.due /\ y.rt = x.rt /\ y.dev = x.dev
         /\ x.wire[i].cur => \A k \in DOMAIN y.wire : ~y.wire[k].cur
         /\ x.wire[i].cur /\ i = 1 => y.wire = <<>>
         /\ ~x.wire[i].cur => TriggerInv(y)
<1>1. PICK s, q : s = x.wire /\ q = RemoveAt(s, i)
  OBVIOUS
<1>2. Wire(s) /\ i \in DOMAIN s
  BY <1>1 DEF TriggerInv, TriggerCard
<1>0. Taken(s, i, q)
  BY <1>1, <1>2, WireTaken
<1>3. Wire(q) /\ Len(s) \in Nat /\ DOMAIN s = 1..Len(s) /\ Len(q) = Len(s) - 1 /\ DOMAIN q = 1..(Len(s) - 1)
  BY <1>0 DEF Taken
<1>4. \A k \in DOMAIN q : q[k] = s[IF k < i THEN k ELSE k + 1]
  BY <1>0 DEF Taken
<1>5. \A k \in DOMAIN q : \E j \in DOMAIN s : j # i /\ q[k] = s[j]
  BY <1>0 DEF Taken
<1>6. \A j \in DOMAIN s : j # i => \E k \in DOMAIN q : q[k] = s[j]
  BY <1>0 DEF Taken
<1>7. y = [x EXCEPT !.wire = q]
  BY <1>1 DEF Trigger!Took, RemoveAt
<1>8. /\ TriggerFields(y)
      /\ y.wire = q /\ y.config = x.config /\ y.up = x.up /\ y.due = x.due /\ y.rt = x.rt /\ y.dev = x.dev
  BY <1>7 DEF TriggerInv, TriggerCard, TriggerFields
<1>9. TriggerCard(y)
  BY <1>1, <1>3, <1>5, <1>8 DEF TriggerInv, TriggerCard
<1>10. TriggerAims(x) /\ TriggerBusy(x) /\ TriggerRest(x)
  BY DEF TriggerInv
<1>11. TriggerAims(y)
  <2> SUFFICES ASSUME NEW k \in DOMAIN y.wire, y.wire[k].cur
               PROVE  k = Len(y.wire) /\ (~y.due => y.wire[k].dev = y.config.dev)
    BY DEF TriggerAims
  <2>1. PICK j : j = (IF k < i THEN k ELSE k + 1)
    OBVIOUS
  <2>2. j \in DOMAIN s /\ y.wire[k] = s[j]
    BY <1>2, <1>3, <1>4, <1>8, <2>1
  <2>3. j = Len(s) /\ (~x.due => s[j].dev = x.config.dev)
    BY <1>1, <1>10, <2>2 DEF TriggerAims
  <2> QED BY <1>2, <1>3, <1>8, <2>1, <2>2, <2>3
<1>12. ~TriggerResting(y)
  <2>1. x.wire # <<>> BY <1>1, <1>3, <1>2
  <2> QED BY <1>8, <1>10, <2>1 DEF TriggerRest, TriggerResting
<1>13. ASSUME x.wire[i].cur, NEW k \in DOMAIN y.wire PROVE ~y.wire[k].cur
  BY <1>1, <1>5, <1>8, <1>10, <1>13 DEF TriggerAims
<1>14. ASSUME x.wire[i].cur, i = 1 PROVE y.wire = <<>>
  BY <1>1, <1>3, <1>8, <1>10, <1>14 DEF TriggerAims, Wire
<1>15. ASSUME ~x.wire[i].cur PROVE TriggerInv(y)
  <2>1. TriggerBusy(y)
    BY <1>1, <1>5, <1>6, <1>8, <1>10, <1>15 DEF TriggerBusy
  <2> QED BY <1>9, <1>11, <1>12, <2>1 DEF TriggerInv, TriggerRest
<1> QED BY <1>8, <1>9, <1>11, <1>12, <1>13, <1>14, <1>15

LEMMA TriggerOutdated ==
  ASSUME NEW x, TriggerCard(x), NEW y, y = Trigger!Outdated(x)
  PROVE  /\ TriggerCard(y) /\ \A i \in DOMAIN y.wire : ~y.wire[i].cur
         /\ y.config = x.config /\ y.up = x.up /\ y.due = x.due /\ y.rt = x.rt
<1>1. PICK g : g = [i \in DOMAIN x.wire |-> [x.wire[i] EXCEPT !.cur = FALSE]]
  OBVIOUS
<1>2. Wire(g) /\ DOMAIN g = DOMAIN x.wire
  <2>1. g = [i \in DOMAIN x.wire |-> g[i]] BY <1>1
  <2> QED BY <2>1, WireMapped DEF TriggerCard
<1>3. ASSUME NEW i \in DOMAIN x.wire PROVE TriggerRequest(g[i]) /\ ~g[i].cur
  <2>1. PICK r : r = x.wire[i]
    OBVIOUS
  <2>2. TriggerRequest(r) /\ g[i] = [r EXCEPT !.cur = FALSE]
    BY <1>1, <2>1 DEF TriggerCard
  <2> QED BY <2>2 DEF TriggerRequest
<1>4. y = [x EXCEPT !.wire = g]
  BY <1>1 DEF Trigger!Outdated, TriggerCard, TriggerFields
<1>5. TriggerFields(y) /\ y.wire = g /\ y.config = x.config /\ y.up = x.up /\ y.due = x.due /\ y.rt = x.rt
  BY <1>4 DEF TriggerCard, TriggerFields
<1> QED BY <1>2, <1>3, <1>5 DEF TriggerCard

\* A request of the card's is asked for when no other is.
LEMMA TriggerAsks ==
  ASSUME NEW x, TriggerCard(x), \A i \in DOMAIN x.wire : ~x.wire[i].cur, x.rt.loading,
         NEW r, TriggerRequest(r), r.cur, ~x.due => r.dev = x.config.dev, NEW y, y = Trigger!Ask(x, r)
  PROVE  TriggerInv(y)
<1>1. PICK s, q : s = x.wire /\ q = Append(s, r)
  OBVIOUS
<1>2. Wire(s)
  BY <1>1 DEF TriggerCard
<1>3. Asked(s, r, q)
  BY <1>1, <1>2, WireAsked
<1>4. /\ Wire(q) /\ Len(s) \in Nat /\ DOMAIN s = 1..Len(s) /\ Len(q) = Len(s) + 1 /\ DOMAIN q = 1..(Len(s) + 1)
      /\ q[Len(s) + 1] = r /\ \A k \in DOMAIN s : k \in DOMAIN q /\ q[k] = s[k]
  BY <1>3 DEF Asked
<1>5. y = [x EXCEPT !.wire = q]
  BY <1>1 DEF Trigger!Ask
<1>6. TriggerFields(y) /\ y.wire = q /\ y.config = x.config /\ y.up = x.up /\ y.due = x.due /\ y.rt = x.rt
  BY <1>5 DEF TriggerCard, TriggerFields
<1>7. \A k \in DOMAIN q : k = Len(s) + 1 \/ k \in DOMAIN s
  BY <1>4
<1>8. TriggerCard(y)
  BY <1>1, <1>4, <1>6, <1>7 DEF TriggerCard
<1>9. Len(s) + 1 \in DOMAIN q
  BY <1>4
<1>10. TriggerBusy(y)
  BY <1>4, <1>6, <1>9 DEF TriggerBusy
<1>11. TriggerAims(y)
  BY <1>1, <1>4, <1>6, <1>7 DEF TriggerAims
<1> QED BY <1>6, <1>8, <1>10, <1>11 DEF TriggerInv, TriggerRest, TriggerResting

LEMMA TriggerLoads ==
  ASSUME NEW x, TriggerCard(x), NEW y, y = Trigger!Loading(x)
  PROVE  TriggerCard(y) /\ y.rt.loading /\ y.config = x.config /\ y.due = x.due /\ y.wire = x.wire
<1>1. PICK r, s : r = x.rt /\ s = [r EXCEPT !.loading = TRUE, !.error = FALSE]
  OBVIOUS
<1>2. y = [x EXCEPT !.rt = s]
  BY <1>1 DEF Trigger!Loading, TriggerCard, TriggerFields
<1>3. TriggerRuntime(s) /\ s.loading
  <2>1. TriggerRuntime(r) BY <1>1 DEF TriggerCard
  <2> QED BY <1>1, <2>1 DEF TriggerRuntime
<1>4. TriggerFields(y) /\ y.rt = s /\ y.config = x.config /\ y.due = x.due /\ y.wire = x.wire
  BY <1>2 DEF TriggerCard, TriggerFields
<1> QED BY <1>3, <1>4 DEF TriggerCard

LEMMA TriggerRefreshes ==
  ASSUME NEW x, TriggerCard(x), NEW d, ~x.due => d = x.config.dev, NEW y, y = Trigger!Refresh(x, d)
  PROVE  TriggerInv(y)
<1>1. PICK u, v, r : u = Trigger!Outdated(x) /\ v = Trigger!Loading(u) /\ r = Trigger!Request("read", x, d, <<>>)
  OBVIOUS
<1>2. TriggerCard(u) /\ (\A i \in DOMAIN u.wire : ~u.wire[i].cur) /\ u.config = x.config /\ u.due = x.due
  BY <1>1, TriggerOutdated
<1>3. TriggerCard(v) /\ v.rt.loading /\ v.config = u.config /\ v.due = u.due /\ v.wire = u.wire
  BY <1>1, <1>2, TriggerLoads
<1>4. TriggerRequest(r) /\ r.cur /\ r.dev = d
  BY <1>1 DEF Trigger!Request, TriggerRequest
<1>5. y = Trigger!Ask(v, r)
  BY <1>1 DEF Trigger!Refresh
<1> QED BY <1>2, <1>3, <1>4, <1>5, TriggerAsks

\* What the card shows is replaced, when it waits for nothing.
LEMMA TriggerShows ==
  ASSUME NEW x, TriggerCard(x), \A i \in DOMAIN x.wire : ~x.wire[i].cur,
         NEW r, TriggerRuntime(r), ~r.loading, NEW y, y = Trigger!Show(x, r),
         \/ r.error
         \/ x.config.dev \notin x.up
         \/ x.due
         \/ x.wire = <<>> /\ r.slots = x.dev[x.config.dev]
  PROVE  TriggerInv(y) /\ y.config = x.config /\ y.due = x.due /\ y.up = x.up
<1>1. y = [x EXCEPT !.rt = r, !.draft = r.slots]
  BY DEF Trigger!Show
<1>2. /\ TriggerFields(y) /\ y.rt = r /\ y.wire = x.wire /\ y.config = x.config /\ y.due = x.due /\ y.up = x.up
      /\ y.dev = x.dev
  BY <1>1 DEF TriggerCard, TriggerFields
<1>3. TriggerCard(y) /\ TriggerBusy(y) /\ TriggerAims(y)
  BY <1>2 DEF TriggerCard, TriggerBusy, TriggerAims
<1>4. TriggerRest(y)
  BY <1>2 DEF TriggerRest, TriggerResting
<1> QED BY <1>2, <1>3, <1>4 DEF TriggerInv

\* The card takes no notice of what a device is set to while it waits.
LEMMA TriggerWritten ==
  ASSUME NEW x, TriggerCard(x), NEW f, NEW y, y = Trigger!Written(x, f)
  PROVE  /\ TriggerCard(y) /\ y.wire = x.wire /\ y.config = x.config /\ y.up = x.up /\ y.due = x.due /\ y.rt = x.rt
         /\ TriggerInv(x) /\ ~TriggerResting(x) => TriggerInv(y)
<1>1. PICK a, b, c : a = f.dev /\ b = Head(f.rest) /\ c = f.slots[Head(f.rest)]
  OBVIOUS
<1>2. y = [x EXCEPT !.dev[a][b] = c]
  BY <1>1 DEF Trigger!Written
<1>3. PICK e : y = [x EXCEPT !.dev = e]
  BY <1>2
<1>4. /\ TriggerFields(y) /\ y.wire = x.wire /\ y.config = x.config /\ y.up = x.up /\ y.due = x.due /\ y.rt = x.rt
  BY <1>3 DEF TriggerCard, TriggerFields
<1>5. TriggerCard(y)
  BY <1>4 DEF TriggerCard
<1>6. ASSUME TriggerInv(x), ~TriggerResting(x) PROVE TriggerInv(y)
  <2>1. TriggerBusy(y) /\ TriggerAims(y) BY <1>4, <1>6 DEF TriggerInv, TriggerBusy, TriggerAims
  <2>2. TriggerRest(y) BY <1>4, <1>6 DEF TriggerRest, TriggerResting
  <2> QED BY <1>5, <2>1, <2>2 DEF TriggerInv
<1> QED BY <1>4, <1>5, <1>6

LEMMA TriggerAnswer ==
  ASSUME TriggerInv(w), Trigger!Answer
  PROVE  TriggerInv(w')
<1>1. PICK f, x, y : f = w.wire[1] /\ x = Trigger!Took(w, 1) /\ y = Trigger!Written(x, f)
  OBVIOUS
<1>2. 1 \in DOMAIN w.wire /\ Head(w.wire) = f /\ TriggerRequest(f) /\ (~w.due /\ f.cur => f.dev = w.config.dev)
  <2>1. Wire(w.wire) /\ w.wire # <<>> BY DEF TriggerInv, TriggerCard, Trigger!Answer
  <2>2. 1 \in DOMAIN w.wire /\ Head(w.wire) = w.wire[1] BY <2>1 DEF Wire
  <2> QED BY <1>1, <2>2 DEF TriggerInv, TriggerCard, TriggerAims
<1>3. /\ TriggerCard(x) /\ ~TriggerResting(x)
      /\ x.config = w.config /\ x.up = w.up /\ x.due = w.due /\ x.rt = w.rt /\ x.dev = w.dev
  BY <1>1, <1>2, TriggerTook
<1>4. /\ f.cur => (\A k \in DOMAIN x.wire : ~x.wire[k].cur) /\ x.wire = <<>>
      /\ ~f.cur => TriggerInv(x)
  BY <1>1, <1>2, TriggerTook
<1>5. /\ TriggerCard(y) /\ y.wire = x.wire /\ y.config = x.config /\ y.up = x.up /\ y.due = x.due /\ y.rt = x.rt
      /\ TriggerInv(x) => TriggerInv(y)
  BY <1>1, <1>3, TriggerWritten
<1>6. IF f.kind = "read" THEN Trigger!ReadAnswer(x, f) ELSE Trigger!WriteAnswer(x, f)
  BY <1>1, <1>2 DEF Trigger!Answer
<1>7. CASE f.kind = "read"
  <2>1. w' = IF f.cur THEN Trigger!Show(x, [Trigger!Initial EXCEPT !.slots = x.dev[f.dev]]) ELSE x
    BY <1>6, <1>7 DEF Trigger!ReadAnswer
  <2>2. CASE f.cur
    <3>1. PICK r : r = [Trigger!Initial EXCEPT !.slots = x.dev[f.dev]]
      OBVIOUS
    <3>2. TriggerRuntime(r) /\ ~r.loading /\ r.slots = x.dev[f.dev]
      BY <3>1 DEF Trigger!Initial, TriggerRuntime
    <3>3. w' = Trigger!Show(x, r)
      BY <2>1, <2>2, <3>1
    <3>4. x.due \/ (x.wire = <<>> /\ r.slots = x.dev[x.config.dev])
      BY <1>2, <1>3, <1>4, <2>2, <3>2
    <3> QED BY <1>3, <1>4, <2>2, <3>2, <3>3, <3>4, TriggerShows
  <2>3. CASE ~f.cur BY <1>4, <2>1, <2>3
  <2> QED BY <2>2, <2>3
<1>8. CASE f.kind # "read"
  <2>1. w' = IF ~f.cur THEN y
             ELSE IF Len(f.rest) > 1 THEN Trigger!Ask(y, [f EXCEPT !.rest = Tail(@)])
             ELSE Trigger!Refresh(y, f.dev)
    BY <1>1, <1>6, <1>8 DEF Trigger!WriteAnswer
  <2>2. CASE ~f.cur BY <1>4, <1>5, <2>1, <2>2
  <2>3. CASE f.cur /\ Len(f.rest) > 1
    <3>1. PICK r : r = [f EXCEPT !.rest = Tail(@)]
      OBVIOUS
    <3>2. TriggerRequest(r) /\ r.cur /\ r.dev = f.dev
      BY <1>2, <2>3, <3>1 DEF TriggerRequest
    <3>3. w' = Trigger!Ask(y, r)
      BY <2>1, <2>3, <3>1
    <3>4. y.rt.loading
      BY <1>1, <1>2, <1>3, <1>5, <2>3 DEF TriggerInv, TriggerBusy
    <3>5. (\A i \in DOMAIN y.wire : ~y.wire[i].cur) /\ (~y.due => r.dev = y.config.dev)
      BY <1>2, <1>3, <1>4, <1>5, <2>3, <3>2
    <3> QED BY <1>5, <3>2, <3>3, <3>4, <3>5, TriggerAsks
  <2>4. CASE f.cur /\ ~(Len(f.rest) > 1)
    <3>1. ~y.due => f.dev = y.config.dev BY <1>2, <1>3, <1>5, <2>4
    <3> QED BY <1>5, <2>1, <2>4, <3>1, TriggerRefreshes
  <2> QED BY <2>2, <2>3, <2>4
<1> QED BY <1>7, <1>8

LEMMA TriggerFails ==
  ASSUME TriggerInv(w), NEW i \in DOMAIN w.wire, Trigger!Fails(i)
  PROVE  TriggerInv(w')
<1>1. PICK f, u : f = w.wire[i] /\ u = Trigger!Took(w, i)
  OBVIOUS
<1>2. PICK x : /\ x = u \/ x = Trigger!Written(u, f)
               /\ w' = IF ~f.cur THEN x
                       ELSE IF f.kind = "read" THEN Trigger!Show(x, Trigger!Failed(x).rt) ELSE Trigger!Failed(x)
  BY <1>1 DEF Trigger!Fails
<1>3. TriggerCard(u) /\ ~TriggerResting(u)
  BY <1>1, TriggerTook
<1>4. /\ f.cur => \A k \in DOMAIN u.wire : ~u.wire[k].cur
      /\ ~f.cur => TriggerInv(u)
  BY <1>1, TriggerTook
<1>5. /\ TriggerCard(x)
      /\ f.cur => \A k \in DOMAIN x.wire : ~x.wire[k].cur
      /\ ~f.cur => TriggerInv(x)
  <2>1. CASE x = u BY <1>3, <1>4, <2>1
  <2>2. CASE x = Trigger!Written(u, f)
    <3>1. TriggerCard(x) /\ x.wire = u.wire BY <1>3, <2>2, TriggerWritten
    <3>2. TriggerInv(u) => TriggerInv(x) BY <1>3, <2>2, TriggerWritten
    <3> QED BY <1>4, <3>1, <3>2
  <2> QED BY <1>2, <2>1, <2>2
<1>6. CASE ~f.cur BY <1>2, <1>5, <1>6
<1>7. CASE f.cur
  <2>1. PICK r, s, y : r = x.rt /\ s = [r EXCEPT !.loading = FALSE, !.error = TRUE] /\ y = Trigger!Failed(x)
    OBVIOUS
  <2>2. y = [x EXCEPT !.rt = s]
    BY <1>5, <2>1 DEF Trigger!Failed, TriggerCard, TriggerFields
  <2>3. TriggerRuntime(s) /\ ~s.loading /\ s.error
    <3>1. TriggerRuntime(r) BY <1>5, <2>1 DEF TriggerCard
    <3> QED BY <2>1, <3>1 DEF TriggerRuntime
  <2>4. TriggerFields(y) /\ y.rt = s /\ y.wire = x.wire
    BY <1>5, <2>2 DEF TriggerCard, TriggerFields
  <2>5. CASE f.kind = "read"
    <3>1. w' = Trigger!Show(x, s) BY <1>2, <1>7, <2>1, <2>4, <2>5
    <3> QED BY <1>5, <1>7, <2>3, <3>1, TriggerShows
  <2>6. CASE f.kind # "read"
    <3>1. w' = y BY <1>2, <1>7, <2>1, <2>6
    <3>2. TriggerCard(y) BY <1>5, <2>3, <2>4 DEF TriggerCard
    <3>3. TriggerBusy(y) /\ TriggerAims(y) BY <1>5, <1>7, <2>3, <2>4 DEF TriggerBusy, TriggerAims
    <3>4. TriggerRest(y) BY <2>3, <2>4 DEF TriggerRest, TriggerResting
    <3> QED BY <3>1, <3>2, <3>3, <3>4 DEF TriggerInv
  <2> QED BY <2>5, <2>6
<1> QED BY <1>6, <1>7

LEMMA TriggerClick ==
  ASSUME TriggerInv(w), Trigger!ClickSave
  PROVE  TriggerInv(w')
<1>1. TriggerCard(w) /\ \A i \in DOMAIN w.wire : ~w.wire[i].cur
  BY DEF TriggerInv, TriggerBusy, Trigger!ClickSave
<1>2. PICK rest : w' = Trigger!Ask(Trigger!Loading(w), Trigger!Request("write", w, w.config.dev, rest))
  BY DEF Trigger!ClickSave
<1>3. PICK v, r : v = Trigger!Loading(w) /\ r = Trigger!Request("write", w, w.config.dev, rest)
  OBVIOUS
<1>4. TriggerCard(v) /\ v.rt.loading /\ v.config = w.config /\ v.due = w.due /\ v.wire = w.wire
  BY <1>1, <1>3, TriggerLoads
<1>5. TriggerRequest(r) /\ r.cur /\ r.dev = w.config.dev
  BY <1>3 DEF Trigger!Request, TriggerRequest
<1>6. w' = Trigger!Ask(v, r)
  BY <1>2, <1>3
<1> QED BY <1>1, <1>4, <1>5, <1>6, TriggerAsks

LEMMA TriggerRunEffects ==
  ASSUME TriggerInv(w), Trigger!RunEffects
  PROVE  TriggerInv(w')
<1>1. PICK t, u, x : t = [w EXCEPT !.due = FALSE] /\ u = Trigger!Outdated(t) /\ x = Trigger!Show(u, Trigger!Initial)
  OBVIOUS
<1>2. TriggerCard(t)
  <2>1. TriggerFields(t) /\ t.wire = w.wire /\ t.rt = w.rt
    BY <1>1 DEF TriggerInv, TriggerCard, TriggerFields
  <2> QED BY <2>1 DEF TriggerInv, TriggerCard
<1>3. TriggerCard(u) /\ \A i \in DOMAIN u.wire : ~u.wire[i].cur
  BY <1>1, <1>2, TriggerOutdated
<1>4. PICK r : r = Trigger!Initial
  OBVIOUS
<1>5. TriggerRuntime(r) /\ ~r.loading
  BY <1>4 DEF Trigger!Initial, TriggerRuntime
<1>6. w' = IF Trigger!Available(x) THEN Trigger!Refresh(x, x.config.dev) ELSE x
  BY <1>1 DEF Trigger!RunEffects
<1>7. x = [u EXCEPT !.rt = r, !.draft = r.slots]
  BY <1>1, <1>4 DEF Trigger!Show
<1>8. TriggerFields(x) /\ x.rt = r /\ x.wire = u.wire /\ x.config = u.config /\ x.up = u.up
  BY <1>3, <1>7 DEF TriggerCard, TriggerFields
<1>9. TriggerCard(x)
  BY <1>3, <1>5, <1>8 DEF TriggerCard
<1>10. CASE Trigger!Available(x)
  BY <1>6, <1>9, <1>10, TriggerRefreshes
<1>11. CASE ~Trigger!Available(x)
  <2>1. u.config.dev \notin u.up BY <1>8, <1>11 DEF Trigger!Available
  <2>2. x = Trigger!Show(u, r) BY <1>1, <1>4
  <2>3. TriggerInv(x) BY <1>3, <1>5, <2>1, <2>2, TriggerShows
  <2> QED BY <1>6, <1>11, <2>3
<1> QED BY <1>10, <1>11

\* A card that was left as it is, but for what waits for its effects.
LEMMA TriggerDue ==
  ASSUME NEW x, TriggerInv(x), NEW y, TriggerFields(y), y.wire = x.wire, y.rt = x.rt, y.due
  PROVE  TriggerInv(y)
BY DEF TriggerInv, TriggerCard, TriggerBusy, TriggerAims, TriggerRest, TriggerResting

LEMMA TriggerStays ==
  ASSUME NEW x, TriggerInv(x), NEW y, TriggerFields(y), y.wire = x.wire, y.rt = x.rt, y.due = x.due, y.dev = x.dev,
         y.config = x.config, y.config.dev \in y.up => x.config.dev \in x.up
  PROVE  TriggerInv(y)
BY DEF TriggerInv, TriggerCard, TriggerBusy, TriggerAims, TriggerRest, TriggerResting

LEMMA TriggerDrafts ==
  ASSUME TriggerInv(w), Trigger!EditDraft
  PROVE  TriggerInv(w')
<1>1. PICK s, v : w' = [w EXCEPT !.draft[s] = v]
  BY DEF Trigger!EditDraft
<1>2. /\ TriggerFields(w') /\ w'.wire = w.wire /\ w'.rt = w.rt /\ w'.due = w.due /\ w'.dev = w.dev
      /\ w'.config = w.config /\ w'.up = w.up
  BY <1>1 DEF TriggerInv, TriggerCard, TriggerFields
<1> QED BY <1>2, TriggerStays

LEMMA TriggerRenders ==
  ASSUME TriggerInv(w), ~w.due, Trigger!SaveSettings \/ Trigger!ConfigReloaded \/ Trigger!DeviceSwitches
  PROVE  TriggerInv(w')
<1>1. TriggerFields(w)
  BY DEF TriggerInv, TriggerCard
<1>2. CASE Trigger!SaveSettings
  <2>1. PICK c : w' = [w EXCEPT !.config = c, !.due = TRUE]
    BY <1>2 DEF Trigger!SaveSettings, Trigger!Saved
  <2>2. TriggerFields(w') /\ w'.wire = w.wire /\ w'.rt = w.rt /\ w'.due
    BY <1>1, <2>1 DEF TriggerFields
  <2> QED BY <2>2, TriggerDue
<1>3. CASE Trigger!ConfigReloaded
  <2>1. w' = [w EXCEPT !.due = TRUE]
    BY <1>3 DEF Trigger!ConfigReloaded, Trigger!Reloaded
  <2>2. TriggerFields(w') /\ w'.wire = w.wire /\ w'.rt = w.rt /\ w'.due
    BY <1>1, <2>1 DEF TriggerFields
  <2> QED BY <2>2, TriggerDue
<1>4. CASE Trigger!DeviceSwitches
  <2>1. PICK d : w' = Trigger!Switched(w, d)
    BY <1>4 DEF Trigger!DeviceSwitches
  <2>2. PICK x : x = [w EXCEPT !.up = IF d \in @ THEN @ \ {d} ELSE @ \union {d}]
    OBVIOUS
  <2>3. /\ TriggerFields(x) /\ x.wire = w.wire /\ x.rt = w.rt /\ x.config = w.config /\ x.due = w.due /\ x.dev = w.dev
    BY <1>1, <2>2 DEF TriggerFields
  <2>4. PICK b \in BOOLEAN : b = (x.due \/ Trigger!Available(x) # Trigger!Available(w))
    OBVIOUS
  <2>5. w' = [x EXCEPT !.due = b]
    BY <2>1, <2>2, <2>4 DEF Trigger!Switched
  <2>6. /\ TriggerFields(w') /\ w'.wire = w.wire /\ w'.rt = w.rt /\ w'.config = w.config /\ w'.due = b /\ w'.dev = w.dev
        /\ w'.up = x.up
    BY <2>3, <2>5 DEF TriggerFields
  <2>7. CASE b BY <2>6, <2>7, TriggerDue
  <2>8. CASE ~b
    <3>1. w'.config.dev \in w'.up => w.config.dev \in w.up
      BY <2>3, <2>4, <2>6, <2>8 DEF Trigger!Available
    <3>2. w.due \in BOOLEAN BY <1>1 DEF TriggerFields
    <3>3. w'.due = w.due BY <2>6, <2>8, <3>2
    <3> QED BY <2>6, <3>1, <3>3, TriggerStays
  <2> QED BY <2>7, <2>8
<1> QED BY <1>2, <1>3, <1>4

LEMMA TriggerBegins ==
  ASSUME Trigger!Init
  PROVE  TriggerInv(w)
<1>1. PICK d, dev : w = [config |-> [dev |-> d], up |-> {}, due |-> TRUE, wire |-> <<>>, rt |-> Trigger!Initial,
                         draft |-> Trigger!Unread, dev |-> dev]
  BY DEF Trigger!Init
<1>2. TriggerRuntime(Trigger!Initial) /\ ~Trigger!Initial.loading
  BY DEF TriggerRuntime, Trigger!Initial
<1>3. Wire(<<>>) /\ DOMAIN <<>> = {}
  BY DEF Wire
<1>4. TriggerFields(w) /\ w.wire = <<>> /\ w.rt = Trigger!Initial /\ w.due
  BY <1>1 DEF TriggerFields
<1> QED BY <1>2, <1>3, <1>4 DEF TriggerInv, TriggerCard, TriggerBusy, TriggerAims, TriggerRest, TriggerResting

LEMMA TriggerSteps ==
  ASSUME TriggerInv(w), Trigger!Next
  PROVE  TriggerInv(w')
<1>1. CASE Trigger!Answer \/ Trigger!EditDraft
  BY <1>1, TriggerAnswer, TriggerDrafts
<1>2. CASE ~w.due /\ (Trigger!SaveSettings \/ Trigger!ConfigReloaded \/ Trigger!DeviceSwitches)
  BY <1>2, TriggerRenders
<1>3. CASE Trigger!ClickSave \/ Trigger!RunEffects
  BY <1>3, TriggerClick, TriggerRunEffects
<1>4. CASE \E i \in DOMAIN w.wire : Trigger!Fails(i)
  <2>1. PICK i \in DOMAIN w.wire : Trigger!Fails(i) BY <1>4
  <2> QED BY <2>1, TriggerFails
<1> QED BY <1>1, <1>2, <1>3, <1>4 DEF Trigger!Next

-----------------------------------------------------------------------------
(* The protection.                                                         *)

Texts == Values \union {"unknown", "on", "off"}
ProtectedDevice == [value : Texts, enabled : Texts, tripped : Nat]
ProtectedShown(r) == r \in [value : Texts, enabled : Texts, tripped : {r.tripped}, loading : BOOLEAN, error : BOOLEAN]
Part(d) == IF d \in Switchable THEN <<"tripped", "enabled">> ELSE <<"tripped">>
Setting(f) == f.kind \in {"apply", "enable"}
Reading(f) == f.kind \in {"full", "poll"}
ProtectedRequest(f) ==
  /\ f \in [kind : {"apply", "enable", "full", "poll"}, dev : Supplies, read : {f.read}, got : {f.got}, set : Texts,
            cur : BOOLEAN, held : BOOLEAN]
  /\ ProtectedShown(f.got) /\ ~f.got.loading /\ ~f.got.error
  /\ f.kind = "poll" => f.read = <<"tripped">>
  /\ f.kind = "full" => f.read \in {Protected!Whole(f.dev), Part(f.dev), <<"enabled">>}
  /\ f.kind = "enable" => f.dev \in Switchable
ProtectedFields(x) ==
  x \in [config : [dev : Supplies], up : {x.up}, due : BOOLEAN, wire : {x.wire}, rt : {x.rt}, draft : Texts,
         last : {"unknown", "yes", "no"}, seen : [dev : Supplies, run : BOOLEAN], told : {x.told}, again : {FALSE},
         trips : Nat, dev : [Supplies -> ProtectedDevice]]
ProtectedCard(x) ==
  ProtectedFields(x) /\ ProtectedShown(x.rt) /\ Wire(x.wire) /\ \A i \in DOMAIN x.wire : ProtectedRequest(x.wire[i])

Task(f) == f.cur /\ f.kind # "poll"
Reader(f) == f.cur /\ Reading(f)
Full(f) == f.cur /\ f.kind = "full"
NoSetting(x) == \A i \in DOMAIN x.wire : ~Setting(x.wire[i])
NoTask(x) == \A i \in DOMAIN x.wire : ~Task(x.wire[i])
NoReader(x) == \A i \in DOMAIN x.wire : ~Reader(x.wire[i])

\* The card is busy while one full reading or write of its own is on its way.
ProtectedBusy(x) ==
  /\ \A i, j \in DOMAIN x.wire : Task(x.wire[i]) /\ Task(x.wire[j]) => i = j
  /\ x.rt.loading <=> \E i \in DOMAIN x.wire : Task(x.wire[i])
\* A session is that of the configuration when the effects have run, and
\* what is of the session is for its device.
ProtectedSession(x) ==
  /\ ~x.due => x.seen = [dev |-> x.config.dev, run |-> x.config.dev \in x.up]
  /\ \A i \in DOMAIN x.wire : x.wire[i].cur => x.wire[i].dev = x.seen.dev
\* The references to the promises of readings are kept no longer and no
\* shorter than what they read is of use; one reading is, at a time.
ProtectedHeld(x) ==
  /\ \A i \in DOMAIN x.wire : x.wire[i].kind = "full" => (x.wire[i].held <=> x.wire[i].cur)
  /\ \A i \in DOMAIN x.wire : Reader(x.wire[i]) => x.wire[i].held
  /\ \A i, j \in DOMAIN x.wire : Reader(x.wire[i]) /\ Reader(x.wire[j]) => i = j
\* What a full reading has read of a trip can be told as it will be.
TripRead(x, t) ==
  /\ t.is \in {"unknown", "yes", "no"} /\ t.n \in 0..x.trips
  /\ t.is = "yes" => t.n > 0 /\ (x.last # "yes" => t.n \notin x.told)
  /\ t.is = "no" => x.dev[x.seen.dev].tripped \notin x.told
\* No write is behind a full reading, or on its way when it has begun.
Begun(x, f) == f.read = Part(f.dev) \/ (f.read = <<"enabled">> /\ f.dev \in Switchable /\ TripRead(x, f.got.tripped))
ProtectedReading(x) ==
  \A i \in DOMAIN x.wire : Full(x.wire[i]) =>
    /\ \A j \in DOMAIN x.wire : Setting(x.wire[j]) => j < i
    /\ \/ x.wire[i].read = Protected!Whole(x.wire[i].dev)
       \/ Begun(x, x.wire[i]) /\ NoSetting(x) /\ x.wire[i].got.value = x.dev[x.wire[i].dev].value
    /\ x.wire[i].got.enabled = "unknown"
ProtectedResting(x) == ~x.due /\ x.config.dev \in x.up /\ ~x.rt.loading /\ ~x.rt.error
ProtectedRest(x) ==
  ProtectedResting(x) =>
    NoSetting(x) /\ x.rt.value = x.dev[x.config.dev].value /\ x.rt.enabled = x.dev[x.config.dev].enabled
\* What was told are trips, and none that could be told now.
ProtectedTrips(x) ==
  /\ x.told \subseteq 1..x.trips
  /\ \A d \in Supplies : x.dev[d].tripped \in 0..x.trips /\ (d \notin Switchable => x.dev[d].enabled = "unknown")
  /\ x.last = "unknown" => x.told = {}
  /\ x.last # "yes" => x.dev[x.seen.dev].tripped \notin x.told
ProtectedSound(x) ==
  ProtectedCard(x) /\ ProtectedSession(x) /\ ProtectedHeld(x) /\ ProtectedReading(x) /\ ProtectedTrips(x)
ProtectedInv(x) == ProtectedSound(x) /\ ProtectedBusy(x) /\ ProtectedRest(x)

\* Everything but the wire is the same.
ProtectedSameBut(x, y) ==
  /\ y.config = x.config /\ y.up = x.up /\ y.due = x.due /\ y.rt = x.rt /\ y.draft = x.draft /\ y.last = x.last
  /\ y.seen = x.seen /\ y.told = x.told /\ y.trips = x.trips /\ y.dev = x.dev

\* Another wire.
LEMMA ProtectedRewired ==
  ASSUME NEW x, ProtectedCard(x), NEW q, Wire(q), \A i \in DOMAIN q : ProtectedRequest(q[i]),
         NEW y, y = [x EXCEPT !.wire = q]
  PROVE  ProtectedCard(y) /\ ProtectedSameBut(x, y) /\ y.wire = q
<1>1. ProtectedFields(y) /\ ProtectedSameBut(x, y) /\ y.wire = q
  BY DEF ProtectedCard, ProtectedFields, ProtectedSameBut
<1> QED BY <1>1 DEF ProtectedCard, ProtectedSameBut

LEMMA ProtectedTook ==
  ASSUME NEW x, ProtectedSound(x), NEW i \in DOMAIN x.wire, NEW y, y = Protected!Took(x, i)
  PROVE  /\ ProtectedCard(y) /\ ProtectedSameBut(x, y) /\ Taken(x.wire, i, y.wire)
<1>1. PICK s, q : s = x.wire /\ q = RemoveAt(s, i)
  OBVIOUS
<1>2. Wire(s) /\ i \in DOMAIN s
  BY <1>1 DEF ProtectedSound, ProtectedCard
<1>3. Taken(s, i, q)
  BY <1>1, <1>2, WireTaken
<1>4. y = [x EXCEPT !.wire = q]
  BY <1>1 DEF Protected!Took, RemoveAt
<1>5. Wire(q) /\ \A k \in DOMAIN q : \E j \in DOMAIN s : q[k] = s[j]
  BY <1>3 DEF Taken
<1>6. \A k \in DOMAIN q : ProtectedRequest(q[k])
  BY <1>1, <1>5 DEF ProtectedSound, ProtectedCard
<1>7. ProtectedCard(y) /\ ProtectedSameBut(x, y) /\ y.wire = q
  BY <1>4, <1>5, <1>6, ProtectedRewired DEF ProtectedSound
<1> QED BY <1>1, <1>3, <1>7

\* What is left when a request has been taken off the wire.
LEMMA ProtectedLeft ==
  ASSUME NEW x, ProtectedSound(x), NEW i \in DOMAIN x.wire, NEW y, y = Protected!Took(x, i)
  PROVE  ProtectedSound(y)
<1>1. PICK s, q : s = x.wire /\ q = y.wire
  OBVIOUS
<1>2. ProtectedCard(y) /\ ProtectedSameBut(x, y) /\ Taken(s, i, q)
  BY <1>1, ProtectedTook
<1>3. Len(s) \in Nat /\ DOMAIN s = 1..Len(s) /\ DOMAIN q = 1..(Len(s) - 1) /\ i \in DOMAIN s
  BY <1>1, <1>2 DEF Taken
<1>4. \A k \in DOMAIN q : q[k] = s[IF k < i THEN k ELSE k + 1]
  BY <1>2 DEF Taken
<1>5. \A k \in DOMAIN q : \E j \in DOMAIN s : q[k] = s[j]
  BY <1>2 DEF Taken
<1>6. \A k \in DOMAIN q : (IF k < i THEN k ELSE k + 1) \in DOMAIN s
  BY <1>3
<1>7. ProtectedSession(y)
  BY <1>1, <1>2, <1>5 DEF ProtectedSound, ProtectedSession, ProtectedSameBut
<1>8. ProtectedHeld(y)
  <2>1. \A k \in DOMAIN q : (q[k].kind = "full" => (q[k].held <=> q[k].cur)) /\ (Reader(q[k]) => q[k].held)
    BY <1>1, <1>5 DEF ProtectedSound, ProtectedHeld
  <2>2. ASSUME NEW a \in DOMAIN q, NEW b \in DOMAIN q, Reader(q[a]), Reader(q[b]) PROVE a = b
    <3>1. PICK k, l : k = (IF a < i THEN a ELSE a + 1) /\ l = (IF b < i THEN b ELSE b + 1)
      OBVIOUS
    <3>2. k \in DOMAIN s /\ l \in DOMAIN s /\ q[a] = s[k] /\ q[b] = s[l]
      BY <1>4, <1>6, <3>1
    <3>3. k = l BY <1>1, <2>2, <3>2 DEF ProtectedSound, ProtectedHeld
    <3> QED BY <1>3, <3>1, <3>3
  <2> QED BY <1>1, <2>1, <2>2 DEF ProtectedHeld
<1>9. ProtectedReading(y)
  <2> SUFFICES ASSUME NEW a \in DOMAIN q, Full(q[a])
               PROVE  /\ \A b \in DOMAIN q : Setting(q[b]) => b < a
                      /\ \/ q[a].read = Protected!Whole(q[a].dev)
                         \/ Begun(x, q[a]) /\ NoSetting(y) /\ q[a].got.value = x.dev[q[a].dev].value
                      /\ q[a].got.enabled = "unknown"
    BY <1>1, <1>2 DEF ProtectedReading, ProtectedSameBut, Begun, TripRead
  <2>1. PICK k : k = (IF a < i THEN a ELSE a + 1)
    OBVIOUS
  <2>2. k \in DOMAIN s /\ q[a] = s[k]
    BY <1>4, <1>6, <2>1
  <2>3. /\ \A j \in DOMAIN s : Setting(s[j]) => j < k
        /\ \/ s[k].read = Protected!Whole(s[k].dev)
           \/ Begun(x, s[k]) /\ NoSetting(x) /\ s[k].got.value = x.dev[s[k].dev].value
        /\ s[k].got.enabled = "unknown"
    BY <1>1, <2>2 DEF ProtectedSound, ProtectedReading
  <2>4. NoSetting(x) => NoSetting(y)
    BY <1>1, <1>5 DEF NoSetting
  <2>5. ASSUME NEW b \in DOMAIN q, Setting(q[b]) PROVE b < a
    <3>1. PICK l : l = (IF b < i THEN b ELSE b + 1)
      OBVIOUS
    <3>2. l \in DOMAIN s /\ q[b] = s[l]
      BY <1>4, <1>6, <3>1
    <3>3. l < k BY <2>3, <2>5, <3>2
    <3> QED BY <1>3, <2>1, <3>1, <3>3
  <2> QED BY <2>2, <2>3, <2>4, <2>5
<1>10. ProtectedTrips(y)
  BY <1>2 DEF ProtectedSound, ProtectedTrips, ProtectedSameBut
<1> QED BY <1>2, <1>7, <1>8, <1>9, <1>10 DEF ProtectedSound

LEMMA ProtectedLeftBusy ==
  ASSUME NEW x, ProtectedSound(x), NEW i \in DOMAIN x.wire, NEW y, y = Protected!Took(x, i)
  PROVE  /\ ProtectedBusy(x) /\ Task(x.wire[i]) => NoTask(y)
         /\ ProtectedBusy(x) /\ ~Task(x.wire[i]) => ProtectedBusy(y)
         /\ Reader(x.wire[i]) => NoReader(y)
         /\ NoSetting(x) => NoSetting(y)
         /\ Full(x.wire[i]) /\ i = 1 => NoSetting(y)
<1>1. PICK s, q : s = x.wire /\ q = y.wire
  OBVIOUS
<1>2. ProtectedSameBut(x, y) /\ Taken(s, i, q)
  BY <1>1, ProtectedTook
<1>3. Len(s) \in Nat /\ DOMAIN s = 1..Len(s) /\ DOMAIN q = 1..(Len(s) - 1) /\ i \in DOMAIN s
  BY <1>1, <1>2 DEF Taken
<1>4. \A k \in DOMAIN q : q[k] = s[IF k < i THEN k ELSE k + 1]
  BY <1>2 DEF Taken
<1>5. \A k \in DOMAIN q : \E j \in DOMAIN s : j # i /\ q[k] = s[j]
  BY <1>2 DEF Taken
<1>6. \A k \in DOMAIN q : (IF k < i THEN k ELSE k + 1) \in DOMAIN s
  BY <1>3
<1>7. \A j \in DOMAIN s : j # i => \E k \in DOMAIN q : q[k] = s[j]
  BY <1>2 DEF Taken
<1>8. ASSUME ProtectedBusy(x), Task(x.wire[i]) PROVE NoTask(y)
  BY <1>1, <1>5, <1>8 DEF ProtectedBusy, NoTask
<1>9. ASSUME ProtectedBusy(x), ~Task(x.wire[i]) PROVE ProtectedBusy(y)
  <2>1. ASSUME NEW a \in DOMAIN q, NEW b \in DOMAIN q, Task(q[a]), Task(q[b]) PROVE a = b
    <3>1. PICK k, l : k = (IF a < i THEN a ELSE a + 1) /\ l = (IF b < i THEN b ELSE b + 1)
      OBVIOUS
    <3>2. k \in DOMAIN s /\ l \in DOMAIN s /\ q[a] = s[k] /\ q[b] = s[l]
      BY <1>4, <1>6, <3>1
    <3>3. k = l BY <1>1, <1>9, <2>1, <3>2 DEF ProtectedBusy
    <3> QED BY <1>3, <3>1, <3>3
  <2>2. y.rt.loading <=> \E k \in DOMAIN q : Task(q[k])
    BY <1>1, <1>2, <1>5, <1>7, <1>9 DEF ProtectedBusy, ProtectedSameBut
  <2> QED BY <1>1, <2>1, <2>2 DEF ProtectedBusy
<1>10. ASSUME Reader(x.wire[i]) PROVE NoReader(y)
  BY <1>1, <1>5, <1>10 DEF ProtectedSound, ProtectedHeld, NoReader
<1>11. ASSUME NoSetting(x) PROVE NoSetting(y)
  BY <1>1, <1>5, <1>11 DEF NoSetting
<1>12. ASSUME Full(x.wire[i]), i = 1 PROVE NoSetting(y)
  <2>1. \A j \in DOMAIN s : ~Setting(s[j])
    BY <1>1, <1>3, <1>12 DEF ProtectedSound, ProtectedReading
  <2> QED BY <1>1, <1>5, <2>1 DEF NoSetting
<1> QED BY <1>8, <1>9, <1>10, <1>11, <1>12

\* The requests on the wire are no longer the session's.
LEMMA ProtectedOutdated ==
  ASSUME NEW x, ProtectedCard(x), NEW y, y = Protected!Outdated(x)
  PROVE  /\ ProtectedCard(y) /\ ProtectedSameBut(x, y) /\ DOMAIN y.wire = DOMAIN x.wire
         /\ \A i \in DOMAIN x.wire :
              y.wire[i].kind = x.wire[i].kind /\ y.wire[i].held = x.wire[i].held /\ ~y.wire[i].cur
<1>1. PICK g : g = [i \in DOMAIN x.wire |-> [x.wire[i] EXCEPT !.cur = FALSE]]
  OBVIOUS
<1>2. Wire(g) /\ DOMAIN g = DOMAIN x.wire
  <2>1. g = [i \in DOMAIN x.wire |-> g[i]] BY <1>1
  <2> QED BY <2>1, WireMapped DEF ProtectedCard
<1>3. ASSUME NEW i \in DOMAIN x.wire
      PROVE  ProtectedRequest(g[i]) /\ g[i].kind = x.wire[i].kind /\ g[i].held = x.wire[i].held /\ ~g[i].cur
  <2>1. PICK r, h : r = x.wire[i] /\ h = [r EXCEPT !.cur = FALSE]
    OBVIOUS
  <2>2. ProtectedRequest(r) /\ g[i] = h
    BY <1>1, <2>1 DEF ProtectedCard
  <2>3. /\ h \in [kind : {"apply", "enable", "full", "poll"}, dev : Supplies, read : {h.read}, got : {h.got}, set : Texts,
                  cur : BOOLEAN, held : BOOLEAN]
        /\ h.kind = r.kind /\ h.dev = r.dev /\ h.read = r.read /\ h.got = r.got /\ h.held = r.held /\ ~h.cur
    BY <2>1, <2>2 DEF ProtectedRequest
  <2> QED BY <2>1, <2>2, <2>3 DEF ProtectedRequest
<1>4. y = [x EXCEPT !.wire = g]
  BY <1>1 DEF Protected!Outdated, ProtectedCard, ProtectedFields
<1>5. ProtectedCard(y) /\ ProtectedSameBut(x, y) /\ y.wire = g
  BY <1>2, <1>3, <1>4, ProtectedRewired
<1> QED BY <1>2, <1>3, <1>5

LEMMA ProtectedReleased ==
  ASSUME NEW x, ProtectedCard(x), NEW y, y = Protected!Released(x)
  PROVE  /\ ProtectedCard(y) /\ ProtectedSameBut(x, y) /\ DOMAIN y.wire = DOMAIN x.wire
         /\ \A i \in DOMAIN x.wire :
              y.wire[i].kind = x.wire[i].kind /\ ~y.wire[i].held /\ y.wire[i].cur = x.wire[i].cur
<1>1. PICK g : g = [i \in DOMAIN x.wire |-> [x.wire[i] EXCEPT !.held = FALSE]]
  OBVIOUS
<1>2. Wire(g) /\ DOMAIN g = DOMAIN x.wire
  <2>1. g = [i \in DOMAIN x.wire |-> g[i]] BY <1>1
  <2> QED BY <2>1, WireMapped DEF ProtectedCard
<1>3. ASSUME NEW i \in DOMAIN x.wire
      PROVE  ProtectedRequest(g[i]) /\ g[i].kind = x.wire[i].kind /\ g[i].cur = x.wire[i].cur /\ ~g[i].held
  <2>1. PICK r, h : r = x.wire[i] /\ h = [r EXCEPT !.held = FALSE]
    OBVIOUS
  <2>2. ProtectedRequest(r) /\ g[i] = h
    BY <1>1, <2>1 DEF ProtectedCard
  <2>3. /\ h \in [kind : {"apply", "enable", "full", "poll"}, dev : Supplies, read : {h.read}, got : {h.got}, set : Texts,
                  cur : BOOLEAN, held : BOOLEAN]
        /\ h.kind = r.kind /\ h.dev = r.dev /\ h.read = r.read /\ h.got = r.got /\ h.cur = r.cur /\ ~h.held
    BY <2>1, <2>2 DEF ProtectedRequest
  <2> QED BY <2>1, <2>2, <2>3 DEF ProtectedRequest
<1>4. y = [x EXCEPT !.wire = g]
  BY <1>1 DEF Protected!Released, ProtectedCard, ProtectedFields
<1>5. ProtectedCard(y) /\ ProtectedSameBut(x, y) /\ y.wire = g
  BY <1>2, <1>3, <1>4, ProtectedRewired
<1> QED BY <1>2, <1>3, <1>5

\* A request is sent.
LEMMA ProtectedAsk ==
  ASSUME NEW x, ProtectedCard(x), NEW r, ProtectedRequest(r), NEW y, y = Protected!Ask(x, r)
  PROVE  /\ ProtectedCard(y) /\ ProtectedSameBut(x, y)
         /\ Len(x.wire) \in Nat /\ DOMAIN x.wire = 1..Len(x.wire)
         /\ DOMAIN y.wire = 1..(Len(x.wire) + 1) /\ y.wire[Len(x.wire) + 1] = r
         /\ \A k \in DOMAIN x.wire : y.wire[k] = x.wire[k]
<1>1. PICK q : q = Append(x.wire, r)
  OBVIOUS
<1>2. Asked(x.wire, r, q) BY <1>1, WireAsked DEF ProtectedCard
<1>3. y = [x EXCEPT !.wire = q]
  BY <1>1 DEF Protected!Ask
<1>4. Wire(q) /\ \A k \in DOMAIN q : ProtectedRequest(q[k])
  <2>1. \A k \in DOMAIN q : k = Len(x.wire) + 1 \/ k \in DOMAIN x.wire BY <1>2 DEF Asked
  <2> QED BY <1>2, <2>1 DEF Asked, ProtectedCard
<1>5. ProtectedCard(y) /\ ProtectedSameBut(x, y) /\ y.wire = q
  BY <1>3, <1>4, ProtectedRewired
<1> QED BY <1>2, <1>5 DEF Asked

LEMMA ProtectedAsked ==
  ASSUME NEW x, ProtectedSound(x), NEW r, ProtectedRequest(r), NEW y, y = Protected!Ask(x, r),
         r.cur => r.dev = x.seen.dev,
         r.kind = "full" => (r.held <=> r.cur),
         Reader(r) => r.held /\ NoReader(x),
         Setting(r) => \A i \in DOMAIN x.wire : ~Full(x.wire[i]),
         Full(r) => /\ \/ r.read = Protected!Whole(r.dev)
                       \/ Begun(x, r) /\ NoSetting(x) /\ r.got.value = x.dev[r.dev].value
                    /\ r.got.enabled = "unknown"
  PROVE  ProtectedSound(y)
<1>1. PICK s, q, n : s = x.wire /\ q = y.wire /\ n = Len(s) + 1
  OBVIOUS
<1>2. ProtectedCard(y) /\ ProtectedSameBut(x, y)
  BY ProtectedAsk DEF ProtectedSound
<1>3. n \in Nat /\ DOMAIN s = 1..(n - 1) /\ DOMAIN q = 1..n /\ q[n] = r /\ \A k \in DOMAIN s : q[k] = s[k]
  BY <1>1, ProtectedAsk DEF ProtectedSound
<1>4. \A k \in DOMAIN q : k = n \/ (k \in DOMAIN s /\ q[k] = s[k] /\ k < n)
  BY <1>3
<1>5. n \in DOMAIN q /\ n \notin DOMAIN s
  BY <1>1, <1>3, ProtectedAsk DEF ProtectedSound
<1>6. ProtectedSession(y)
  BY <1>1, <1>2, <1>3, <1>4 DEF ProtectedSound, ProtectedSession, ProtectedSameBut
<1>7. ProtectedHeld(y)
  <2>1. \A k \in DOMAIN q : (q[k].kind = "full" => (q[k].held <=> q[k].cur)) /\ (Reader(q[k]) => q[k].held)
    BY <1>1, <1>3, <1>4 DEF ProtectedSound, ProtectedHeld
  <2>2. ASSUME NEW a \in DOMAIN q, NEW b \in DOMAIN q, Reader(q[a]), Reader(q[b]) PROVE a = b
    BY <1>1, <1>3, <1>4, <2>2 DEF ProtectedSound, ProtectedHeld, NoReader
  <2> QED BY <1>1, <2>1, <2>2 DEF ProtectedHeld
<1>8. ProtectedReading(y)
  <2> SUFFICES ASSUME NEW a \in DOMAIN q, Full(q[a])
               PROVE  /\ \A b \in DOMAIN q : Setting(q[b]) => b < a
                      /\ \/ q[a].read = Protected!Whole(q[a].dev)
                         \/ Begun(x, q[a]) /\ NoSetting(y) /\ q[a].got.value = x.dev[q[a].dev].value
                      /\ q[a].got.enabled = "unknown"
    BY <1>1, <1>2 DEF ProtectedReading, ProtectedSameBut, Begun, TripRead
  <2>1. NoSetting(x) /\ ~Setting(r) => NoSetting(y)
    BY <1>1, <1>3, <1>4 DEF NoSetting
  <2>2. CASE a = n
    <3>1. ~Setting(r) BY <1>3, <2>2 DEF Full, Setting
    <3>2. \A b \in DOMAIN q : Setting(q[b]) => b < a BY <1>3, <1>4, <2>2, <3>1
    <3> QED BY <1>3, <2>1, <2>2, <3>1, <3>2
  <2>3. CASE a \in DOMAIN s /\ q[a] = s[a]
    <3>1. ~Setting(r) BY <1>1, <2>3
    <3>2. /\ \A b \in DOMAIN s : Setting(s[b]) => b < a
          /\ \/ s[a].read = Protected!Whole(s[a].dev)
             \/ Begun(x, s[a]) /\ NoSetting(x) /\ s[a].got.value = x.dev[s[a].dev].value
          /\ s[a].got.enabled = "unknown"
      BY <1>1, <2>3 DEF ProtectedSound, ProtectedReading
    <3>3. \A b \in DOMAIN q : Setting(q[b]) => b < a BY <1>3, <1>4, <3>1, <3>2
    <3> QED BY <2>1, <2>3, <3>1, <3>2, <3>3
  <2> QED BY <1>4, <2>2, <2>3
<1>9. ProtectedTrips(y)
  BY <1>2 DEF ProtectedSound, ProtectedTrips, ProtectedSameBut
<1> QED BY <1>2, <1>6, <1>7, <1>8, <1>9 DEF ProtectedSound

LEMMA ProtectedAskedBusy ==
  ASSUME NEW x, ProtectedCard(x), NEW r, ProtectedRequest(r), NEW y, y = Protected!Ask(x, r)
  PROVE  /\ ProtectedBusy(x) /\ ~Task(r) => ProtectedBusy(y)
         /\ NoTask(x) /\ Task(r) /\ x.rt.loading => ProtectedBusy(y)
         /\ NoSetting(x) /\ ~Setting(r) => NoSetting(y)
<1>1. PICK s, q, n : s = x.wire /\ q = y.wire /\ n = Len(s) + 1
  OBVIOUS
<1>2. ProtectedSameBut(x, y)
  BY ProtectedAsk
<1>3. n \in Nat /\ DOMAIN s = 1..(n - 1) /\ DOMAIN q = 1..n /\ q[n] = r /\ \A k \in DOMAIN s : q[k] = s[k]
  BY <1>1, ProtectedAsk
<1>4. (\A k \in DOMAIN q : k = n \/ (k \in DOMAIN s /\ q[k] = s[k])) /\ n \in DOMAIN q /\ DOMAIN s \subseteq DOMAIN q
  BY <1>1, <1>3, ProtectedAsk
<1>5. ASSUME ProtectedBusy(x), ~Task(r) PROVE ProtectedBusy(y)
  <2>1. \A k \in DOMAIN q : Task(q[k]) => k \in DOMAIN s /\ Task(s[k])
    BY <1>3, <1>4, <1>5
  <2>2. \A i, j \in DOMAIN q : Task(q[i]) /\ Task(q[j]) => i = j
    BY <1>1, <1>5, <2>1 DEF ProtectedBusy
  <2>3. y.rt.loading <=> \E k \in DOMAIN q : Task(q[k])
    BY <1>1, <1>2, <1>3, <1>4, <1>5, <2>1 DEF ProtectedBusy, ProtectedSameBut
  <2> QED BY <1>1, <2>2, <2>3 DEF ProtectedBusy
<1>6. ASSUME NoTask(x), Task(r), x.rt.loading PROVE ProtectedBusy(y)
  BY <1>1, <1>2, <1>3, <1>4, <1>6 DEF ProtectedBusy, ProtectedSameBut, NoTask
<1>7. ASSUME NoSetting(x), ~Setting(r) PROVE NoSetting(y)
  BY <1>1, <1>3, <1>4, <1>7 DEF NoSetting
<1> QED BY <1>5, <1>6, <1>7

\* What the card shows is replaced.
LEMMA ProtectedShows ==
  ASSUME NEW x, ProtectedCard(x), NEW s, ProtectedShown(s), NEW y, y = [x EXCEPT !.rt = s]
  PROVE  /\ ProtectedCard(y) /\ y.rt = s /\ y.wire = x.wire /\ y.config = x.config /\ y.up = x.up /\ y.due = x.due
         /\ y.last = x.last /\ y.seen = x.seen /\ y.told = x.told /\ y.trips = x.trips /\ y.dev = x.dev
         /\ ProtectedSound(x) => ProtectedSound(y)
<1>1. /\ ProtectedFields(y) /\ y.rt = s /\ y.wire = x.wire /\ y.config = x.config /\ y.up = x.up /\ y.due = x.due
      /\ y.last = x.last /\ y.seen = x.seen /\ y.told = x.told /\ y.trips = x.trips /\ y.dev = x.dev
  BY DEF ProtectedCard, ProtectedFields
<1>2. ProtectedCard(y)
  BY <1>1 DEF ProtectedCard
<1>3. ASSUME ProtectedSound(x) PROVE ProtectedSound(y)
  <2>1. ProtectedSession(y) BY <1>1, <1>3 DEF ProtectedSound, ProtectedSession
  <2>2. ProtectedHeld(y) BY <1>1, <1>3 DEF ProtectedSound, ProtectedHeld
  <2>3. ProtectedReading(y)
    BY <1>1, <1>3 DEF ProtectedSound, ProtectedReading, NoSetting, Begun, TripRead
  <2>4. ProtectedTrips(y) BY <1>1, <1>3 DEF ProtectedSound, ProtectedTrips
  <2> QED BY <1>2, <2>1, <2>2, <2>3, <2>4 DEF ProtectedSound
<1> QED BY <1>1, <1>2, <1>3

LEMMA ProtectedLoads ==
  ASSUME NEW x, ProtectedCard(x), NEW y, y = Protected!Loading(x)
  PROVE  /\ ProtectedCard(y) /\ y.rt.loading /\ y.wire = x.wire /\ y.config = x.config /\ y.due = x.due
         /\ y.seen = x.seen /\ (ProtectedSound(x) => ProtectedSound(y))
<1>1. PICK r, s : r = x.rt /\ s = [r EXCEPT !.loading = TRUE, !.error = FALSE]
  OBVIOUS
<1>2. y = [x EXCEPT !.rt = s]
  BY <1>1 DEF Protected!Loading, ProtectedCard, ProtectedFields
<1>3. ProtectedShown(s) /\ s.loading
  <2>1. ProtectedShown(r) BY <1>1 DEF ProtectedCard
  <2> QED BY <1>1, <2>1 DEF ProtectedShown
<1>4. ProtectedCard(y) /\ y.rt = s /\ y.wire = x.wire /\ y.config = x.config /\ y.due = x.due /\ y.seen = x.seen
  BY <1>2, <1>3, ProtectedShows
<1>5. ProtectedSound(x) => ProtectedSound(y)
  BY <1>2, <1>3, ProtectedShows
<1> QED BY <1>3, <1>4, <1>5

LEMMA ProtectedFailed ==
  ASSUME NEW x, ProtectedCard(x), NEW y, y = Protected!Failed(x)
  PROVE  /\ ProtectedCard(y) /\ ~y.rt.loading /\ y.rt.error /\ y.wire = x.wire
         /\ ProtectedSound(x) => ProtectedSound(y)
<1>1. PICK r, s : r = x.rt /\ s = [r EXCEPT !.loading = FALSE, !.error = TRUE]
  OBVIOUS
<1>2. y = [x EXCEPT !.rt = s]
  BY <1>1 DEF Protected!Failed, ProtectedCard, ProtectedFields
<1>3. ProtectedShown(s) /\ ~s.loading /\ s.error
  <2>1. ProtectedShown(r) BY <1>1 DEF ProtectedCard
  <2> QED BY <1>1, <2>1 DEF ProtectedShown
<1>4. ProtectedCard(y) /\ y.rt = s /\ y.wire = x.wire
  BY <1>2, <1>3, ProtectedShows
<1>5. ProtectedSound(x) => ProtectedSound(y)
  BY <1>2, <1>3, ProtectedShows
<1> QED BY <1>3, <1>4, <1>5

\* A full reading as it is asked for.
LEMMA ProtectedFull ==
  ASSUME NEW d \in Supplies, NEW r, r = Protected!Request("full", d, Protected!Whole(d))
  PROVE  /\ ProtectedRequest(r) /\ r.kind = "full" /\ r.cur /\ r.held /\ r.dev = d /\ r.read = Protected!Whole(d)
         /\ r.got.enabled = "unknown"
<1>1. PICK s, g : s = Protected!Whole(d) /\ g = Protected!Initial
  OBVIOUS
<1>2. ProtectedShown(g) /\ ~g.loading /\ ~g.error /\ g.enabled = "unknown"
  BY <1>1 DEF Protected!Initial, Protected!Unknown, ProtectedShown, Texts
<1>3. r = [kind |-> "full", dev |-> d, read |-> s, got |-> g, set |-> "unknown", cur |-> TRUE, held |-> TRUE]
  BY <1>1 DEF Protected!Request, Protected!Unknown
<1>4. r.kind = "full" /\ r.cur /\ r.held /\ r.dev = d /\ r.read = s /\ r.got = g
  BY <1>3
<1>6. PICK t \in Texts : t = "unknown"
  BY DEF Texts
<1>5. r \in [kind : {"apply", "enable", "full", "poll"}, dev : Supplies, read : {s}, got : {g}, set : Texts,
             cur : BOOLEAN, held : BOOLEAN]
  <2>1. r = [kind |-> "full", dev |-> d, read |-> s, got |-> g, set |-> t, cur |-> TRUE, held |-> TRUE]
    BY <1>3, <1>6
  <2>2. PICK b \in BOOLEAN, c \in BOOLEAN : b = TRUE /\ c = TRUE
    OBVIOUS
  <2>3. r = [kind |-> "full", dev |-> d, read |-> s, got |-> g, set |-> t, cur |-> b, held |-> c]
    BY <2>1, <2>2
  <2> QED BY ONLY <2>3
<1> QED BY <1>1, <1>2, <1>4, <1>5 DEF ProtectedRequest

\* A full reading of the session's device is on its way, which it was if
\* a card that was busy had one.
LEMMA ProtectedRefreshes ==
  ASSUME NEW x, ProtectedSound(x), (\E i \in DOMAIN x.wire : Full(x.wire[i])) => ProtectedBusy(x),
         NEW y, y = Protected!Refresh(x, x.seen.dev)
  PROVE  ProtectedInv(y)
<1>1. CASE Protected!Held(x, "full")
  <2>1. y = x BY <1>1 DEF Protected!Refresh
  <2>2. PICK i \in DOMAIN x.wire : Full(x.wire[i])
    BY <1>1 DEF Protected!Held, ProtectedSound, ProtectedHeld, Full
  <2>3. ProtectedBusy(x) /\ Task(x.wire[i])
    BY <2>2 DEF Full, Task
  <2>4. x.rt.loading BY <2>3 DEF ProtectedBusy
  <2> QED BY <2>1, <2>3, <2>4 DEF ProtectedInv, ProtectedRest, ProtectedResting
<1>2. CASE ~Protected!Held(x, "full")
  <2>1. PICK d, u, v, r :
          /\ d = x.seen.dev /\ u = Protected!Outdated(x) /\ v = Protected!Loading(u)
          /\ r = Protected!Request("full", d, Protected!Whole(d))
    OBVIOUS
  <2>2. d \in Supplies BY <2>1 DEF ProtectedSound, ProtectedCard, ProtectedFields
  <2>3. y = Protected!Ask(v, r) BY <1>2, <2>1 DEF Protected!Refresh
  <2>4. /\ ProtectedCard(u) /\ ProtectedSameBut(x, u) /\ DOMAIN u.wire = DOMAIN x.wire
    BY <2>1, ProtectedOutdated DEF ProtectedSound
  <2>5. \A i \in DOMAIN x.wire :
          u.wire[i].kind = x.wire[i].kind /\ u.wire[i].held = x.wire[i].held /\ ~u.wire[i].cur
    BY <2>1, ProtectedOutdated DEF ProtectedSound
  <2>6. ProtectedSound(u) /\ NoTask(u) /\ NoReader(u)
    <3>1. ProtectedSession(u) BY <2>4, <2>5 DEF ProtectedSound, ProtectedSession, ProtectedSameBut
    <3>2. \A i \in DOMAIN x.wire : x.wire[i].kind = "full" => ~x.wire[i].held
      BY <1>2 DEF Protected!Held
    <3>3. ProtectedHeld(u) BY <2>4, <2>5, <3>2 DEF ProtectedHeld, Reader
    <3>4. ProtectedReading(u) BY <2>4, <2>5 DEF ProtectedReading, Full
    <3>5. ProtectedTrips(u) BY <2>4 DEF ProtectedSound, ProtectedTrips, ProtectedSameBut
    <3> QED BY <2>4, <2>5, <3>1, <3>3, <3>4, <3>5 DEF ProtectedSound, NoTask, NoReader, Task, Reader
  <2>7. ProtectedCard(v) /\ v.rt.loading /\ v.wire = u.wire /\ v.seen = u.seen /\ ProtectedSound(v)
    BY <2>1, <2>4, <2>6, ProtectedLoads
  <2>8. /\ ProtectedRequest(r) /\ r.kind = "full" /\ r.cur /\ r.held /\ r.dev = d /\ r.read = Protected!Whole(d)
        /\ r.got.enabled = "unknown"
    BY <2>1, <2>2, ProtectedFull
  <2>9. NoTask(v) /\ NoReader(v)
    BY <2>6, <2>7 DEF NoTask, NoReader
  <2>10. v.seen.dev = d BY <2>1, <2>4, <2>7 DEF ProtectedSameBut
  <2>11. Task(r) /\ ~Setting(r) BY <2>8 DEF Task, Setting
  <2>12. ProtectedSound(y)
    BY <2>3, <2>7, <2>8, <2>9, <2>10, <2>11, ProtectedAsked
  <2>13. ProtectedBusy(y)
    BY <2>3, <2>7, <2>8, <2>9, <2>11, ProtectedAskedBusy
  <2>14. y.rt = v.rt BY <2>3, <2>7, <2>8, ProtectedAsk DEF ProtectedSameBut
  <2> QED BY <2>7, <2>12, <2>13, <2>14 DEF ProtectedInv, ProtectedRest, ProtectedResting
<1> QED BY <1>1, <1>2

\* A device that a write reached: no reading has begun that it could spoil.
LEMMA ProtectedWritten ==
  ASSUME NEW x, ProtectedSound(x), NEW f, ProtectedRequest(f), Setting(f),
         \A i \in DOMAIN x.wire : Full(x.wire[i]) => x.wire[i].read = Protected!Whole(x.wire[i].dev),
         NEW y, y = Protected!Written(x, f)
  PROVE  ProtectedSound(y) /\ y.wire = x.wire /\ y.rt = x.rt /\ y.config = x.config /\ y.up = x.up /\ y.due = x.due
         /\ y.seen = x.seen
<1>1. PICK a, e, h, g : /\ a = f.dev /\ e = x.dev[a]
                        /\ h = (IF f.kind = "enable" THEN [e EXCEPT !.enabled = f.set] ELSE [e EXCEPT !.value = f.set])
                        /\ g = [x.dev EXCEPT ![a] = h]
  OBVIOUS
<1>2. a \in Supplies /\ f.set \in Texts /\ x.dev \in [Supplies -> ProtectedDevice] /\ e \in ProtectedDevice
  <2>1. a \in Supplies /\ f.set \in Texts BY <1>1 DEF ProtectedRequest
  <2>2. x.dev \in [Supplies -> ProtectedDevice] BY DEF ProtectedSound, ProtectedCard, ProtectedFields
  <2> QED BY <1>1, <2>1, <2>2
<1>3. h \in ProtectedDevice /\ h.tripped = e.tripped /\ (f.kind # "enable" => h.enabled = e.enabled)
  BY <1>1, <1>2 DEF ProtectedDevice
<1>4. g \in [Supplies -> ProtectedDevice] /\ g[a] = h /\ \A d \in Supplies \ {a} : g[d] = x.dev[d]
  BY <1>1, <1>2, <1>3
<1>5. y = [x EXCEPT !.dev = g]
  BY <1>1 DEF Protected!Written
<1>6. /\ ProtectedFields(y) /\ y.wire = x.wire /\ y.rt = x.rt /\ y.config = x.config /\ y.up = x.up /\ y.due = x.due
      /\ y.last = x.last /\ y.seen = x.seen /\ y.told = x.told /\ y.trips = x.trips /\ y.dev = g
  BY <1>4, <1>5 DEF ProtectedSound, ProtectedCard, ProtectedFields
<1>7. ProtectedCard(y) /\ ProtectedSession(y) /\ ProtectedHeld(y)
  <2>1. ProtectedCard(y) BY <1>6 DEF ProtectedSound, ProtectedCard
  <2>2. ProtectedSession(y) BY <1>6 DEF ProtectedSound, ProtectedSession
  <2>3. ProtectedHeld(y) BY <1>6 DEF ProtectedSound, ProtectedHeld
  <2> QED BY <2>1, <2>2, <2>3
<1>8. ProtectedReading(y)
  BY <1>6 DEF ProtectedSound, ProtectedReading
<1>9. ProtectedTrips(y)
  <2>1. ProtectedTrips(x) BY DEF ProtectedSound
  <2>2. f.kind = "enable" => a \in Switchable BY <1>1 DEF ProtectedRequest
  <2>3. \A d \in Supplies : g[d].tripped = x.dev[d].tripped /\ (d \notin Switchable => g[d].enabled = x.dev[d].enabled)
    BY <1>1, <1>3, <1>4, <2>2
  <2>4. x.seen.dev \in Supplies BY DEF ProtectedSound, ProtectedCard, ProtectedFields
  <2> QED BY <1>6, <2>1, <2>3, <2>4 DEF ProtectedTrips
<1> QED BY <1>6, <1>7, <1>8, <1>9 DEF ProtectedSound

\* When a write is on its way no reading has begun.
LEMMA ProtectedNoneBegun ==
  ASSUME NEW x, ProtectedSound(x), NEW i \in DOMAIN x.wire, Setting(x.wire[i]), NEW y, y = Protected!Took(x, i)
  PROVE  \A k \in DOMAIN y.wire : Full(y.wire[k]) => y.wire[k].read = Protected!Whole(y.wire[k].dev)
<1>1. Taken(x.wire, i, y.wire)
  BY ProtectedTook
<1>2. \A k \in DOMAIN y.wire : \E j \in DOMAIN x.wire : y.wire[k] = x.wire[j]
  BY <1>1 DEF Taken
<1>3. ~NoSetting(x) BY DEF NoSetting
<1>4. \A j \in DOMAIN x.wire : Full(x.wire[j]) => x.wire[j].read = Protected!Whole(x.wire[j].dev)
  BY <1>3 DEF ProtectedSound, ProtectedReading
<1> QED BY <1>2, <1>4

\* The trip state that was read is told, when it is news.
LEMMA ProtectedNotices ==
  ASSUME NEW x, ProtectedSound(x), NoReader(x), NEW t, TripRead(x, t), NEW y, y = Protected!Notice(x, t)
  PROVE  /\ ProtectedSound(y) /\ y.wire = x.wire /\ y.rt = x.rt /\ y.config = x.config /\ y.up = x.up /\ y.due = x.due
         /\ y.dev = x.dev
<1>1. PICK emit \in BOOLEAN : emit = (t.is = "yes" /\ x.last # "yes")
  OBVIOUS
<1>2. PICK told : told = (IF t.is = "unknown" THEN {} ELSE IF emit THEN x.told \union {t.n} ELSE x.told)
  OBVIOUS
<1>3. PICK again \in BOOLEAN : again = (x.again \/ (emit /\ t.n \in x.told))
  OBVIOUS
<1>4. y = [x EXCEPT !.last = t.is, !.again = again, !.told = told]
  BY <1>1, <1>2, <1>3 DEF Protected!Notice, Protected!Unknown
<1>5. ~again
  BY <1>1, <1>3 DEF TripRead, ProtectedSound, ProtectedCard, ProtectedFields
<1>6. /\ ProtectedFields(y) /\ y.wire = x.wire /\ y.rt = x.rt /\ y.config = x.config /\ y.up = x.up /\ y.due = x.due
      /\ y.last = t.is /\ y.seen = x.seen /\ y.told = told /\ y.trips = x.trips /\ y.dev = x.dev
  BY <1>4, <1>5 DEF ProtectedSound, ProtectedCard, ProtectedFields, TripRead
<1>7. ProtectedCard(y) /\ ProtectedSession(y) /\ ProtectedHeld(y)
  <2>1. ProtectedCard(y) BY <1>6 DEF ProtectedSound, ProtectedCard
  <2>2. ProtectedSession(y) BY <1>6 DEF ProtectedSound, ProtectedSession
  <2>3. ProtectedHeld(y) BY <1>6 DEF ProtectedSound, ProtectedHeld
  <2> QED BY <2>1, <2>2, <2>3
<1>8. ProtectedReading(y)
  <2>1. \A i \in DOMAIN x.wire : ~Full(x.wire[i])
    BY DEF NoReader, Reader, Reading, Full
  <2> QED BY <1>6, <2>1 DEF ProtectedReading
<1>9. ProtectedTrips(y)
  <2>1. ProtectedTrips(x) /\ x.trips \in Nat BY DEF ProtectedSound, ProtectedCard, ProtectedFields
  <2>2. told \subseteq 1..x.trips
    <3>1. x.told \subseteq 1..x.trips BY <2>1 DEF ProtectedTrips
    <3>2. t.is = "yes" => t.n \in 1..x.trips BY ONLY <2>1, TripRead(x, t) DEF TripRead
    <3> QED BY ONLY <1>1, <1>2, <2>1, <3>1, <3>2
  <2>3. t.is = "unknown" => told = {}
    BY <1>2
  <2>4. t.is # "yes" => x.dev[x.seen.dev].tripped \notin told
    BY <1>1, <1>2 DEF TripRead
  <2> QED BY <1>6, <2>1, <2>2, <2>3, <2>4 DEF ProtectedTrips
<1> QED BY <1>6, <1>7, <1>8, <1>9 DEF ProtectedSound

\* What a reading of the trip state may find.
LEMMA ProtectedTripFound ==
  ASSUME NEW x, ProtectedSound(x), NEW d, d = x.seen.dev,
         NEW t, \/ t = [is |-> Protected!Unknown, n |-> 0]
                \/ t = [is |-> IF x.dev[d].tripped > 0 THEN "yes" ELSE "no", n |-> x.dev[d].tripped]
  PROVE  TripRead(x, t)
<1>1. d \in Supplies /\ x.trips \in Nat
  BY DEF ProtectedSound, ProtectedCard, ProtectedFields
<1>2. x.dev[d].tripped \in 0..x.trips /\ x.told \subseteq 1..x.trips /\ (x.last # "yes" => x.dev[d].tripped \notin x.told)
  BY <1>1 DEF ProtectedSound, ProtectedTrips
<1>3. CASE t = [is |-> Protected!Unknown, n |-> 0]
  <2>1. t.is = "unknown" /\ t.n = 0 BY <1>3 DEF Protected!Unknown
  <2> QED BY <1>1, <2>1 DEF TripRead
<1>4. CASE t = [is |-> IF x.dev[d].tripped > 0 THEN "yes" ELSE "no", n |-> x.dev[d].tripped]
  <2>1. t.is = (IF x.dev[d].tripped > 0 THEN "yes" ELSE "no") /\ t.n = x.dev[d].tripped BY <1>4
  <2>2. CASE x.dev[d].tripped > 0
    BY <1>2, <2>1, <2>2 DEF TripRead
  <2>3. CASE ~(x.dev[d].tripped > 0)
    <3>1. x.dev[d].tripped = 0 /\ 0 \notin x.told BY <1>1, <1>2, <2>3
    <3> QED BY <1>1, <2>1, <2>3, <3>1 DEF TripRead
  <2> QED BY <2>2, <2>3
<1> QED BY <1>3, <1>4

LEMMA Whether ==
  ASSUME NEW S, NEW e
  PROVE  \E b \in BOOLEAN : b = (e \in S)
<1>1. CASE e \in S
  <2>1. TRUE \in BOOLEAN /\ TRUE = (e \in S) BY <1>1
  <2> QED BY <2>1
<1>2. CASE e \notin S
  <2>1. FALSE \in BOOLEAN /\ FALSE = (e \in S) BY <1>2
  <2> QED BY <2>1
<1> QED BY <1>1, <1>2

LEMMA ProtectedReads ==
  ASSUME NEW d
  PROVE  /\ Head(Protected!Whole(d)) = "value" /\ Len(Protected!Whole(d)) > 1 /\ Tail(Protected!Whole(d)) = Part(d)
         /\ Head(Part(d)) = "tripped" /\ (Len(Part(d)) > 1 <=> d \in Switchable)
         /\ d \in Switchable => Tail(Part(d)) = <<"enabled">>
         /\ Head(<<"enabled">>) = "enabled" /\ Len(<<"enabled">>) = 1
         /\ Head(<<"tripped">>) = "tripped" /\ Len(<<"tripped">>) = 1
<1>1. Head(<<"enabled">>) = "enabled" /\ Len(<<"enabled">>) = 1 /\ Head(<<"tripped">>) = "tripped" /\ Len(<<"tripped">>) = 1
  OBVIOUS
<1>2. CASE d \in Switchable
  <2>1. Protected!Whole(d) = <<"value", "tripped", "enabled">> /\ Part(d) = <<"tripped", "enabled">>
    BY <1>2 DEF Protected!Whole, Part
  <2>2. /\ Head(<<"value", "tripped", "enabled">>) = "value" /\ Len(<<"value", "tripped", "enabled">>) = 3
        /\ Head(<<"tripped", "enabled">>) = "tripped" /\ Len(<<"tripped", "enabled">>) = 2
    OBVIOUS
  <2>3. Tail(<<"value", "tripped", "enabled">>) = <<"tripped", "enabled">>
    OBVIOUS
  <2>4. Tail(<<"tripped", "enabled">>) = <<"enabled">>
    OBVIOUS
  <2> QED BY <1>1, <1>2, <2>1, <2>2, <2>3, <2>4
<1>3. CASE d \notin Switchable
  <2>1. Protected!Whole(d) = <<"value", "tripped">> /\ Part(d) = <<"tripped">>
    BY <1>3 DEF Protected!Whole, Part
  <2>2. Head(<<"value", "tripped">>) = "value" /\ Len(<<"value", "tripped">>) = 2 /\ Tail(<<"value", "tripped">>) = <<"tripped">>
    OBVIOUS
  <2> QED BY <1>1, <1>3, <2>1, <2>2
<1> QED BY <1>2, <1>3

\* What may be left to read, when it is more than one answer.
LEMMA ProtectedReadsMore ==
  ASSUME NEW f, ProtectedRequest(f), Reading(f), Len(f.read) > 1
  PROVE  /\ f.kind = "full" /\ f.read \in {Protected!Whole(f.dev), Part(f.dev)}
         /\ f.read = Part(f.dev) => f.dev \in Switchable
         /\ Tail(f.read) \in {Part(f.dev), <<"enabled">>}
<1>1. PICK all, most, one, trip, d :
        all = Protected!Whole(d) /\ most = Part(d) /\ one = <<"enabled">> /\ trip = <<"tripped">> /\ d = f.dev
  OBVIOUS
<1>2. /\ Len(one) = 1 /\ Len(trip) = 1 /\ Tail(all) = most /\ (Len(most) > 1 <=> d \in Switchable)
      /\ d \in Switchable => Tail(most) = one
  BY ONLY <1>1, ProtectedReads
<1>7. Len(f.read) # 1
  <2>1. ~(1 > 1) OBVIOUS
  <2>2. ASSUME Len(f.read) = 1 PROVE 1 > 1 BY <2>2, Zenon
  <2> QED BY <2>1, <2>2
<1>3. f.kind = "full"
  <2>1. f.kind = "poll" => f.read = trip BY <1>1 DEF ProtectedRequest
  <2>2. Len(trip) = 1 BY <1>2
  <2>3. f.read # trip BY ONLY <1>7, <2>2
  <2> QED BY <2>1, <2>3 DEF Reading
<1>4. f.read \in {all, most}
  <2>1. f.read \in {all, most, one} BY <1>1, <1>3 DEF ProtectedRequest
  <2>2. Len(one) = 1 BY <1>2
  <2>3. f.read # one BY ONLY <1>7, <2>2
  <2> QED BY <2>1, <2>3
<1>5. f.read = most => d \in Switchable
  BY <1>2
<1>6. Tail(f.read) \in {most, one}
  BY <1>2, <1>4, <1>5
<1> QED BY <1>1, <1>3, <1>4, <1>5, <1>6

\* What has been read with one more answer.
LEMMA ProtectedGot ==
  ASSUME NEW x, ProtectedCard(x), NEW f, ProtectedRequest(f), NEW t, NEW got, got = Protected!Reading(x, f, t)
  PROVE  /\ ProtectedShown(got) /\ ~got.loading /\ ~got.error
         /\ Head(f.read) = "tripped" => got.tripped = t /\ got.value = f.got.value /\ got.enabled = f.got.enabled
         /\ Head(f.read) = "value" =>
              got.tripped = f.got.tripped /\ got.value = x.dev[f.dev].value /\ got.enabled = f.got.enabled
         /\ Head(f.read) = "enabled" =>
              got.tripped = f.got.tripped /\ got.value = f.got.value /\ got.enabled = x.dev[f.dev].enabled
<1>1. PICK g, d, v, e, what : g = f.got /\ d = x.dev[f.dev] /\ v = d.value /\ e = d.enabled /\ what = Head(f.read)
  OBVIOUS
<1>2. ProtectedShown(g) /\ ~g.loading /\ ~g.error /\ v \in Texts /\ e \in Texts
  <2>1. ProtectedShown(g) /\ ~g.loading /\ ~g.error /\ f.dev \in Supplies BY <1>1 DEF ProtectedRequest
  <2>2. d \in ProtectedDevice BY <1>1, <2>1 DEF ProtectedCard, ProtectedFields
  <2> QED BY <1>1, <2>1, <2>2 DEF ProtectedDevice
<1>3. got = IF what = "tripped" THEN [g EXCEPT !.tripped = t]
            ELSE IF what = "value" THEN [g EXCEPT !.value = v] ELSE [g EXCEPT !.enabled = e]
  BY <1>1 DEF Protected!Reading
<1>4. CASE what = "tripped"
  <2>1. got = [g EXCEPT !.tripped = t] BY <1>3, <1>4
  <2> QED BY <1>1, <1>2, <1>4, <2>1 DEF ProtectedShown
<1>5. CASE what = "value"
  <2>1. got = [g EXCEPT !.value = v] BY <1>3, <1>5
  <2> QED BY <1>1, <1>2, <1>5, <2>1 DEF ProtectedShown
<1>6. CASE what # "tripped" /\ what # "value"
  <2>1. got = [g EXCEPT !.enabled = e] BY <1>3, <1>6
  <2> QED BY <1>1, <1>2, <1>6, <2>1 DEF ProtectedShown
<1> QED BY <1>4, <1>5, <1>6

\* How far the full reading at the head of the wire has come.
LEMMA ProtectedStage ==
  ASSUME NEW x, ProtectedSound(x), 1 \in DOMAIN x.wire, NEW f, f = x.wire[1], Full(f)
  PROVE  /\ f.got.enabled = "unknown"
         /\ Head(f.read) \in {"value", "tripped", "enabled"}
         /\ Head(f.read) = "value" => f.read = Protected!Whole(f.dev)
         /\ Head(f.read) = "tripped" => f.read = Part(f.dev) /\ f.got.value = x.dev[f.dev].value
         /\ Head(f.read) = "enabled" =>
              f.read = <<"enabled">> /\ f.dev \in Switchable /\ TripRead(x, f.got.tripped) /\ f.got.value = x.dev[f.dev].value
<1>1. /\ f.got.enabled = "unknown"
      /\ \/ f.read = Protected!Whole(f.dev)
         \/ Begun(x, f) /\ f.got.value = x.dev[f.dev].value
  BY DEF ProtectedSound, ProtectedReading
<1>2. /\ Head(Protected!Whole(f.dev)) = "value" /\ Head(Part(f.dev)) = "tripped" /\ Head(<<"enabled">>) = "enabled"
  BY ProtectedReads
<1>3. CASE f.read = Protected!Whole(f.dev) BY <1>1, <1>2, <1>3
<1>4. CASE f.read = Part(f.dev) /\ f.got.value = x.dev[f.dev].value BY <1>1, <1>2, <1>4
<1>5. CASE /\ f.read = <<"enabled">> /\ f.dev \in Switchable /\ TripRead(x, f.got.tripped)
           /\ f.got.value = x.dev[f.dev].value
  BY <1>1, <1>2, <1>5
<1> QED BY <1>1, <1>3, <1>4, <1>5 DEF Begun

\* An answer that is not the last of its reading.
LEMMA ProtectedReadsOn ==
  ASSUME ProtectedInv(w), 1 \in DOMAIN w.wire, NEW f, f = w.wire[1], Reading(f), Len(f.read) > 1,
         NEW x, x = Protected!Took(w, 1), NEW t, f.dev = w.seen.dev => TripRead(x, t),
         NEW y, y = Protected!Ask(x, [f EXCEPT !.read = Tail(@), !.got = Protected!Reading(x, f, t)])
  PROVE  ProtectedInv(y)
<1>1. PICK got, read, r : got = Protected!Reading(x, f, t) /\ read = Tail(f.read) /\ r = [f EXCEPT !.read = read, !.got = got]
  OBVIOUS
<1>2. y = Protected!Ask(x, r)
  BY <1>1
<1>3. ProtectedSound(w) /\ ProtectedRequest(f) /\ ProtectedBusy(w)
  BY DEF ProtectedInv, ProtectedSound, ProtectedCard
<1>4. ProtectedSound(x) /\ ProtectedCard(x) /\ ProtectedSameBut(w, x)
  BY <1>3, ProtectedLeft, ProtectedTook
<1>5. f.kind = "full" /\ ~Setting(f)
  BY ONLY <1>3, Reading(f), Len(f.read) > 1, ProtectedReadsMore DEF Setting
<1>6. /\ f.read \in {Protected!Whole(f.dev), Part(f.dev)} /\ (f.read = Part(f.dev) => f.dev \in Switchable)
      /\ read \in {Part(f.dev), <<"enabled">>}
  BY ONLY <1>1, <1>3, Reading(f), Len(f.read) > 1, ProtectedReadsMore
<1>7. ProtectedShown(got) /\ ~got.loading /\ ~got.error
  BY <1>1, <1>3, <1>4, ProtectedGot
<1>8. ProtectedRequest(r) /\ r.kind = "full" /\ r.dev = f.dev /\ r.cur = f.cur /\ r.held = f.held /\ r.read = read /\ r.got = got
  <2>1. /\ r \in [kind : {"apply", "enable", "full", "poll"}, dev : Supplies, read : {read}, got : {got}, set : Texts,
                  cur : BOOLEAN, held : BOOLEAN]
        /\ r.kind = f.kind /\ r.dev = f.dev /\ r.cur = f.cur /\ r.held = f.held /\ r.read = read /\ r.got = got
    BY <1>1, <1>3 DEF ProtectedRequest
  <2> QED BY <1>5, <1>6, <1>7, <2>1 DEF ProtectedRequest
<1>9. /\ ~Setting(r) /\ (Task(r) <=> f.cur) /\ (Reader(r) <=> f.cur) /\ (Full(r) <=> f.cur)
      /\ (Task(f) <=> f.cur) /\ (Reader(f) <=> f.cur) /\ (Full(f) <=> f.cur)
  BY <1>5, <1>8 DEF Setting, Task, Reader, Reading, Full
<1>10. /\ f.cur => NoTask(x) /\ NoReader(x) /\ NoSetting(x)
       /\ ~f.cur => ProtectedBusy(x)
       /\ NoSetting(w) => NoSetting(x)
  BY <1>3, <1>9, ProtectedLeftBusy
<1>11. f.cur => f.dev = w.seen.dev /\ f.held
  BY <1>3, <1>9 DEF ProtectedSound, ProtectedSession, ProtectedHeld
<1>12. f.held <=> f.cur
  BY <1>3, <1>5 DEF ProtectedSound, ProtectedHeld
<1>13. ASSUME Full(r)
       PROVE  /\ \/ r.read = Protected!Whole(r.dev)
                 \/ Begun(x, r) /\ NoSetting(x) /\ r.got.value = x.dev[r.dev].value
              /\ r.got.enabled = "unknown"
  <2>1. Full(f) /\ NoSetting(x) /\ TripRead(x, t) BY <1>9, <1>10, <1>11, <1>13
  <2>2. f.got.enabled = "unknown" /\ (Head(f.read) = "tripped" => f.got.value = w.dev[f.dev].value)
    BY <1>3, <2>1, ProtectedStage
  <2>3. CASE f.read = Protected!Whole(f.dev)
    <3>1. Head(f.read) = "value" /\ read = Part(f.dev) BY <1>1, <2>3, ProtectedReads
    <3>2. got.value = x.dev[f.dev].value /\ got.enabled = f.got.enabled
      BY <1>1, <1>3, <1>4, <3>1, ProtectedGot
    <3> QED BY <1>8, <2>1, <2>2, <3>1, <3>2 DEF Begun
  <2>4. CASE f.read = Part(f.dev)
    <3>1. Head(f.read) = "tripped" /\ read = <<"enabled">> /\ f.dev \in Switchable
      BY <1>1, <1>6, <2>4, ProtectedReads
    <3>2. got.tripped = t /\ got.value = f.got.value /\ got.enabled = f.got.enabled
      BY <1>1, <1>3, <1>4, <3>1, ProtectedGot
    <3>3. w.dev = x.dev BY <1>4 DEF ProtectedSameBut
    <3> QED BY <1>8, <2>1, <2>2, <3>1, <3>2, <3>3 DEF Begun
  <2> QED BY <1>6, <2>3, <2>4
<1>14. ProtectedSound(y)
  <2>1. w.seen = x.seen BY <1>4 DEF ProtectedSameBut
  <2> QED BY <1>2, <1>4, <1>8, <1>9, <1>10, <1>11, <1>12, <1>13, <2>1, ProtectedAsked
<1>15. w.rt = x.rt /\ (f.cur => x.rt.loading)
  BY <1>3, <1>4, <1>9 DEF ProtectedBusy, ProtectedSameBut
<1>16. ProtectedBusy(y) /\ (NoSetting(x) => NoSetting(y))
  BY <1>2, <1>4, <1>8, <1>9, <1>10, <1>15, ProtectedAskedBusy
<1>17. ProtectedRest(y)
  <2>1. ProtectedSameBut(x, y) BY <1>2, <1>4, <1>8, ProtectedAsk
  <2> QED BY <1>4, <1>10, <1>16, <2>1 DEF ProtectedInv, ProtectedRest, ProtectedResting, ProtectedSameBut
<1> QED BY <1>14, <1>16, <1>17 DEF ProtectedInv

\* The last answer of a poll.
LEMMA ProtectedPolled ==
  ASSUME ProtectedInv(w), 1 \in DOMAIN w.wire, NEW f, f = w.wire[1], f.kind = "poll", f.cur,
         NEW x, x = Protected!Took(w, 1), NEW t, TripRead(x, t), NEW got, got = Protected!Reading(x, f, t),
         NEW y, y = Protected!Notice(Protected!Shown(x, f, got), got.tripped)
  PROVE  ProtectedInv(y)
<1>1. ProtectedSound(w) /\ ProtectedRequest(f) /\ ProtectedBusy(w)
  BY DEF ProtectedInv, ProtectedSound, ProtectedCard
<1>2. ProtectedSound(x) /\ ProtectedCard(x) /\ ProtectedSameBut(w, x)
  BY <1>1, ProtectedLeft, ProtectedTook
<1>3. Reader(f) /\ ~Task(f) /\ Head(f.read) = "tripped"
  BY <1>1, ProtectedReads DEF Reader, Reading, Task, ProtectedRequest
<1>4. NoReader(x) /\ ProtectedBusy(x) /\ (NoSetting(w) => NoSetting(x))
  BY <1>1, <1>3, ProtectedLeftBusy
<1>5. got.tripped = t
  BY <1>1, <1>2, <1>3, ProtectedGot
<1>6. PICK u, r, s : u = Protected!Shown(x, f, got) /\ r = x.rt /\ s = [r EXCEPT !.tripped = got.tripped.is]
  OBVIOUS
<1>7. u = [x EXCEPT !.rt = s]
  BY <1>2, <1>6 DEF Protected!Shown, ProtectedCard, ProtectedFields
<1>8. ProtectedShown(s) /\ s.value = r.value /\ s.enabled = r.enabled /\ s.loading = r.loading /\ s.error = r.error
  <2>1. ProtectedShown(r) BY <1>2, <1>6 DEF ProtectedCard
  <2> QED BY <1>6, <2>1 DEF ProtectedShown
<1>9. /\ u.rt = s /\ u.wire = x.wire /\ u.config = x.config /\ u.up = x.up /\ u.due = x.due
      /\ u.last = x.last /\ u.seen = x.seen /\ u.told = x.told /\ u.trips = x.trips /\ u.dev = x.dev
  BY <1>2, <1>7, <1>8, ProtectedShows
<1>10. ProtectedSound(u)
  BY <1>2, <1>7, <1>8, ProtectedShows
<1>11. NoReader(u) /\ TripRead(u, t)
  BY <1>4, <1>9 DEF NoReader, TripRead
<1>12. y = Protected!Notice(u, t)
  BY <1>5, <1>6
<1>13. /\ ProtectedSound(y) /\ y.wire = u.wire /\ y.rt = u.rt /\ y.config = u.config /\ y.up = u.up /\ y.due = u.due
       /\ y.dev = u.dev
  BY <1>10, <1>11, <1>12, ProtectedNotices
<1>16. r = x.rt /\ y.wire = x.wire /\ y.rt = s
  BY ONLY <1>6, <1>9, <1>13
<1>14. ProtectedBusy(y)
  BY ONLY <1>4, <1>8, <1>16 DEF ProtectedBusy
<1>15. ProtectedRest(y)
  <2>1. NoSetting(x) => NoSetting(y) BY <1>9, <1>13 DEF NoSetting
  <2>2. ProtectedResting(y) => ProtectedResting(w)
    BY ONLY <1>2, <1>8, <1>9, <1>13, <1>16 DEF ProtectedResting, ProtectedSameBut
  <2>3. y.rt.value = w.rt.value /\ y.rt.enabled = w.rt.enabled /\ y.dev = w.dev /\ y.config = w.config
    BY ONLY <1>2, <1>8, <1>9, <1>13, <1>16 DEF ProtectedSameBut
  <2> QED BY <1>4, <2>1, <2>2, <2>3 DEF ProtectedInv, ProtectedRest
<1> QED BY <1>13, <1>14, <1>15 DEF ProtectedInv

\* The last answer of a full reading.
LEMMA ProtectedFullRead ==
  ASSUME ProtectedInv(w), 1 \in DOMAIN w.wire, NEW f, f = w.wire[1], f.kind = "full", f.cur, ~(Len(f.read) > 1),
         NEW x, x = Protected!Took(w, 1), NEW t, TripRead(x, t), NEW got, got = Protected!Reading(x, f, t),
         NEW y, y = Protected!Notice(Protected!Shown(x, f, got), got.tripped)
  PROVE  ProtectedInv(y)
<1>1. ProtectedSound(w) /\ ProtectedRequest(f) /\ ProtectedBusy(w)
  BY DEF ProtectedInv, ProtectedSound, ProtectedCard
<1>2. ProtectedSound(x) /\ ProtectedCard(x) /\ ProtectedSameBut(w, x)
  BY <1>1, ProtectedLeft, ProtectedTook
<1>3. Reader(f) /\ Task(f) /\ Full(f)
  BY DEF Reader, Reading, Task, Full
<1>4. NoReader(x) /\ NoTask(x) /\ NoSetting(x)
  BY <1>1, <1>3, ProtectedLeftBusy
<1>5. f.dev = w.seen.dev /\ f.dev \in Supplies
  BY <1>1 DEF ProtectedSound, ProtectedSession, ProtectedRequest
<1>6. /\ f.got.enabled = "unknown" /\ f.got.value = w.dev[f.dev].value
      /\ \/ Head(f.read) = "tripped" /\ f.dev \notin Switchable
         \/ Head(f.read) = "enabled" /\ TripRead(w, f.got.tripped)
  BY <1>1, <1>3, ProtectedStage, ProtectedReads
<1>7. ProtectedShown(got) /\ ~got.loading /\ ~got.error
  BY <1>1, <1>2, ProtectedGot
<1>8. got.value = x.dev[f.dev].value /\ got.enabled = x.dev[f.dev].enabled /\ TripRead(x, got.tripped)
  <2>1. w.dev = x.dev BY <1>2 DEF ProtectedSameBut
  <2>2. CASE Head(f.read) = "tripped" /\ f.dev \notin Switchable
    <3>1. got.tripped = t /\ got.value = f.got.value /\ got.enabled = f.got.enabled
      BY <1>1, <1>2, <2>2, ProtectedGot
    <3>2. x.dev[f.dev].enabled = "unknown"
      BY <1>2, <1>5, <2>2 DEF ProtectedSound, ProtectedTrips
    <3> QED BY <1>6, <2>1, <3>1, <3>2
  <2>3. CASE Head(f.read) = "enabled" /\ TripRead(w, f.got.tripped)
    <3>1. got.tripped = f.got.tripped /\ got.value = f.got.value /\ got.enabled = x.dev[f.dev].enabled
      BY <1>1, <1>2, <2>3, ProtectedGot
    <3>2. TripRead(x, got.tripped) BY <1>2, <2>3, <3>1 DEF TripRead, ProtectedSameBut
    <3> QED BY <1>6, <2>1, <3>1, <3>2
  <2> QED BY <1>6, <2>2, <2>3
<1>9. PICK u, s : u = Protected!Shown(x, f, got) /\ s = [got EXCEPT !.tripped = got.tripped.is]
  OBVIOUS
<1>10. u = [x EXCEPT !.rt = s]
  BY <1>9 DEF Protected!Shown
<1>11. ProtectedShown(s) /\ s.value = got.value /\ s.enabled = got.enabled /\ ~s.loading /\ ~s.error
  BY <1>7, <1>9 DEF ProtectedShown
<1>12. /\ u.rt = s /\ u.wire = x.wire /\ u.config = x.config /\ u.up = x.up /\ u.due = x.due
       /\ u.last = x.last /\ u.seen = x.seen /\ u.told = x.told /\ u.trips = x.trips /\ u.dev = x.dev
  BY <1>2, <1>10, <1>11, ProtectedShows
<1>13. ProtectedSound(u)
  BY <1>2, <1>10, <1>11, ProtectedShows
<1>14. NoReader(u) /\ TripRead(u, got.tripped)
  BY <1>4, <1>8, <1>12 DEF NoReader, TripRead
<1>15. /\ ProtectedSound(y) /\ y.wire = u.wire /\ y.rt = u.rt /\ y.config = u.config /\ y.up = u.up /\ y.due = u.due
       /\ y.dev = u.dev
  BY <1>9, <1>13, <1>14, ProtectedNotices
<1>16. ProtectedBusy(y)
  BY ONLY <1>4, <1>11, <1>12, <1>15 DEF ProtectedBusy, NoTask
<1>17. ProtectedRest(y)
  <2>1. NoSetting(y) BY <1>4, <1>12, <1>15 DEF NoSetting
  <2>2. ASSUME ~y.due PROVE y.config.dev = f.dev
    <3>1. ~w.due BY <1>2, <1>12, <1>15, <2>2 DEF ProtectedSameBut
    <3>2. w.seen = [dev |-> w.config.dev, run |-> w.config.dev \in w.up] BY <1>1, <3>1 DEF ProtectedSound, ProtectedSession
    <3>3. w.seen.dev = w.config.dev BY <3>2
    <3> QED BY <1>2, <1>5, <1>12, <1>15, <3>3 DEF ProtectedSameBut
  <2> QED BY ONLY <1>8, <1>11, <1>12, <1>15, <2>1, <2>2 DEF ProtectedRest, ProtectedResting
<1> QED BY <1>15, <1>16, <1>17 DEF ProtectedInv

LEMMA ProtectedReadAnswer ==
  ASSUME ProtectedInv(w), 1 \in DOMAIN w.wire, NEW f, f = w.wire[1], Reading(f),
         Protected!ReadAnswer(Protected!Took(w, 1), f)
  PROVE  ProtectedInv(w')
<1>1. PICK x : x = Protected!Took(w, 1)
  OBVIOUS
<1>2. PICK t : /\ \/ t = [is |-> Protected!Unknown, n |-> 0]
                  \/ t = [is |-> IF x.dev[f.dev].tripped > 0 THEN "yes" ELSE "no", n |-> x.dev[f.dev].tripped]
               /\ w' = IF Len(f.read) > 1
                       THEN Protected!Ask(x, [f EXCEPT !.read = Tail(@), !.got = Protected!Reading(x, f, t)])
                       ELSE IF f.cur THEN Protected!Notice(Protected!Shown(x, f, Protected!Reading(x, f, t)),
                                                           Protected!Reading(x, f, t).tripped)
                       ELSE x
  BY <1>1 DEF Protected!ReadAnswer
<1>3. ProtectedSound(w) /\ ProtectedRequest(f) /\ ProtectedBusy(w)
  BY DEF ProtectedInv, ProtectedSound, ProtectedCard
<1>4. ProtectedSound(x) /\ ProtectedSameBut(w, x)
  BY <1>1, <1>3, ProtectedLeft, ProtectedTook
<1>5. f.dev = w.seen.dev => TripRead(x, t)
  <2>1. x.seen = w.seen BY <1>4 DEF ProtectedSameBut
  <2> QED BY <1>2, <1>4, <2>1, ProtectedTripFound
<1>6. f.cur => f.dev = w.seen.dev
  BY <1>3 DEF ProtectedSound, ProtectedSession
<1>7. CASE Len(f.read) > 1
  BY <1>1, <1>2, <1>5, <1>7, ProtectedReadsOn
<1>8. CASE ~(Len(f.read) > 1) /\ f.cur
  <2>1. TripRead(x, t) BY <1>5, <1>6, <1>8
  <2>2. PICK got : got = Protected!Reading(x, f, t)
    OBVIOUS
  <2>3. w' = Protected!Notice(Protected!Shown(x, f, got), got.tripped) BY <1>2, <1>8, <2>2
  <2>4. CASE f.kind = "poll" BY <1>1, <1>8, <2>1, <2>2, <2>3, <2>4, ProtectedPolled
  <2>5. CASE f.kind = "full" BY <1>1, <1>8, <2>1, <2>2, <2>3, <2>5, ProtectedFullRead
  <2> QED BY <2>4, <2>5 DEF Reading
<1>9. CASE ~(Len(f.read) > 1) /\ ~f.cur
  <2>1. w' = x BY <1>2, <1>9
  <2>2. ProtectedBusy(x) /\ (NoSetting(w) => NoSetting(x)) BY <1>1, <1>3, <1>9, ProtectedLeftBusy DEF Task
  <2>3. ProtectedRest(x)
    BY <1>4, <2>2 DEF ProtectedInv, ProtectedRest, ProtectedResting, ProtectedSameBut
  <2> QED BY <1>4, <2>1, <2>2, <2>3 DEF ProtectedInv
<1> QED BY <1>7, <1>8, <1>9

\* A draft that is edited or forgotten.
LEMMA ProtectedDrafts ==
  ASSUME NEW x, ProtectedSound(x), NEW v \in Texts, NEW y, y = [x EXCEPT !.draft = v]
  PROVE  /\ ProtectedSound(y) /\ y.wire = x.wire /\ y.rt = x.rt /\ y.config = x.config /\ y.up = x.up /\ y.due = x.due
         /\ y.seen = x.seen
         /\ ProtectedBusy(x) => ProtectedBusy(y)
         /\ ProtectedRest(x) => ProtectedRest(y)
<1>1. /\ ProtectedFields(y) /\ y.wire = x.wire /\ y.rt = x.rt /\ y.config = x.config /\ y.up = x.up /\ y.due = x.due
      /\ y.last = x.last /\ y.seen = x.seen /\ y.told = x.told /\ y.trips = x.trips /\ y.dev = x.dev
  BY DEF ProtectedSound, ProtectedCard, ProtectedFields
<1>2. ProtectedCard(y)
  BY <1>1 DEF ProtectedSound, ProtectedCard
<1>3. ProtectedSession(y)
  BY <1>1 DEF ProtectedSound, ProtectedSession
<1>4. ProtectedHeld(y)
  BY <1>1 DEF ProtectedSound, ProtectedHeld
<1>5. ProtectedReading(y)
  BY <1>1 DEF ProtectedSound, ProtectedReading, NoSetting, Begun, TripRead
<1>6. ProtectedTrips(y)
  BY <1>1 DEF ProtectedSound, ProtectedTrips
<1>7. ProtectedSound(y)
  BY <1>2, <1>3, <1>4, <1>5, <1>6 DEF ProtectedSound
<1>8. ProtectedBusy(x) => ProtectedBusy(y)
  BY <1>1 DEF ProtectedBusy
<1>9. ProtectedRest(x) => ProtectedRest(y)
  BY <1>1 DEF ProtectedRest, ProtectedResting, NoSetting
<1> QED BY <1>1, <1>7, <1>8, <1>9

LEMMA ProtectedWriteAnswer ==
  ASSUME ProtectedInv(w), 1 \in DOMAIN w.wire, NEW f, f = w.wire[1], Setting(f),
         Protected!WriteAnswer(Protected!Took(w, 1), f)
  PROVE  ProtectedInv(w')
<1>1. PICK x, z : x = Protected!Took(w, 1) /\ z = Protected!Written(x, f)
  OBVIOUS
<1>2. ProtectedSound(w) /\ ProtectedRequest(f) /\ ProtectedBusy(w)
  BY DEF ProtectedInv, ProtectedSound, ProtectedCard
<1>3. ProtectedSound(x) /\ ProtectedSameBut(w, x)
  BY <1>1, <1>2, ProtectedLeft, ProtectedTook
<1>4. \A k \in DOMAIN x.wire : Full(x.wire[k]) => x.wire[k].read = Protected!Whole(x.wire[k].dev)
  BY <1>1, <1>2, ProtectedNoneBegun
<1>5. ProtectedSound(z) /\ z.wire = x.wire /\ z.rt = x.rt /\ z.config = x.config /\ z.up = x.up /\ z.due = x.due
      /\ z.seen = x.seen
  BY <1>1, <1>2, <1>3, <1>4, ProtectedWritten
<1>6. w' = IF ~f.cur THEN z ELSE Protected!Refresh(IF f.kind = "apply" THEN [z EXCEPT !.draft = "unknown"] ELSE z, f.dev)
  BY <1>1 DEF Protected!WriteAnswer, Protected!Unknown
<1>7. CASE ~f.cur
  <2>1. ProtectedBusy(x) BY <1>1, <1>2, <1>7, ProtectedLeftBusy DEF Task
  <2>2. ProtectedBusy(z) BY <1>5, <2>1 DEF ProtectedBusy
  <2>3. ~NoSetting(w) BY DEF NoSetting
  <2>4. ~ProtectedResting(z)
    BY <1>3, <1>5, <2>3 DEF ProtectedInv, ProtectedRest, ProtectedResting, ProtectedSameBut
  <2> QED BY <1>5, <1>6, <1>7, <2>2, <2>4 DEF ProtectedInv, ProtectedRest
<1>8. CASE f.cur
  <2>1. PICK y : y = IF f.kind = "apply" THEN [z EXCEPT !.draft = "unknown"] ELSE z
    OBVIOUS
  <2>2. PICK v \in Texts : v = "unknown"
    BY DEF Texts
  <2>3. ProtectedSound(y) /\ y.wire = z.wire /\ y.seen = z.seen
    <3>1. CASE f.kind = "apply"
      <4>1. y = [z EXCEPT !.draft = v] BY <2>1, <2>2, <3>1
      <4> QED BY <1>5, <4>1, ProtectedDrafts
    <3>2. CASE f.kind # "apply" BY <1>5, <2>1, <3>2
    <3> QED BY <3>1, <3>2
  <2>4. Task(f) BY <1>8 DEF Task, Setting
  <2>5. NoTask(x) BY <1>1, <1>2, <2>4, ProtectedLeftBusy
  <2>6. \A i \in DOMAIN y.wire : ~Full(y.wire[i])
    BY <1>5, <2>3, <2>5 DEF NoTask, Task, Full
  <2>7. f.dev = y.seen.dev
    <3>1. f.dev = w.seen.dev BY <1>2, <1>8 DEF ProtectedSound, ProtectedSession
    <3> QED BY <1>3, <1>5, <2>3, <3>1 DEF ProtectedSameBut
  <2>8. w' = Protected!Refresh(y, y.seen.dev) BY <1>6, <1>8, <2>1, <2>7
  <2> QED BY <2>3, <2>6, <2>8, ProtectedRefreshes
<1> QED BY <1>7, <1>8

LEMMA ProtectedAnswer ==
  ASSUME ProtectedInv(w), Protected!Answer
  PROVE  ProtectedInv(w')
<1>1. Wire(w.wire) /\ w.wire # <<>>
  BY DEF ProtectedInv, ProtectedSound, ProtectedCard, Protected!Answer
<1>2. 1 \in DOMAIN w.wire /\ Head(w.wire) = w.wire[1]
  BY <1>1 DEF Wire
<1>3. PICK f : f = w.wire[1]
  OBVIOUS
<1>4. ProtectedRequest(f)
  BY <1>2, <1>3 DEF ProtectedInv, ProtectedSound, ProtectedCard
<1>5. CASE Reading(f)
  <2>1. Protected!ReadAnswer(Protected!Took(w, 1), f)
    BY <1>2, <1>3, <1>5 DEF Protected!Answer, Protected!Reads, Reading
  <2> QED BY <1>2, <1>3, <1>5, <2>1, ProtectedReadAnswer
<1>6. CASE ~Reading(f)
  <2>1. Protected!WriteAnswer(Protected!Took(w, 1), f)
    BY <1>2, <1>3, <1>6 DEF Protected!Answer, Protected!Reads, Reading
  <2>2. Setting(f)
    BY <1>4, <1>6 DEF ProtectedRequest, Setting, Reading
  <2> QED BY <1>2, <1>3, <2>1, <2>2, ProtectedWriteAnswer
<1> QED BY <1>5, <1>6

LEMMA ProtectedFails ==
  ASSUME ProtectedInv(w), NEW i \in DOMAIN w.wire, Protected!Fails(i)
  PROVE  ProtectedInv(w')
<1>1. PICK f, u, z : f = w.wire[i] /\ u = Protected!Took(w, i) /\ z = Protected!Written(u, f)
  OBVIOUS
<1>2. ProtectedSound(w) /\ ProtectedRequest(f) /\ ProtectedBusy(w)
  BY <1>1 DEF ProtectedInv, ProtectedSound, ProtectedCard
<1>3. ProtectedSound(u) /\ ProtectedSameBut(w, u)
  BY <1>1, <1>2, ProtectedLeft, ProtectedTook
<1>4. ASSUME Setting(f)
      PROVE  ProtectedSound(z) /\ z.wire = u.wire /\ z.rt = u.rt /\ z.config = u.config /\ z.up = u.up /\ z.due = u.due
  <2>1. \A k \in DOMAIN u.wire : Full(u.wire[k]) => u.wire[k].read = Protected!Whole(u.wire[k].dev)
    BY <1>1, <1>2, <1>4, ProtectedNoneBegun
  <2> QED BY <1>1, <1>2, <1>3, <1>4, <2>1, ProtectedWritten
<1>5. PICK x : /\ x = u \/ (Setting(f) /\ x = z)
               /\ w' = IF Task(f) THEN Protected!Failed(x) ELSE x
  <2>1. PICK x \in {u} \union (IF Protected!Reads(f) THEN {} ELSE {z}) :
          w' = IF f.cur /\ f.kind # "poll" THEN Protected!Failed(x) ELSE x
    BY <1>1 DEF Protected!Fails
  <2>2. x = u \/ (Setting(f) /\ x = z)
    BY <1>2, <2>1 DEF Protected!Reads, ProtectedRequest, Setting
  <2> QED BY <2>1, <2>2 DEF Task
<1>6. ProtectedSound(x) /\ x.wire = u.wire /\ x.rt = u.rt /\ x.config = u.config /\ x.up = u.up /\ x.due = u.due
  BY <1>3, <1>4, <1>5
<1>7. CASE Task(f)
  <2>1. PICK y : y = Protected!Failed(x)
    OBVIOUS
  <2>2. ProtectedCard(x) BY <1>6 DEF ProtectedSound
  <2>3. ProtectedSound(y) /\ ~y.rt.loading /\ y.rt.error /\ y.wire = x.wire
    BY <1>6, <2>1, <2>2, ProtectedFailed
  <2>4. NoTask(u) BY <1>1, <1>2, <1>7, ProtectedLeftBusy
  <2>5. ProtectedBusy(y) BY <1>6, <2>3, <2>4 DEF NoTask, ProtectedBusy
  <2>6. ProtectedRest(y) BY <2>3 DEF ProtectedRest, ProtectedResting
  <2> QED BY <1>5, <1>7, <2>1, <2>3, <2>5, <2>6 DEF ProtectedInv
<1>8. CASE ~Task(f)
  <2>1. w' = x BY <1>5, <1>8
  <2>2. ProtectedBusy(u) BY <1>1, <1>2, <1>8, ProtectedLeftBusy
  <2>3. ProtectedBusy(x) BY <1>6, <2>2 DEF ProtectedBusy
  <2>4. ProtectedResting(x) => ProtectedResting(w)
    BY <1>3, <1>6 DEF ProtectedResting, ProtectedSameBut
  <2>5. ProtectedRest(x)
    <3>1. CASE Setting(f)
      <4>1. ~NoSetting(w) BY <1>1, <3>1 DEF NoSetting
      <4> QED BY <2>4, <4>1 DEF ProtectedInv, ProtectedRest
    <3>2. CASE ~Setting(f)
      <4>1. x = u BY <1>5, <3>2
      <4>2. NoSetting(w) => NoSetting(u) BY <1>1, <1>2, ProtectedLeftBusy
      <4> QED BY <1>3, <2>4, <4>1, <4>2 DEF ProtectedInv, ProtectedRest, ProtectedSameBut
    <3> QED BY <3>1, <3>2
  <2> QED BY <1>6, <2>1, <2>3, <2>5 DEF ProtectedInv
<1> QED BY <1>7, <1>8

\* An idle card waits for none of its own.
LEMMA ProtectedIdle ==
  ASSUME ProtectedInv(w), Protected!Idle
  PROVE  NoTask(w) /\ (\A i \in DOMAIN w.wire : ~Full(w.wire[i])) /\ w.config.dev = w.seen.dev
<1>1. ~w.rt.loading /\ ~w.due
  BY DEF Protected!Idle
<1>2. NoTask(w)
  BY <1>1 DEF ProtectedInv, ProtectedBusy, NoTask
<1>3. w.seen = [dev |-> w.config.dev, run |-> w.config.dev \in w.up]
  BY <1>1 DEF ProtectedInv, ProtectedSound, ProtectedSession
<1>4. w.seen.dev = w.config.dev
  BY <1>3
<1> QED BY <1>2, <1>4 DEF NoTask, Task, Full

\* A write that an idle card sends.
LEMMA ProtectedWrites ==
  ASSUME ProtectedInv(w), Protected!Idle, NEW kind \in {"apply", "enable"}, NEW v \in Texts,
         kind = "enable" => w.config.dev \in Switchable, Protected!Write(kind, v)
  PROVE  ProtectedInv(w')
<1>1. PICK r, x : /\ r = [Protected!Request(kind, w.config.dev, <<>>) EXCEPT !.set = v, !.held = FALSE]
                  /\ x = Protected!Loading(w)
  OBVIOUS
<1>2. w' = Protected!Ask(x, r)
  BY <1>1 DEF Protected!Write
<1>3. ProtectedSound(w) /\ ProtectedCard(w) /\ w.config.dev \in Supplies
  BY DEF ProtectedInv, ProtectedSound, ProtectedCard, ProtectedFields
<1>4. NoTask(w) /\ (\A i \in DOMAIN w.wire : ~Full(w.wire[i])) /\ w.config.dev = w.seen.dev
  BY ProtectedIdle
<1>5. /\ ProtectedCard(x) /\ ProtectedSound(x) /\ x.rt.loading /\ x.wire = w.wire /\ x.seen = w.seen
  BY <1>1, <1>3, ProtectedLoads
<1>6. PICK g : g = Protected!Initial
  OBVIOUS
<1>7. ProtectedShown(g) /\ ~g.loading /\ ~g.error
  <2>1. PICK t \in Texts : t = "unknown" BY DEF Texts
  <2>2. g = [value |-> t, enabled |-> t, tripped |-> "unknown", loading |-> FALSE, error |-> FALSE]
    BY <1>6, <2>1 DEF Protected!Initial, Protected!Unknown
  <2> QED BY <2>2 DEF ProtectedShown
<1>8. r = [kind |-> kind, dev |-> w.config.dev, read |-> <<>>, got |-> g, set |-> v, cur |-> TRUE, held |-> FALSE]
  BY <1>1, <1>6 DEF Protected!Request
<1>9. r.kind = kind /\ r.dev = w.config.dev /\ r.got = g /\ r.cur
  BY <1>8
<1>10. r \in [kind : {"apply", "enable", "full", "poll"}, dev : Supplies, read : {r.read}, got : {r.got}, set : Texts,
             cur : BOOLEAN, held : BOOLEAN]
  BY <1>3, <1>8
<1>11. ProtectedRequest(r)
  BY <1>7, <1>9, <1>10 DEF ProtectedRequest
<1>12. Setting(r) /\ Task(r) /\ ~Reader(r) /\ ~Full(r) /\ r.kind # "full"
  BY <1>9 DEF Setting, Task, Reader, Reading, Full
<1>13. ProtectedSound(w')
  BY <1>2, <1>4, <1>5, <1>9, <1>11, <1>12, ProtectedAsked
<1>14. ProtectedBusy(w')
  <2>1. NoTask(x) BY <1>4, <1>5 DEF NoTask
  <2> QED BY <1>2, <1>5, <1>11, <1>12, <2>1, ProtectedAskedBusy
<1>15. w'.rt = x.rt
  BY <1>2, <1>5, <1>11, ProtectedAsk DEF ProtectedSameBut
<1> QED BY <1>5, <1>13, <1>14, <1>15 DEF ProtectedInv, ProtectedRest, ProtectedResting

LEMMA ProtectedClicks ==
  ASSUME ProtectedInv(w), Protected!ClickApply \/ Protected!ClickEnable
  PROVE  ProtectedInv(w')
<1>1. CASE Protected!ClickApply
  <2>1. w.draft \in Texts BY DEF ProtectedInv, ProtectedSound, ProtectedCard, ProtectedFields
  <2>2. Protected!Idle /\ Protected!Write("apply", w.draft) BY <1>1 DEF Protected!ClickApply
  <2> QED BY <2>1, <2>2, ProtectedWrites
<1>2. CASE Protected!ClickEnable
  <2>1. PICK v \in Texts : v = IF w.rt.enabled = "on" THEN "off" ELSE "on" BY DEF Texts
  <2>2. Protected!Idle /\ w.config.dev \in Switchable /\ Protected!Write("enable", v)
    BY <1>2, <2>1 DEF Protected!ClickEnable
  <2> QED BY <2>2, ProtectedWrites
<1> QED BY <1>1, <1>2

LEMMA ProtectedEdits ==
  ASSUME ProtectedInv(w), Protected!EditDraft
  PROVE  ProtectedInv(w')
<1>1. PICK v \in Values : w' = [w EXCEPT !.draft = v]
  BY DEF Protected!EditDraft
<1>2. v \in Texts
  BY DEF Texts
<1> QED BY <1>1, <1>2, ProtectedDrafts DEF ProtectedInv

LEMMA ProtectedTicks ==
  ASSUME ProtectedInv(w), Protected!PollTick
  PROVE  ProtectedInv(w')
<1>1. PICK r : r = Protected!Request("poll", w.seen.dev, <<"tripped">>)
  OBVIOUS
<1>2. w' = Protected!Ask(w, r) /\ ~Protected!Held(w, "poll") /\ ~Protected!Held(w, "full")
  BY <1>1 DEF Protected!PollTick
<1>3. ProtectedSound(w) /\ ProtectedCard(w) /\ ProtectedBusy(w) /\ w.seen.dev \in Supplies
  BY DEF ProtectedInv, ProtectedSound, ProtectedCard, ProtectedFields
<1>4. NoReader(w)
  BY <1>2, <1>3 DEF ProtectedSound, ProtectedHeld, NoReader, Reader, Reading, Protected!Held
<1>5. PICK g : g = Protected!Initial
  OBVIOUS
<1>6. PICK t \in Texts : t = "unknown"
  BY DEF Texts
<1>7. ProtectedShown(g) /\ ~g.loading /\ ~g.error
  <2>1. g = [value |-> t, enabled |-> t, tripped |-> "unknown", loading |-> FALSE, error |-> FALSE]
    BY <1>5, <1>6 DEF Protected!Initial, Protected!Unknown
  <2> QED BY <2>1 DEF ProtectedShown
<1>8. r = [kind |-> "poll", dev |-> w.seen.dev, read |-> <<"tripped">>, got |-> g, set |-> t, cur |-> TRUE, held |-> TRUE]
  BY <1>1, <1>5, <1>6 DEF Protected!Request, Protected!Unknown
<1>9. r.kind = "poll" /\ r.dev = w.seen.dev /\ r.got = g /\ r.cur /\ r.held /\ r.read = <<"tripped">>
  BY <1>8
<1>10. r \in [kind : {"apply", "enable", "full", "poll"}, dev : Supplies, read : {r.read}, got : {r.got}, set : Texts,
             cur : BOOLEAN, held : BOOLEAN]
  BY <1>3, <1>8
<1>11. ProtectedRequest(r)
  BY <1>7, <1>9, <1>10 DEF ProtectedRequest
<1>12. ~Setting(r) /\ ~Task(r) /\ ~Full(r)
  BY <1>9 DEF Setting, Task, Full
<1>13. ProtectedSound(w')
  BY <1>2, <1>3, <1>4, <1>9, <1>11, <1>12, ProtectedAsked
<1>14. ProtectedBusy(w') /\ (NoSetting(w) => NoSetting(w'))
  BY <1>2, <1>3, <1>11, <1>12, ProtectedAskedBusy
<1>15. ProtectedSameBut(w, w')
  BY <1>2, <1>3, <1>11, ProtectedAsk
<1>16. ProtectedRest(w')
  BY <1>14, <1>15 DEF ProtectedInv, ProtectedRest, ProtectedResting, ProtectedSameBut
<1> QED BY <1>13, <1>14, <1>16 DEF ProtectedInv

\* The effects of a render that kept the session, and of one that ended it.
LEMMA ProtectedKept ==
  ASSUME ProtectedInv(w), w.due, Protected!Key(w) = w.seen, NEW x, x = [w EXCEPT !.due = FALSE, !.seen = Protected!Key(w)]
  PROVE  ProtectedSound(x) /\ ProtectedBusy(x) /\ x.config = w.config /\ x.up = w.up /\ x.seen.dev = x.config.dev
<1>1. w.seen = [dev |-> w.config.dev, run |-> w.config.dev \in w.up]
  BY DEF Protected!Key, Protected!Available
<1>2. x = [w EXCEPT !.due = FALSE]
  BY DEF ProtectedInv, ProtectedSound, ProtectedCard, ProtectedFields
<1>3. /\ ProtectedFields(x) /\ x.wire = w.wire /\ x.rt = w.rt /\ x.config = w.config /\ x.up = w.up /\ ~x.due
      /\ x.last = w.last /\ x.seen = w.seen /\ x.told = w.told /\ x.trips = w.trips /\ x.dev = w.dev
  BY <1>2 DEF ProtectedInv, ProtectedSound, ProtectedCard, ProtectedFields
<1>4. ProtectedCard(x)
  BY <1>3 DEF ProtectedInv, ProtectedSound, ProtectedCard
<1>5. ProtectedSession(x)
  BY <1>1, <1>3 DEF ProtectedInv, ProtectedSound, ProtectedSession
<1>6. ProtectedHeld(x)
  BY <1>3 DEF ProtectedInv, ProtectedSound, ProtectedHeld
<1>7. ProtectedReading(x)
  BY <1>3 DEF ProtectedInv, ProtectedSound, ProtectedReading, NoSetting, Begun, TripRead
<1>8. ProtectedTrips(x)
  BY <1>3 DEF ProtectedInv, ProtectedSound, ProtectedTrips
<1>9. ProtectedBusy(x)
  BY <1>3 DEF ProtectedInv, ProtectedBusy
<1>10. x.seen.dev = x.config.dev
  <2>1. w.seen.dev = w.config.dev BY <1>1
  <2> QED BY <1>3, <2>1
<1> QED BY <1>3, <1>4, <1>5, <1>6, <1>7, <1>8, <1>9, <1>10 DEF ProtectedSound

LEMMA ProtectedRenewed ==
  ASSUME ProtectedInv(w), NEW x, x = [w EXCEPT !.due = FALSE, !.seen = Protected!Key(w)],
         NEW y, y = [Protected!Released(Protected!Outdated(x)) EXCEPT !.rt = Protected!Initial, !.draft = Protected!Unknown,
                                                                     !.last = Protected!Unknown, !.told = {}]
  PROVE  /\ ProtectedSound(y) /\ ProtectedBusy(y) /\ y.config = w.config /\ y.up = w.up /\ y.seen.dev = y.config.dev
<1>1. PICK k : k = Protected!Key(w)
  OBVIOUS
<1>2. k = [dev |-> w.config.dev, run |-> w.config.dev \in w.up]
  BY <1>1 DEF Protected!Key, Protected!Available
<1>3. PICK b \in BOOLEAN : b = (w.config.dev \in w.up)
  BY ONLY Whether
<1>4. ProtectedCard(w) /\ w.config.dev \in Supplies
  BY DEF ProtectedInv, ProtectedSound, ProtectedCard, ProtectedFields
<1>5. k = [dev |-> w.config.dev, run |-> b]
  BY <1>2, <1>3
<1>6. k \in [dev : Supplies, run : BOOLEAN] /\ k.dev = w.config.dev
  BY <1>4, <1>5
<1>7. x = [w EXCEPT !.due = FALSE, !.seen = k]
  BY <1>1
<1>8. /\ ProtectedFields(x) /\ x.wire = w.wire /\ x.rt = w.rt /\ x.config = w.config /\ x.up = w.up /\ ~x.due
      /\ x.seen = k /\ x.trips = w.trips /\ x.dev = w.dev
  BY <1>4, <1>6, <1>7 DEF ProtectedCard, ProtectedFields
<1>9. ProtectedCard(x)
  BY <1>4, <1>8 DEF ProtectedCard
<1>10. PICK u, v : u = Protected!Outdated(x) /\ v = Protected!Released(u)
  OBVIOUS
<1>11. ProtectedCard(u) /\ ProtectedSameBut(x, u) /\ DOMAIN u.wire = DOMAIN x.wire
  BY <1>9, <1>10, ProtectedOutdated
<1>12. \A i \in DOMAIN u.wire : ~u.wire[i].cur
  BY <1>9, <1>10, <1>11, ProtectedOutdated
<1>13. ProtectedCard(v) /\ ProtectedSameBut(u, v) /\ DOMAIN v.wire = DOMAIN u.wire
  BY <1>10, <1>11, ProtectedReleased
<1>14. \A i \in DOMAIN v.wire : ~v.wire[i].cur /\ ~v.wire[i].held
  BY <1>10, <1>11, <1>12, <1>13, ProtectedReleased
<1>15. PICK g : g = Protected!Initial
  OBVIOUS
<1>16. PICK t \in Texts : t = "unknown"
  BY DEF Texts
<1>17. ProtectedShown(g) /\ ~g.loading
  <2>1. g = [value |-> t, enabled |-> t, tripped |-> "unknown", loading |-> FALSE, error |-> FALSE]
    BY <1>15, <1>16 DEF Protected!Initial, Protected!Unknown
  <2> QED BY <2>1 DEF ProtectedShown
<1>18. y = [v EXCEPT !.rt = g, !.draft = t, !.last = "unknown", !.told = {}]
  BY <1>10, <1>15, <1>16 DEF Protected!Unknown
<1>19. /\ ProtectedFields(y) /\ y.wire = v.wire /\ y.rt = g /\ y.config = v.config /\ y.up = v.up /\ y.due = v.due
       /\ y.last = "unknown" /\ y.seen = v.seen /\ y.told = {} /\ y.trips = v.trips /\ y.dev = v.dev
  BY <1>13, <1>18 DEF ProtectedCard, ProtectedFields
<1>20. /\ y.config = w.config /\ y.up = w.up /\ ~y.due /\ y.seen = k /\ y.trips = w.trips /\ y.dev = w.dev
  BY <1>8, <1>11, <1>13, <1>19 DEF ProtectedSameBut
<1>21. ProtectedCard(y)
  BY <1>13, <1>17, <1>19 DEF ProtectedCard
<1>22. ProtectedSession(y)
  BY <1>2, <1>14, <1>19, <1>20 DEF ProtectedSession
<1>23. ProtectedHeld(y)
  BY <1>14, <1>19 DEF ProtectedHeld, Reader
<1>24. ProtectedReading(y)
  BY <1>14, <1>19 DEF ProtectedReading, Full
<1>25. ProtectedTrips(y)
  <2>1. \A d \in Supplies : w.dev[d].tripped \in 0..w.trips /\ (d \notin Switchable => w.dev[d].enabled = "unknown")
    BY DEF ProtectedInv, ProtectedSound, ProtectedTrips
  <2> QED BY <1>19, <1>20, <2>1 DEF ProtectedTrips
<1>26. ProtectedBusy(y)
  BY <1>14, <1>17, <1>19 DEF ProtectedBusy, Task
<1>27. y.seen.dev = y.config.dev
  BY <1>6, <1>20
<1> QED BY <1>20, <1>21, <1>22, <1>23, <1>24, <1>25, <1>26, <1>27 DEF ProtectedSound

LEMMA ProtectedRunEffects ==
  ASSUME ProtectedInv(w), Protected!RunEffects
  PROVE  ProtectedInv(w')
<1>1. PICK x, z : /\ x = [w EXCEPT !.due = FALSE, !.seen = Protected!Key(w)]
                  /\ z = [Protected!Released(Protected!Outdated(x)) EXCEPT !.rt = Protected!Initial, !.draft = Protected!Unknown,
                                                                            !.last = Protected!Unknown, !.told = {}]
  OBVIOUS
<1>2. PICK y : y = IF Protected!Key(w) # w.seen THEN z ELSE x
  OBVIOUS
<1>3. w.due /\ w' = IF Protected!Available(w) THEN Protected!Refresh(y, w.config.dev) ELSE y
  BY <1>1, <1>2 DEF Protected!RunEffects
<1>4. ProtectedSound(y) /\ ProtectedBusy(y) /\ y.config = w.config /\ y.up = w.up /\ y.seen.dev = y.config.dev
  <2>1. CASE Protected!Key(w) # w.seen
    <3>1. y = z BY <1>2, <2>1
    <3> QED BY <1>1, <3>1, ProtectedRenewed
  <2>2. CASE Protected!Key(w) = w.seen
    <3>1. y = x BY <1>2, <2>2
    <3> QED BY <1>1, <1>3, <2>2, <3>1, ProtectedKept
  <2> QED BY <2>1, <2>2
<1>5. CASE Protected!Available(w)
  BY <1>3, <1>4, <1>5, ProtectedRefreshes
<1>6. CASE ~Protected!Available(w)
  BY <1>3, <1>4, <1>6 DEF ProtectedInv, ProtectedRest, ProtectedResting, Protected!Available
<1> QED BY <1>5, <1>6

\* A card that was left as it is, but for what waits for its effects.
LEMMA ProtectedDue ==
  ASSUME NEW x, ProtectedInv(x), NEW y, ProtectedFields(y), y.wire = x.wire, y.rt = x.rt, y.last = x.last, y.seen = x.seen,
         y.told = x.told, y.trips = x.trips, y.dev = x.dev,
         y.due \/ (y.due = x.due /\ y.config = x.config /\ (y.config.dev \in y.up <=> x.config.dev \in x.up))
  PROVE  ProtectedInv(y)
<1>1. ProtectedCard(y)
  BY DEF ProtectedInv, ProtectedSound, ProtectedCard
<1>2. ProtectedSession(y)
  <2>1. /\ \A i \in DOMAIN x.wire : x.wire[i].cur => x.wire[i].dev = x.seen.dev
        /\ ~x.due => x.seen = [dev |-> x.config.dev, run |-> x.config.dev \in x.up]
    BY DEF ProtectedInv, ProtectedSound, ProtectedSession
  <2>2. PICK b \in BOOLEAN : b = (x.config.dev \in x.up)
    BY ONLY Whether
  <2>3. ASSUME ~y.due PROVE y.seen = [dev |-> y.config.dev, run |-> y.config.dev \in y.up]
    <3>1. x.seen = [dev |-> x.config.dev, run |-> b] BY <2>1, <2>2, <2>3
    <3>2. b = (y.config.dev \in y.up) BY <2>2, <2>3
    <3> QED BY <2>3, <3>1, <3>2
  <2> QED BY <2>1, <2>3 DEF ProtectedSession
<1>3. ProtectedHeld(y)
  BY DEF ProtectedInv, ProtectedSound, ProtectedHeld
<1>4. ProtectedReading(y)
  BY DEF ProtectedInv, ProtectedSound, ProtectedReading, NoSetting, Begun, TripRead
<1>5. ProtectedTrips(y)
  BY DEF ProtectedInv, ProtectedSound, ProtectedTrips
<1>6. ProtectedBusy(y)
  BY DEF ProtectedInv, ProtectedBusy
<1>7. ProtectedRest(y)
  BY DEF ProtectedInv, ProtectedRest, ProtectedResting, NoSetting
<1> QED BY <1>1, <1>2, <1>3, <1>4, <1>5, <1>6, <1>7 DEF ProtectedInv, ProtectedSound

LEMMA ProtectedRenders ==
  ASSUME ProtectedInv(w), ~w.due, Protected!SaveSettings \/ Protected!ConfigReloaded \/ Protected!DeviceSwitches
  PROVE  ProtectedInv(w')
<1>1. ProtectedFields(w)
  BY DEF ProtectedInv, ProtectedSound, ProtectedCard
<1>2. CASE Protected!SaveSettings
  <2>1. PICK d \in Supplies : w' = Protected!Saved(w, [w.config EXCEPT !.dev = d])
    BY <1>2 DEF Protected!SaveSettings
  <2>2. PICK c : c = [w.config EXCEPT !.dev = d]
    OBVIOUS
  <2>3. c \in [dev : Supplies]
    BY <1>1, <2>2 DEF ProtectedFields
  <2>4. w' = [w EXCEPT !.config = c, !.due = TRUE]
    BY <2>1, <2>2 DEF Protected!Saved
  <2>5. /\ ProtectedFields(w') /\ w'.wire = w.wire /\ w'.rt = w.rt /\ w'.last = w.last /\ w'.seen = w.seen
        /\ w'.told = w.told /\ w'.trips = w.trips /\ w'.dev = w.dev /\ w'.due
    BY <1>1, <2>3, <2>4 DEF ProtectedFields
  <2> QED BY <2>5, ProtectedDue
<1>3. CASE Protected!ConfigReloaded
  <2>1. w' = [w EXCEPT !.due = TRUE]
    BY <1>3 DEF Protected!ConfigReloaded, Protected!Reloaded
  <2>2. /\ ProtectedFields(w') /\ w'.wire = w.wire /\ w'.rt = w.rt /\ w'.last = w.last /\ w'.seen = w.seen
        /\ w'.told = w.told /\ w'.trips = w.trips /\ w'.dev = w.dev /\ w'.due
    BY <1>1, <2>1 DEF ProtectedFields
  <2> QED BY <2>2, ProtectedDue
<1>4. CASE Protected!DeviceSwitches
  <2>1. PICK d : w' = Protected!Switched(w, d)
    BY <1>4 DEF Protected!DeviceSwitches
  <2>2. PICK x : x = [w EXCEPT !.up = IF d \in @ THEN @ \ {d} ELSE @ \union {d}]
    OBVIOUS
  <2>3. /\ ProtectedFields(x) /\ x.wire = w.wire /\ x.rt = w.rt /\ x.last = w.last /\ x.seen = w.seen
        /\ x.told = w.told /\ x.trips = w.trips /\ x.dev = w.dev /\ x.due = w.due /\ x.config = w.config
    BY <1>1, <2>2 DEF ProtectedFields
  <2>4. PICK b \in BOOLEAN : b = (x.due \/ Protected!Available(x) # Protected!Available(w))
    OBVIOUS
  <2>5. w' = [x EXCEPT !.due = b]
    BY <2>1, <2>2, <2>4 DEF Protected!Switched
  <2>6. /\ ProtectedFields(w') /\ w'.wire = w.wire /\ w'.rt = w.rt /\ w'.last = w.last /\ w'.seen = w.seen
        /\ w'.told = w.told /\ w'.trips = w.trips /\ w'.dev = w.dev /\ w'.due = b /\ w'.config = w.config
        /\ w'.up = x.up
    BY <2>3, <2>5 DEF ProtectedFields
  <2>7. CASE b BY <2>6, <2>7, ProtectedDue
  <2>8. CASE ~b
    <3>1. w'.config.dev \in w'.up <=> w.config.dev \in w.up
      BY <2>3, <2>4, <2>6, <2>8 DEF Protected!Available
    <3>2. w.due \in BOOLEAN BY <1>1 DEF ProtectedFields
    <3>3. w'.due = w.due BY <2>6, <2>8, <3>2
    <3> QED BY <2>6, <3>1, <3>3, ProtectedDue
  <2> QED BY <2>7, <2>8
<1> QED BY <1>2, <1>3, <1>4

\* A device that trips, or is cleared.
LEMMA ProtectedTripped ==
  ASSUME ProtectedInv(w), NEW a \in Supplies, NEW m \in Nat, m >= w.trips, NEW n \in 0..m, n \notin w.told,
         NEW y, y = [w EXCEPT !.dev[a] = [@ EXCEPT !.tripped = n], !.trips = m]
  PROVE  ProtectedInv(y)
<1>1. PICK e, h, g : e = w.dev[a] /\ h = [e EXCEPT !.tripped = n] /\ g = [w.dev EXCEPT ![a] = h]
  OBVIOUS
<1>2. ProtectedFields(w) /\ w.dev \in [Supplies -> ProtectedDevice] /\ w.trips \in Nat
  BY DEF ProtectedInv, ProtectedSound, ProtectedCard, ProtectedFields
<1>3. e \in ProtectedDevice
  BY <1>1, <1>2
<1>4. h \in ProtectedDevice /\ h.value = e.value /\ h.enabled = e.enabled /\ h.tripped = n
  BY <1>1, <1>3 DEF ProtectedDevice
<1>5. g \in [Supplies -> ProtectedDevice] /\ g[a] = h /\ \A d \in Supplies : d # a => g[d] = w.dev[d]
  BY <1>1, <1>2, <1>4
<1>6. y = [w EXCEPT !.dev = g, !.trips = m]
  BY <1>1, <1>2 DEF ProtectedFields
<1>7. /\ ProtectedFields(y) /\ y.wire = w.wire /\ y.rt = w.rt /\ y.config = w.config /\ y.up = w.up /\ y.due = w.due
      /\ y.last = w.last /\ y.seen = w.seen /\ y.told = w.told /\ y.trips = m /\ y.dev = g
  BY <1>2, <1>5, <1>6 DEF ProtectedFields
<1>8. /\ \A d \in Supplies : y.dev[d].value = w.dev[d].value /\ y.dev[d].enabled = w.dev[d].enabled
      /\ \A d \in Supplies : y.dev[d].tripped = IF d = a THEN n ELSE w.dev[d].tripped
  BY <1>1, <1>4, <1>5, <1>7
<1>9. ProtectedCard(y)
  BY <1>7 DEF ProtectedInv, ProtectedSound, ProtectedCard
<1>10. ProtectedSession(y)
  BY <1>7 DEF ProtectedInv, ProtectedSound, ProtectedSession
<1>11. ProtectedHeld(y)
  BY <1>7 DEF ProtectedInv, ProtectedSound, ProtectedHeld
<1>12. w.seen.dev \in Supplies /\ w.config.dev \in Supplies
  BY <1>2 DEF ProtectedFields
<1>13. ASSUME NEW t, TripRead(w, t) PROVE TripRead(y, t)
  <2>1. t.n \in 0..m BY <1>2, <1>13 DEF TripRead
  <2>2. t.is = "no" => y.dev[y.seen.dev].tripped \notin y.told BY <1>7, <1>8, <1>12, <1>13 DEF TripRead
  <2> QED BY <1>7, <1>13, <2>1, <2>2 DEF TripRead
<1>14. ProtectedReading(y)
  <2> SUFFICES ASSUME NEW i \in DOMAIN w.wire, Full(w.wire[i])
               PROVE  /\ \A j \in DOMAIN w.wire : Setting(w.wire[j]) => j < i
                      /\ \/ w.wire[i].read = Protected!Whole(w.wire[i].dev)
                         \/ Begun(y, w.wire[i]) /\ NoSetting(y) /\ w.wire[i].got.value = y.dev[w.wire[i].dev].value
                      /\ w.wire[i].got.enabled = "unknown"
    BY <1>7 DEF ProtectedReading
  <2>1. /\ \A j \in DOMAIN w.wire : Setting(w.wire[j]) => j < i
        /\ \/ w.wire[i].read = Protected!Whole(w.wire[i].dev)
           \/ Begun(w, w.wire[i]) /\ NoSetting(w) /\ w.wire[i].got.value = w.dev[w.wire[i].dev].value
        /\ w.wire[i].got.enabled = "unknown"
    BY DEF ProtectedInv, ProtectedSound, ProtectedReading
  <2>2. w.wire[i].dev \in Supplies
    BY DEF ProtectedInv, ProtectedSound, ProtectedCard, ProtectedRequest
  <2>3. Begun(w, w.wire[i]) => Begun(y, w.wire[i]) BY <1>13 DEF Begun
  <2>4. NoSetting(w) => NoSetting(y) BY <1>7 DEF NoSetting
  <2> QED BY <1>8, <2>1, <2>2, <2>3, <2>4
<1>15. ProtectedTrips(y)
  <2>1. /\ w.told \subseteq 1..w.trips
        /\ \A d \in Supplies : w.dev[d].tripped \in 0..w.trips /\ (d \notin Switchable => w.dev[d].enabled = "unknown")
        /\ w.last = "unknown" => w.told = {}
        /\ w.last # "yes" => w.dev[w.seen.dev].tripped \notin w.told
    BY DEF ProtectedInv, ProtectedSound, ProtectedTrips
  <2>2. y.told \subseteq 1..y.trips BY <1>2, <1>7, <2>1
  <2>3. \A d \in Supplies : y.dev[d].tripped \in 0..y.trips BY <1>2, <1>7, <1>8, <2>1
  <2>4. \A d \in Supplies : d \notin Switchable => y.dev[d].enabled = "unknown" BY <1>8, <2>1
  <2>5. y.last # "yes" => y.dev[y.seen.dev].tripped \notin y.told BY <1>7, <1>8, <1>12, <2>1
  <2> QED BY <1>7, <2>1, <2>2, <2>3, <2>4, <2>5 DEF ProtectedTrips
<1>16. ProtectedBusy(y)
  BY <1>7 DEF ProtectedInv, ProtectedBusy
<1>17. ProtectedRest(y)
  BY <1>7, <1>8, <1>12 DEF ProtectedInv, ProtectedRest, ProtectedResting, NoSetting
<1> QED BY <1>9, <1>10, <1>11, <1>14, <1>15, <1>16, <1>17 DEF ProtectedInv, ProtectedSound

LEMMA ProtectedDeviceSteps ==
  ASSUME ProtectedInv(w), Protected!DeviceTrips \/ Protected!DeviceCleared
  PROVE  ProtectedInv(w')
<1>1. w.told \subseteq 1..w.trips /\ w.trips \in Nat /\ ProtectedFields(w)
  BY DEF ProtectedInv, ProtectedSound, ProtectedTrips, ProtectedCard, ProtectedFields
<1>2. CASE Protected!DeviceTrips
  <2>1. PICK d \in Supplies : w' = [w EXCEPT !.dev[d] = [@ EXCEPT !.tripped = w.trips + 1], !.trips = @ + 1]
    BY <1>2 DEF Protected!DeviceTrips
  <2>2. PICK n \in Nat : n = w.trips + 1 BY <1>1
  <2>3. n >= w.trips /\ n \in 0..n /\ n \notin w.told BY <1>1, <2>2
  <2>4. w' = [w EXCEPT !.dev[d] = [@ EXCEPT !.tripped = n], !.trips = n] BY <2>1, <2>2
  <2> QED BY <2>3, <2>4, ProtectedTripped
<1>3. CASE Protected!DeviceCleared
  <2>1. PICK d \in Supplies : w' = [w EXCEPT !.dev[d] = [@ EXCEPT !.tripped = 0]]
    BY <1>3 DEF Protected!DeviceCleared
  <2>2. PICK m : m = w.trips OBVIOUS
  <2>3. m \in Nat /\ m >= w.trips /\ 0 \in 0..m /\ 0 \notin w.told BY <1>1, <2>2
  <2>4. w' = [w EXCEPT !.dev[d] = [@ EXCEPT !.tripped = 0], !.trips = m]
    BY <1>1, <2>1, <2>2 DEF ProtectedFields
  <2> QED BY <2>3, <2>4, ProtectedTripped
<1> QED BY <1>2, <1>3

LEMMA ProtectedBegins ==
  ASSUME Protected!Init
  PROVE  ProtectedInv(w)
<1>1. PICK d \in Supplies, v \in Values :
        w = [config |-> [dev |-> d], up |-> {}, due |-> TRUE, wire |-> <<>>, rt |-> Protected!Initial,
             draft |-> Protected!Unknown, last |-> Protected!Unknown, seen |-> [dev |-> d, run |-> FALSE], told |-> {},
             again |-> FALSE, trips |-> 0,
             dev |-> [e \in Supplies |-> [value |-> v, tripped |-> 0,
                                          enabled |-> IF e \in Switchable THEN "on" ELSE Protected!Unknown]]]
  BY DEF Protected!Init
<1>2. PICK g : g = Protected!Initial
  OBVIOUS
<1>3. PICK t \in Texts : t = "unknown"
  BY DEF Texts
<1>4. ProtectedShown(g) /\ ~g.loading
  <2>1. g = [value |-> t, enabled |-> t, tripped |-> "unknown", loading |-> FALSE, error |-> FALSE]
    BY <1>2, <1>3 DEF Protected!Initial, Protected!Unknown
  <2> QED BY <2>1 DEF ProtectedShown
<1>5. PICK h : h = [e \in Supplies |-> [value |-> v, tripped |-> 0, enabled |-> IF e \in Switchable THEN "on" ELSE t]]
  OBVIOUS
<1>6. /\ h \in [Supplies -> ProtectedDevice]
      /\ \A e \in Supplies : h[e].tripped = 0 /\ (e \notin Switchable => h[e].enabled = "unknown")
  <2>1. v \in Texts /\ "on" \in Texts BY DEF Texts
  <2> QED BY <1>3, <1>5, <2>1 DEF ProtectedDevice
<1>7. w = [config |-> [dev |-> d], up |-> {}, due |-> TRUE, wire |-> <<>>, rt |-> g, draft |-> t, last |-> "unknown",
           seen |-> [dev |-> d, run |-> FALSE], told |-> {}, again |-> FALSE, trips |-> 0, dev |-> h]
  BY <1>1, <1>2, <1>3, <1>5 DEF Protected!Unknown
<1>8. /\ ProtectedFields(w) /\ w.wire = <<>> /\ w.rt = g /\ w.due /\ w.told = {} /\ w.trips = 0 /\ w.dev = h
      /\ w.last = "unknown"
  BY <1>6, <1>7 DEF ProtectedFields
<1>9. Wire(<<>>) /\ DOMAIN <<>> = {}
  BY DEF Wire
<1>10. ProtectedCard(w)
  BY <1>4, <1>8, <1>9 DEF ProtectedCard
<1>11. ProtectedSession(w) /\ ProtectedHeld(w) /\ ProtectedReading(w) /\ ProtectedBusy(w)
  BY <1>4, <1>8, <1>9 DEF ProtectedSession, ProtectedHeld, ProtectedReading, ProtectedBusy
<1>12. ProtectedTrips(w)
  BY <1>6, <1>8 DEF ProtectedTrips
<1>13. ProtectedRest(w)
  BY <1>8 DEF ProtectedRest, ProtectedResting
<1> QED BY <1>10, <1>11, <1>12, <1>13 DEF ProtectedInv, ProtectedSound

LEMMA ProtectedSteps ==
  ASSUME ProtectedInv(w), Protected!Next
  PROVE  ProtectedInv(w')
<1>1. CASE Protected!Answer \/ Protected!EditDraft
  BY <1>1, ProtectedAnswer, ProtectedEdits
<1>2. CASE Protected!DeviceTrips \/ Protected!DeviceCleared
  BY <1>2, ProtectedDeviceSteps
<1>3. CASE ~w.due /\ (Protected!SaveSettings \/ Protected!ConfigReloaded \/ Protected!DeviceSwitches)
  BY <1>3, ProtectedRenders
<1>4. CASE Protected!ClickApply \/ Protected!ClickEnable
  BY <1>4, ProtectedClicks
<1>5. CASE Protected!PollTick \/ Protected!RunEffects
  BY <1>5, ProtectedTicks, ProtectedRunEffects
<1>6. CASE \E i \in DOMAIN w.wire : Protected!Fails(i)
  <2>1. PICK i \in DOMAIN w.wire : Protected!Fails(i) BY <1>6
  <2> QED BY <2>1, ProtectedFails
<1> QED BY <1>1, <1>2, <1>3, <1>4, <1>5, <1>6 DEF Protected!Next

-----------------------------------------------------------------------------
(* The timer queue.                                                        *)

TimerRuntime(r) ==
  /\ r \in [id : {r.id}, state : {r.state}, loaded : {r.loaded}, desynced : {r.desynced}, loading : BOOLEAN,
            error : BOOLEAN, by : {"page", "status", "action"}, of : {r.of}]
TimerRequest(f) ==
  /\ f \in [kind : {"action", "status"}, config : {f.config}, rt : {f.rt}, rest : {f.rest}, cur : BOOLEAN]
  /\ f.kind = "action" => TimerRuntime(f.rt) /\ ~f.rt.loading
TimerCard(x) ==
  /\ x \in [config : {x.config}, up : {x.up}, due : BOOLEAN, wire : {x.wire}, rt : {x.rt}, draft : {x.draft}]
  /\ TimerRuntime(x.rt) /\ Wire(x.wire) /\ \A i \in DOMAIN x.wire : TimerRequest(x.wire[i])

\* An action, or a status asked for what the card is configured for, is the
\* reason it is loading.
TimerAwaited(x, f) == f.kind = "action" \/ (f.cur /\ f.config = x.config)
TimerBusy(x) == x.rt.loading => x.due \/ \E i \in DOMAIN x.wire : TimerAwaited(x, x.wire[i])
TimerRest(x) == x.rt.by = "status" /\ ~x.due /\ ~x.rt.loading /\ ~x.rt.error => x.rt.of = x.config
TimerInv(x) == TimerCard(x) /\ TimerBusy(x) /\ TimerRest(x)

LEMMA TimerTook ==
  ASSUME NEW x, TimerCard(x), NEW i \in DOMAIN x.wire, NEW y, y = Timer!Took(x, i)
  PROVE  /\ TimerCard(y) /\ y.config = x.config /\ y.up = x.up /\ y.due = x.due /\ y.rt = x.rt
         /\ \A j \in DOMAIN x.wire : j # i => \E k \in DOMAIN y.wire : y.wire[k] = x.wire[j]
<1>1. PICK q : q = RemoveAt(x.wire, i)
  OBVIOUS
<1>2. /\ Wire(q)
      /\ \A k \in DOMAIN q : \E j \in DOMAIN x.wire : j # i /\ q[k] = x.wire[j]
      /\ \A j \in DOMAIN x.wire : j # i => \E k \in DOMAIN q : q[k] = x.wire[j]
  <2>1. Taken(x.wire, i, q) BY <1>1, WireTaken DEF TimerCard
  <2> QED BY <2>1 DEF Taken
<1>3. y = [x EXCEPT !.wire = q]
  BY <1>1 DEF Timer!Took, RemoveAt
<1>4. /\ y.wire = q /\ y.config = x.config /\ y.up = x.up /\ y.due = x.due /\ y.rt = x.rt
      /\ y \in [config : {y.config}, up : {y.up}, due : BOOLEAN, wire : {y.wire}, rt : {y.rt}, draft : {y.draft}]
  BY <1>3 DEF TimerCard
<1>5. \A k \in DOMAIN q : TimerRequest(q[k])
  BY <1>2 DEF TimerCard
<1> QED BY <1>2, <1>4, <1>5 DEF TimerCard

LEMMA TimerAsk ==
  ASSUME NEW x, TimerCard(x), NEW r, TimerRequest(r), NEW y, y = Timer!Ask(x, r)
  PROVE  /\ TimerCard(y) /\ y.config = x.config /\ y.up = x.up /\ y.due = x.due /\ y.rt = x.rt
         /\ \E k \in DOMAIN y.wire : y.wire[k] = r
         /\ \A j \in DOMAIN x.wire : \E k \in DOMAIN y.wire : y.wire[k] = x.wire[j]
<1>1. PICK q : q = Append(x.wire, r)
  OBVIOUS
<1>2. /\ Wire(q) /\ DOMAIN q = 1..(Len(x.wire) + 1) /\ Len(x.wire) \in Nat /\ DOMAIN x.wire = 1..Len(x.wire)
      /\ q[Len(x.wire) + 1] = r /\ \A k \in DOMAIN x.wire : k \in DOMAIN q /\ q[k] = x.wire[k]
  <2>1. Asked(x.wire, r, q) BY <1>1, WireAsked DEF TimerCard
  <2> QED BY <2>1 DEF Asked
<1>3. y = [x EXCEPT !.wire = q]
  BY <1>1 DEF Timer!Ask
<1>4. /\ y.wire = q /\ y.config = x.config /\ y.up = x.up /\ y.due = x.due /\ y.rt = x.rt
      /\ y \in [config : {y.config}, up : {y.up}, due : BOOLEAN, wire : {y.wire}, rt : {y.rt}, draft : {y.draft}]
  BY <1>3 DEF TimerCard
<1>5. \A k \in DOMAIN q : TimerRequest(q[k])
  <2> SUFFICES ASSUME NEW k \in DOMAIN q PROVE TimerRequest(q[k])
    OBVIOUS
  <2>1. k = Len(x.wire) + 1 \/ k \in DOMAIN x.wire BY <1>2
  <2> QED BY <1>2, <2>1 DEF TimerCard
<1>6. Len(x.wire) + 1 \in DOMAIN q
  BY <1>2
<1> QED BY <1>2, <1>4, <1>5, <1>6 DEF TimerCard

LEMMA TimerOutdated ==
  ASSUME NEW x, TimerCard(x), NEW y, y = Timer!Outdated(x)
  PROVE  TimerCard(y) /\ y.config = x.config /\ y.up = x.up /\ y.due = x.due /\ y.rt = x.rt
<1>1. PICK g : g = [i \in DOMAIN x.wire |-> [x.wire[i] EXCEPT !.cur = FALSE]]
  OBVIOUS
<1>2. Wire(g) /\ DOMAIN g = DOMAIN x.wire
  <2>1. g = [i \in DOMAIN x.wire |-> g[i]] BY <1>1
  <2> QED BY <2>1, WireMapped DEF TimerCard
<1>3. ASSUME NEW i \in DOMAIN x.wire PROVE TimerRequest(g[i])
  <2>1. PICK r : r = x.wire[i]
    OBVIOUS
  <2>2. TimerRequest(r) /\ g[i] = [r EXCEPT !.cur = FALSE]
    BY <1>1, <2>1 DEF TimerCard
  <2> QED BY <2>2 DEF TimerRequest
<1>4. y = [x EXCEPT !.wire = g]
  BY <1>1 DEF Timer!Outdated, TimerCard
<1>5. /\ y.wire = g /\ y.config = x.config /\ y.up = x.up /\ y.due = x.due /\ y.rt = x.rt
      /\ y \in [config : {y.config}, up : {y.up}, due : BOOLEAN, wire : {y.wire}, rt : {y.rt}, draft : {y.draft}]
  BY <1>4 DEF TimerCard
<1> QED BY <1>2, <1>3, <1>5 DEF TimerCard

\* The runtime is replaced.
LEMMA TimerPut ==
  ASSUME NEW x, TimerCard(x), NEW r, TimerRuntime(r), NEW y, y = [x EXCEPT !.rt = r]
  PROVE  TimerCard(y) /\ y.config = x.config /\ y.up = x.up /\ y.due = x.due /\ y.wire = x.wire /\ y.rt = r
<1>1. /\ y.wire = x.wire /\ y.config = x.config /\ y.up = x.up /\ y.due = x.due /\ y.rt = r
      /\ y \in [config : {y.config}, up : {y.up}, due : BOOLEAN, wire : {y.wire}, rt : {y.rt}, draft : {y.draft}]
  BY DEF TimerCard
<1> QED BY <1>1 DEF TimerCard

LEMMA TimerMarks ==
  ASSUME NEW x, TimerCard(x), NEW loading, NEW error, NEW r, r = [x.rt EXCEPT !.loading = loading, !.error = error]
  PROVE  [x EXCEPT !.rt.loading = loading, !.rt.error = error] = [x EXCEPT !.rt = r]
BY DEF TimerCard

LEMMA TimerLoads ==
  ASSUME NEW x, TimerCard(x), NEW y, y = Timer!Loading(x)
  PROVE  TimerCard(y) /\ y.config = x.config /\ y.rt.loading
<1>1. PICK r, s : r = x.rt /\ s = [r EXCEPT !.loading = TRUE, !.error = FALSE]
  OBVIOUS
<1>2. y = [x EXCEPT !.rt = s]
  <2>1. y = [x EXCEPT !.rt.loading = TRUE, !.rt.error = FALSE] BY DEF Timer!Loading
  <2> QED BY <1>1, <2>1, TimerMarks
<1>3. TimerRuntime(s) /\ s.loading
  <2>1. TimerRuntime(r) BY <1>1 DEF TimerCard
  <2> QED BY <1>1, <2>1 DEF TimerRuntime
<1>4. TimerCard(y) /\ y.config = x.config /\ y.rt = s
  BY <1>2, <1>3, TimerPut
<1> QED BY <1>3, <1>4

\* A status is asked for.
LEMMA TimerRefreshes ==
  ASSUME NEW x, TimerCard(x), NEW y, y = Timer!Refresh(x)
  PROVE  TimerInv(y)
<1>1. PICK u, v : u = Timer!Outdated(x) /\ v = Timer!Loading(u)
  OBVIOUS
<1>2. TimerCard(u) /\ u.config = x.config
  BY <1>1, TimerOutdated
<1>4. TimerCard(v) /\ v.config = x.config /\ v.rt.loading
  BY <1>1, <1>2, TimerLoads
<1>5. PICK r : r = Timer!Request("status", x, Timer!Idle, <<>>)
  OBVIOUS
<1>6. TimerRequest(r) /\ r.cur /\ r.config = x.config
  BY <1>5 DEF Timer!Request, TimerRequest
<1>7. y = Timer!Ask(v, r)
  BY <1>1, <1>5 DEF Timer!Refresh
<1>8. TimerCard(y) /\ y.config = x.config /\ y.rt.loading /\ \E k \in DOMAIN y.wire : y.wire[k] = r
  BY <1>4, <1>6, <1>7, TimerAsk
<1> QED BY <1>6, <1>8 DEF TimerInv, TimerBusy, TimerAwaited, TimerRest

LEMMA TimerClick ==
  ASSUME TimerInv(w), Timer!Click
  PROVE  TimerInv(w')
<1>1. PICK v, r : v = Timer!Loading(w) /\ r = Timer!Request("action", w, w.rt, Tail(Timer!Commands(w.config, w.rt)))
  OBVIOUS
<1>2. TimerCard(w) /\ ~w.rt.loading /\ w' = Timer!Ask(v, r)
  BY <1>1 DEF Timer!Click, TimerInv
<1>4. TimerCard(v) /\ v.rt.loading
  BY <1>1, <1>2, TimerLoads
<1>5. TimerRequest(r) /\ r.kind = "action"
  BY <1>1, <1>2 DEF Timer!Request, TimerRequest, TimerCard
<1>6. PICK y : y = Timer!Ask(v, r)
  OBVIOUS
<1>7. TimerCard(y) /\ y.rt.loading /\ \E k \in DOMAIN y.wire : y.wire[k] = r
  BY <1>4, <1>5, <1>6, TimerAsk
<1> QED BY <1>2, <1>5, <1>6, <1>7 DEF TimerInv, TimerBusy, TimerAwaited, TimerRest

\* What answers nothing the card waits for leaves it as it is.
LEMMA TimerIgnores ==
  ASSUME NEW x, TimerInv(x), NEW i \in DOMAIN x.wire, ~TimerAwaited(x, x.wire[i]), NEW y, y = Timer!Took(x, i)
  PROVE  TimerInv(y)
<1>1. TimerCard(y) /\ y.config = x.config /\ y.due = x.due /\ y.rt = x.rt
  BY TimerTook DEF TimerInv
<1>2. \A j \in DOMAIN x.wire : j # i => \E k \in DOMAIN y.wire : y.wire[k] = x.wire[j]
  BY TimerTook DEF TimerInv
<1>3. TimerBusy(y)
  BY <1>1, <1>2 DEF TimerInv, TimerBusy, TimerAwaited
<1> QED BY <1>1, <1>3 DEF TimerInv, TimerRest

LEMMA TimerAnswer ==
  ASSUME TimerInv(w), Timer!Answer
  PROVE  TimerInv(w')
<1>1. PICK f, x : f = w.wire[1] /\ x = Timer!Took(w, 1)
  OBVIOUS
<1>2. TimerCard(w) /\ 1 \in DOMAIN w.wire /\ Head(w.wire) = f /\ TimerRequest(f)
  <2>1. Wire(w.wire) /\ w.wire # <<>> BY DEF TimerInv, TimerCard, Timer!Answer
  <2>2. 1 \in DOMAIN w.wire /\ Head(w.wire) = w.wire[1] BY <2>1 DEF Wire
  <2> QED BY <1>1, <2>2 DEF TimerInv, TimerCard
<1>3. TimerCard(x) /\ x.config = w.config /\ x.due = w.due /\ x.rt = w.rt
  BY <1>1, <1>2, TimerTook
<1>4. \A j \in DOMAIN w.wire : j # 1 => \E k \in DOMAIN x.wire : x.wire[k] = w.wire[j]
  BY <1>1, <1>2, TimerTook
<1>5. \/ f.kind = "status" /\ Timer!StatusAnswer(x, f)
      \/ f.kind = "action" /\ f.rest # <<>> /\ w' = Timer!Ask(x, [f EXCEPT !.rest = Tail(@)])
      \/ f.kind = "action" /\ f.rest = <<>> /\ w' = [x EXCEPT !.rt = Timer!Outcome(f.config, f.rt)]
  BY <1>1, <1>2 DEF Timer!Answer
<1>6. CASE f.kind = "status" /\ Timer!StatusAnswer(x, f)
  <2>1. PICK id, state :
          w' = IF Timer!Applies(x, f) THEN [x EXCEPT !.rt = Timer!StatusRuntime(id, state, f.config)] ELSE x
    BY <1>6 DEF Timer!StatusAnswer
  <2>2. CASE Timer!Applies(x, f)
    <3>1. PICK r : r = Timer!StatusRuntime(id, state, f.config)
      OBVIOUS
    <3>2. TimerRuntime(r) /\ ~r.loading /\ r.of = f.config
      BY <3>1 DEF Timer!StatusRuntime, Timer!Runtime, TimerRuntime
    <3>3. w' = [x EXCEPT !.rt = r]
      BY <2>1, <2>2, <3>1
    <3>4. TimerCard(w') /\ w'.config = x.config /\ w'.rt = r
      BY <1>3, <3>2, <3>3, TimerPut
    <3> QED BY <2>2, <3>2, <3>4 DEF TimerInv, TimerBusy, TimerRest, Timer!Applies
  <2>3. CASE ~Timer!Applies(x, f)
    <3>1. ~TimerAwaited(w, f)
      BY <1>3, <1>6, <2>3 DEF TimerAwaited, Timer!Applies
    <3> QED BY <1>1, <1>2, <2>1, <2>3, <3>1, TimerIgnores
  <2> QED BY <2>2, <2>3
<1>7. CASE f.kind = "action" /\ f.rest # <<>> /\ w' = Timer!Ask(x, [f EXCEPT !.rest = Tail(@)])
  <2>1. PICK r : r = [f EXCEPT !.rest = Tail(@)]
    OBVIOUS
  <2>2. TimerRequest(r) /\ r.kind = "action"
    BY <1>2, <1>7, <2>1 DEF TimerRequest
  <2>3. PICK y : y = Timer!Ask(x, r)
    OBVIOUS
  <2>4. TimerCard(y) /\ y.config = x.config /\ y.due = x.due /\ y.rt = x.rt /\ \E k \in DOMAIN y.wire : y.wire[k] = r
    BY <1>3, <2>2, <2>3, TimerAsk
  <2>5. TimerInv(y)
    BY <1>3, <2>2, <2>4 DEF TimerInv, TimerBusy, TimerRest, TimerAwaited
  <2> QED BY <1>7, <2>1, <2>3, <2>5
<1>8. CASE f.kind = "action" /\ f.rest = <<>> /\ w' = [x EXCEPT !.rt = Timer!Outcome(f.config, f.rt)]
  <2>1. PICK r, o : r = f.rt /\ o = Timer!Outcome(f.config, r)
    OBVIOUS
  <2>2. TimerRuntime(r) /\ ~r.loading
    BY <1>2, <1>8, <2>1 DEF TimerRequest
  <2>3. PICK n : /\ TimerRuntime(n) /\ ~n.loading
                 /\ o = [n EXCEPT !.error = FALSE, !.by = "action", !.of = f.config]
    <3>1. PICK n : /\ n = (IF r.state = "RUNNING" THEN [r EXCEPT !.state = "PAUSED"]
                           ELSE IF r.state \in Timer!Resumable /\ r.loaded THEN [r EXCEPT !.state = "RUNNING"]
                           ELSE Timer!Runtime(Head(f.config.timers), "RUNNING", TRUE))
                   /\ o = [n EXCEPT !.error = FALSE, !.by = "action", !.of = f.config]
      BY <2>1 DEF Timer!Outcome
    <3>2. TimerRuntime(n) /\ ~n.loading
      BY <2>2, <3>1 DEF TimerRuntime, Timer!Runtime
    <3> QED BY <3>1, <3>2
  <2>4. TimerRuntime(o) /\ ~o.loading /\ o.by = "action"
    BY <2>3 DEF TimerRuntime
  <2>5. w' = [x EXCEPT !.rt = o]
    BY <1>8, <2>1
  <2>6. TimerCard(w') /\ w'.rt = o
    BY <1>3, <2>4, <2>5, TimerPut
  <2> QED BY <2>4, <2>6 DEF TimerInv, TimerBusy, TimerRest
<1> QED BY <1>5, <1>6, <1>7, <1>8

LEMMA TimerFails ==
  ASSUME TimerInv(w), NEW i \in DOMAIN w.wire, Timer!Fails(i)
  PROVE  TimerInv(w')
<1>1. PICK x : x = Timer!Took(w, i)
  OBVIOUS
<1>2. TimerCard(x)
  BY <1>1, TimerTook DEF TimerInv
<1>3. CASE TimerAwaited(w, w.wire[i])
  <2>1. PICK r, s : r = x.rt /\ s = [r EXCEPT !.loading = FALSE, !.error = TRUE]
    OBVIOUS
  <2>2. w' = [x EXCEPT !.rt = s]
    <3>1. w' = [x EXCEPT !.rt.loading = FALSE, !.rt.error = TRUE]
      BY <1>1, <1>3 DEF Timer!Fails, TimerAwaited, Timer!Applies
    <3> QED BY <1>2, <2>1, <3>1, TimerMarks
  <2>3. TimerRuntime(s) /\ ~s.loading /\ s.error
    <3>1. TimerRuntime(r) BY <1>2, <2>1 DEF TimerCard
    <3> QED BY <2>1, <3>1 DEF TimerRuntime
  <2>4. TimerCard(w') /\ w'.rt = s
    BY <1>2, <2>2, <2>3, TimerPut
  <2> QED BY <2>3, <2>4 DEF TimerInv, TimerBusy, TimerRest
<1>4. CASE ~TimerAwaited(w, w.wire[i])
  <2>1. w' = x
    BY <1>1, <1>4 DEF Timer!Fails, TimerAwaited, Timer!Applies
  <2> QED BY <1>1, <1>4, <2>1, TimerIgnores
<1> QED BY <1>3, <1>4

LEMMA TimerExpires ==
  ASSUME TimerInv(w), Timer!Expires
  PROVE  TimerInv(w')
<1>1. PICK next : /\ TimerRuntime(next) /\ next.by = "page"
                  /\ w' = [w EXCEPT !.rt = [next EXCEPT !.loading = w.rt.loading]]
  <2>1. PICK i : i = CHOOSE k \in DOMAIN w.config.timers : w.config.timers[k] = w.rt.id
    OBVIOUS
  <2>2. PICK next : next = (IF i < Len(w.config.timers) THEN Timer!Runtime(w.config.timers[i + 1], "RUNNING", TRUE)
                           ELSE Timer!Idle)
    OBVIOUS
  <2>4. w' = [w EXCEPT !.rt = [next EXCEPT !.loading = w.rt.loading]]
    BY <2>1, <2>2 DEF Timer!Expires
  <2>3. TimerRuntime(next) /\ next.by = "page"
    BY <2>2 DEF Timer!Runtime, Timer!Idle, TimerRuntime
  <2> QED BY <2>3, <2>4
<1>2. PICK r : r = [next EXCEPT !.loading = w.rt.loading]
  OBVIOUS
<1>3. w.rt.loading \in BOOLEAN
  BY DEF TimerInv, TimerCard, TimerRuntime
<1>4. TimerRuntime(r) /\ r.by = "page" /\ r.loading = w.rt.loading
  BY <1>1, <1>2, <1>3 DEF TimerRuntime
<1>5. w' = [w EXCEPT !.rt = r]
  BY <1>1, <1>2
<1>6. TimerCard(w') /\ w'.config = w.config /\ w'.due = w.due /\ w'.wire = w.wire /\ w'.rt = r
  BY <1>4, <1>5, TimerPut DEF TimerInv
<1> QED BY <1>4, <1>6 DEF TimerInv, TimerBusy, TimerAwaited, TimerRest

LEMMA TimerRunEffects ==
  ASSUME TimerInv(w), Timer!RunEffects
  PROVE  TimerInv(w')
<1>1. PICK x : x = [w EXCEPT !.due = FALSE]
  OBVIOUS
<1>2. TimerCard(x)
  <2>1. /\ x \in [config : {x.config}, up : {x.up}, due : BOOLEAN, wire : {x.wire}, rt : {x.rt}, draft : {x.draft}]
        /\ x.wire = w.wire /\ x.rt = w.rt
    BY <1>1 DEF TimerInv, TimerCard
  <2> QED BY <2>1 DEF TimerInv, TimerCard
<1>3. w' = IF Timer!Available(x) THEN Timer!Refresh(x) ELSE [Timer!Outdated(x) EXCEPT !.rt = Timer!Idle]
  BY <1>1 DEF Timer!RunEffects
<1>4. CASE Timer!Available(x)
  BY <1>2, <1>3, <1>4, TimerRefreshes
<1>5. CASE ~Timer!Available(x)
  <2>1. PICK u, r : u = Timer!Outdated(x) /\ r = Timer!Idle
    OBVIOUS
  <2>2. TimerCard(u) BY <1>2, <2>1, TimerOutdated
  <2>3. TimerRuntime(r) /\ ~r.loading /\ r.by = "page"
    BY <2>1 DEF Timer!Idle, Timer!Runtime, TimerRuntime
  <2>4. w' = [u EXCEPT !.rt = r] BY <1>3, <1>5, <2>1
  <2>5. TimerCard(w') /\ w'.rt = r BY <2>2, <2>3, <2>4, TimerPut
  <2> QED BY <2>3, <2>5 DEF TimerInv, TimerBusy, TimerRest
<1> QED BY <1>4, <1>5

LEMMA TimerDue ==
  ASSUME NEW x, TimerInv(x), NEW y,
         y \in [config : {y.config}, up : {y.up}, due : BOOLEAN, wire : {y.wire}, rt : {y.rt}, draft : {y.draft}],
         y.wire = x.wire, y.rt = x.rt, y.due
  PROVE  TimerInv(y)
BY DEF TimerInv, TimerCard, TimerBusy, TimerAwaited, TimerRest

LEMMA TimerStays ==
  ASSUME NEW x, TimerInv(x), NEW y,
         y \in [config : {y.config}, up : {y.up}, due : BOOLEAN, wire : {y.wire}, rt : {y.rt}, draft : {y.draft}],
         y.wire = x.wire, y.rt = x.rt, y.due = x.due \/ ~x.due, y.config = x.config
  PROVE  TimerInv(y)
BY DEF TimerInv, TimerCard, TimerBusy, TimerAwaited, TimerRest

LEMMA TimerEdits ==
  ASSUME TimerInv(w), Timer!EditDraft
  PROVE  TimerInv(w')
<1>1. PICK p : w' = [w EXCEPT !.draft = p]
  BY DEF Timer!EditDraft
<1>2. /\ w' \in [config : {w'.config}, up : {w'.up}, due : BOOLEAN, wire : {w'.wire}, rt : {w'.rt}, draft : {w'.draft}]
      /\ w'.wire = w.wire /\ w'.rt = w.rt /\ w'.due = w.due /\ w'.config = w.config
  BY <1>1 DEF TimerInv, TimerCard
<1> QED BY <1>2, TimerStays DEF TimerInv, TimerCard

LEMMA TimerRenders ==
  ASSUME TimerInv(w), ~w.due,
         Timer!SavePreset \/ Timer!SaveSettings \/ Timer!SaveElsewhere \/ Timer!DevicesRefreshed \/ Timer!DeviceSwitches
  PROVE  TimerInv(w')
<1>1. w \in [config : {w.config}, up : {w.up}, due : BOOLEAN, wire : {w.wire}, rt : {w.rt}, draft : {w.draft}]
  BY DEF TimerInv, TimerCard
<1>2. CASE Timer!SavePreset \/ Timer!SaveSettings \/ Timer!DevicesRefreshed
  <2>1. PICK c : w' = [w EXCEPT !.config = c, !.due = TRUE]
    <3>1. CASE Timer!SavePreset BY <3>1 DEF Timer!SavePreset, Timer!Saved
    <3>2. CASE Timer!SaveSettings BY <3>2 DEF Timer!SaveSettings, Timer!Saved
    <3>3. CASE Timer!DevicesRefreshed
      <4>1. [w EXCEPT !.due = TRUE] = [w EXCEPT !.config = w.config, !.due = TRUE] BY <1>1
      <4> QED BY <3>3, <4>1 DEF Timer!DevicesRefreshed, Timer!Reloaded
    <3> QED BY <1>2, <3>1, <3>2, <3>3
  <2>2. /\ w' \in [config : {w'.config}, up : {w'.up}, due : BOOLEAN, wire : {w'.wire}, rt : {w'.rt}, draft : {w'.draft}]
        /\ w'.wire = w.wire /\ w'.rt = w.rt /\ w'.due
    BY <1>1, <2>1
  <2> QED BY <2>2, TimerDue
<1>3. CASE Timer!SaveElsewhere
  <2>1. PICK c, p : w' = [[w EXCEPT !.config = c, !.due = TRUE] EXCEPT !.draft = p]
    BY <1>3 DEF Timer!SaveElsewhere, Timer!Saved
  <2>2. /\ w' \in [config : {w'.config}, up : {w'.up}, due : BOOLEAN, wire : {w'.wire}, rt : {w'.rt}, draft : {w'.draft}]
        /\ w'.wire = w.wire /\ w'.rt = w.rt /\ w'.due
    BY <1>1, <2>1
  <2> QED BY <2>2, TimerDue
<1>4. CASE Timer!DeviceSwitches
  <2>1. PICK d : w' = Timer!Switched(w, d)
    BY <1>4 DEF Timer!DeviceSwitches
  <2>2. PICK x : x = [w EXCEPT !.up = IF d \in @ THEN @ \ {d} ELSE @ \union {d}]
    OBVIOUS
  <2>3. /\ x \in [config : {x.config}, up : {x.up}, due : BOOLEAN, wire : {x.wire}, rt : {x.rt}, draft : {x.draft}]
        /\ x.wire = w.wire /\ x.rt = w.rt /\ x.config = w.config
    BY <1>1, <2>2
  <2>4. PICK b \in BOOLEAN : b = (x.due \/ Timer!Available(x) # Timer!Available(w))
    OBVIOUS
  <2>5. w' = [x EXCEPT !.due = b]
    BY <2>1, <2>2, <2>4 DEF Timer!Switched
  <2>6. /\ w' \in [config : {w'.config}, up : {w'.up}, due : BOOLEAN, wire : {w'.wire}, rt : {w'.rt}, draft : {w'.draft}]
        /\ w'.wire = w.wire /\ w'.rt = w.rt /\ w'.config = w.config
    BY <2>3, <2>5
  <2> QED BY <2>6, TimerStays
<1> QED BY <1>2, <1>3, <1>4

LEMMA TimerBegins ==
  ASSUME Timer!Init
  PROVE  TimerInv(w)
<1>1. PICK d, p : w = [config |-> [dev |-> d, timers |-> p], up |-> {}, due |-> TRUE, wire |-> <<>>, rt |-> Timer!Idle, draft |-> p]
  BY DEF Timer!Init
<1>2. TimerRuntime(Timer!Idle) /\ ~Timer!Idle.loading
  BY DEF TimerRuntime, Timer!Idle, Timer!Runtime
<1>3. Wire(<<>>) /\ DOMAIN <<>> = {}
  BY DEF Wire
<1> QED BY <1>1, <1>2, <1>3 DEF TimerInv, TimerCard, TimerBusy, TimerRest

LEMMA TimerSteps ==
  ASSUME TimerInv(w), Timer!Next
  PROVE  TimerInv(w')
<1>1. CASE Timer!Answer \/ Timer!Expires \/ Timer!EditDraft
  BY <1>1, TimerAnswer, TimerExpires, TimerEdits
<1>2. CASE ~w.due /\ (Timer!SavePreset \/ Timer!SaveSettings \/ Timer!SaveElsewhere \/ Timer!DevicesRefreshed \/ Timer!DeviceSwitches)
  BY <1>2, TimerRenders
<1>3. CASE Timer!Click \/ Timer!RunEffects
  BY <1>3, TimerClick, TimerRunEffects
<1>4. CASE Timer!ClickRefresh
  BY <1>4, TimerRefreshes DEF Timer!ClickRefresh, TimerInv
<1>5. CASE \E i \in DOMAIN w.wire : Timer!Fails(i)
  <2>1. PICK i \in DOMAIN w.wire : Timer!Fails(i) BY <1>5
  <2> QED BY <2>1, TimerFails
<1> QED BY <1>1, <1>2, <1>3, <1>4, <1>5 DEF Timer!Next

-----------------------------------------------------------------------------
(* The cards.                                                              *)

CardsInv ==
  /\ which = "timer" => TimerInv(w)
  /\ which = "trigger" => TriggerInv(w)
  /\ which = "protection" => ProtectedInv(w)
  /\ which = "toggle" => ToggleInv(w)
  /\ which = "value" => ValueInv(w)

LEMMA CardsBegin ==
  ASSUME Init
  PROVE  CardsInv
<1>1. which = "timer" => Timer!Init BY DEF Init
<1>2. which = "trigger" => Trigger!Init BY DEF Init
<1>3. which = "protection" => Protected!Init BY DEF Init
<1>4. which = "toggle" => Toggle!Init BY DEF Init
<1>5. which = "value" => Value!Init BY DEF Init
<1> QED BY <1>1, <1>2, <1>3, <1>4, <1>5, TimerBegins, TriggerBegins, ProtectedBegins, ToggleBegins, ValueBegins
        DEF CardsInv

LEMMA CardsStep ==
  ASSUME CardsInv, [Next]_<<which, w>>
  PROVE  CardsInv'
<1>1. CASE UNCHANGED <<which, w>>
  BY <1>1 DEF CardsInv, TimerInv, TriggerInv, ProtectedInv, ToggleInv, ValueInv
<1>2. CASE Next
  <2>0. which' = which BY <1>2 DEF Next
  <2>1. which = "timer" => TimerInv(w')
    <3>1. which = "timer" => Timer!Next BY <1>2 DEF Next
    <3> QED BY <3>1, TimerSteps DEF CardsInv
  <2>2. which = "trigger" => TriggerInv(w')
    <3>1. which = "trigger" => Trigger!Next BY <1>2 DEF Next
    <3> QED BY <3>1, TriggerSteps DEF CardsInv
  <2>3. which = "protection" => ProtectedInv(w')
    <3>1. which = "protection" => Protected!Next BY <1>2 DEF Next
    <3> QED BY <3>1, ProtectedSteps DEF CardsInv
  <2>4. which = "toggle" => ToggleInv(w')
    <3>1. which = "toggle" => Toggle!Next BY <1>2 DEF Next
    <3> QED BY <3>1, ToggleSteps DEF CardsInv
  <2>5. which = "value" => ValueInv(w')
    <3>1. which = "value" => Value!Next BY <1>2 DEF Next
    <3> QED BY <3>1, ValueSteps DEF CardsInv
  <2> QED BY <2>0, <2>1, <2>2, <2>3, <2>4, <2>5 DEF CardsInv
<1> QED BY <1>1, <1>2

LEMMA CardsHold ==
  ASSUME CardsInv
  PROVE  LoadingEnds /\ ShownIsDevice /\ NothingTwice
<1>1. ASSUME which = "timer" PROVE Timer!LoadingEnds /\ Timer!StatusOfThisPreset
  <2>1. TimerBusy(w) /\ TimerRest(w) BY <1>1 DEF CardsInv, TimerInv
  <2>2. Timer!LoadingEnds
    BY <2>1 DEF TimerBusy, TimerAwaited, Timer!LoadingEnds, Timer!Applies
  <2> QED BY <2>1, <2>2 DEF TimerRest, Timer!StatusOfThisPreset
<1>2. ASSUME which = "trigger" PROVE Trigger!LoadingEnds /\ Trigger!ShownIsDevice
  <2>1. TriggerBusy(w) /\ TriggerRest(w) BY <1>2 DEF CardsInv, TriggerInv
  <2> QED BY <2>1 DEF TriggerBusy, TriggerRest, TriggerResting, Trigger!LoadingEnds, Trigger!ShownIsDevice, Trigger!Available
<1>3. ASSUME which = "protection" PROVE Protected!LoadingEnds /\ Protected!ShownIsDevice /\ Protected!TripToldOnce
  <2>1. ProtectedFields(w) /\ ProtectedBusy(w) /\ ProtectedRest(w)
    BY <1>3 DEF CardsInv, ProtectedInv, ProtectedSound, ProtectedCard
  <2>2. Protected!LoadingEnds BY <2>1 DEF ProtectedBusy, Task, Protected!LoadingEnds
  <2>3. Protected!ShownIsDevice
    BY <2>1 DEF ProtectedRest, ProtectedResting, Protected!ShownIsDevice, Protected!Available
  <2>4. Protected!TripToldOnce BY <2>1 DEF ProtectedFields, Protected!TripToldOnce
  <2> QED BY <2>2, <2>3, <2>4
<1>4. ASSUME which = "toggle" PROVE Toggle!LoadingEnds /\ Toggle!ShownIsDevice /\ Toggle!EveryCommandChanges
  <2>1. ToggleBusy(w) /\ ToggleRest(w) /\ ToggleWrites(w) BY <1>4 DEF CardsInv, ToggleInv
  <2>2. Toggle!LoadingEnds BY <2>1 DEF ToggleBusy, Toggle!LoadingEnds
  <2>3. Toggle!ShownIsDevice BY <2>1 DEF ToggleRest, Toggle!ShownIsDevice, Toggle!Available
  <2>4. Toggle!EveryCommandChanges BY <2>1 DEF ToggleWrites, Toggle!EveryCommandChanges
  <2> QED BY <2>2, <2>3, <2>4
<1>5. ASSUME which = "value" PROVE Value!LoadingEnds /\ Value!ShownIsDevice
  <2>1. ValueOwned(w) /\ ValueWriting(w) /\ ValuePending(w) /\ ValueFresh(w) BY <1>5 DEF CardsInv, ValueInv
  <2>2. Value!LoadingEnds
    <3>1. w.phase = "writing" => w.due \/ \E i \in DOMAIN w.wire : w.wire[i].kind = "write" /\ w.wire[i].cur
      BY <2>1 DEF ValueWriting, CurWrite
    <3>2. \A d \in Supplies : w.snap[d].loading => Value!Owned(w, d)
      BY <2>1 DEF ValueOwned, ValueOwnedBut, Polls, Value!Owned
    <3>3. w.pending => w.phase \in {"writing", "refreshing"} BY <2>1 DEF ValuePending
    <3> QED BY <3>1, <3>2, <3>3 DEF Value!LoadingEnds
  <2>3. Value!ShownIsDevice BY <2>1 DEF ValueFresh, Value!ShownIsDevice
  <2> QED BY <2>2, <2>3
<1> QED BY <1>1, <1>2, <1>3, <1>4, <1>5 DEF LoadingEnds, ShownIsDevice, NothingTwice

(* Of the five control widgets, the one that moves keeps its invariant,   *)
(* for any devices, presets, slots, values and bounds: its records are of  *)
(* their types, and what is on its way is as the widget believes.          *)
THEOREM CardsSound == Spec => []CardsInv
<1>1. Init => CardsInv BY CardsBegin
<1>2. CardsInv /\ [Next]_<<which, w>> => CardsInv' BY CardsStep
<1> QED BY <1>1, <1>2, PTL DEF Spec

(* What makes a control widget busy, so that its controls are disabled, is *)
(* a request in flight whose end it will notice, or effects to run:        *)
(* whatever was renamed, outdated, failed or answered late.                *)
THEOREM BusyEnds == Spec => []LoadingEnds
<1>1. CardsInv => LoadingEnds BY CardsHold
<1> QED BY <1>1, CardsSound, PTL

(* At rest a control widget shows what its device holds, and the timer     *)
(* card a status of the preset and the device it is configured for.        *)
THEOREM RestShowsDevice == Spec => []ShownIsDevice
<1>1. CardsInv => ShownIsDevice BY CardsHold
<1> QED BY <1>1, CardsSound, PTL

(* One trip is announced once in a protection's session, and a toggle      *)
(* command finds its device in the other state.                            *)
THEOREM ToldAndSentOnce == Spec => []NothingTwice
<1>1. CardsInv => NothingTwice BY CardsHold
<1> QED BY <1>1, CardsSound, PTL
=============================================================================
