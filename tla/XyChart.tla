------------------------------- MODULE XyChart -------------------------------
(***************************************************************************)
(* An X-Y chart: the pairing of two queries that are read independently,   *)
(* the points it shows and their record in the browser's local storage.    *)
(*                                                                         *)
(* A sample is [t, of]: its time and the query it is of; t = 0 is no       *)
(* sample.  Sizes in bytes are counted in points.                          *)
(***************************************************************************)
EXTENDS Naturals, Sequences, SequencesExt

CONSTANTS
  Sources,   \* the queries; each of a device of its own
  Caps,      \* limits of the history
  MaxTime    \* bound: samples

(* What the models instantiate it with: limits are sizes.                  *)
LimitsAreSizes == Caps \subseteq Nat

VARIABLE w

Axes == {"x", "y"}
Other(axis) == IF axis = "x" THEN "y" ELSE "x"
NoSample == [t |-> 0, of |-> ""]
NoRecord == [x |-> "", y |-> "", points |-> <<>>]
NoPairing == [latest |-> [a \in Axes |-> NoSample], fresh |-> {}, timer |-> FALSE]

-----------------------------------------------------------------------------
PruneXyChartHistory(points, cap) ==
  IF Len(points) <= cap THEN points ELSE SubSeq(points, Len(points) - cap + 1, Len(points))
Record(points, config) == IF points = <<>> THEN NoRecord ELSE [x |-> config.x, y |-> config.y, points |-> points]
Load(record, config) == IF record.x = config.x /\ record.y = config.y THEN record.points ELSE <<>>
Save(x, points) ==
  LET kept == PruneXyChartHistory(points, x.config.cap)
  IN [x EXCEPT !.points = kept, !.record = Record(kept, x.config)]

(* The pairer: a fresh sample waits for the other axis, or is paired with  *)
(* its latest sample when the wait is over.                                *)
Emit(x) ==
  Save([x EXCEPT !.pairing.fresh = {}, !.pairing.timer = FALSE],
       Append(x.points, [x |-> x.pairing.latest["x"], y |-> x.pairing.latest["y"]]))
Update(x, axis, sample) ==
  LET y == [x EXCEPT !.pairing.latest[axis] = sample, !.pairing.fresh = @ \union {axis}]
  IN IF y.pairing.fresh = Axes THEN Emit(y) ELSE [y EXCEPT !.pairing.timer = TRUE]
Seed(x, axis, sample) == [x EXCEPT !.pairing.latest[axis] = sample]
HandleTimeout ==
  /\ w.pairing.timer
  /\ w' = IF \E a \in Axes : w.pairing.latest[a].t = 0
          THEN [w EXCEPT !.pairing.timer = FALSE, !.pairing.fresh = {}]
          ELSE Emit([w EXCEPT !.pairing.timer = FALSE])

(* The listener of an axis.                                                *)
SourceOf(config, axis) == IF axis = "x" THEN config.x ELSE config.y
Cleared(x) == Save([x EXCEPT !.mixed = FALSE, !.pairing = NoPairing, !.last = [a \in Axes |-> 0]], <<>>)
ReadAnyUpdate(x, axis, seed) ==   \* mutant: a snapshot that only changed its loading flag counts as new
  LET source == SourceOf(x.config, axis)
      snapshot == x.snap[source]
      sample == [t |-> snapshot.t, of |-> source]
      valid == ~snapshot.disconnected /\ snapshot.t # 0 /\ ~snapshot.error
  IN CASE snapshot.disconnected -> Cleared(x)
       [] valid /\ seed -> Seed(x, axis, sample)
       [] valid /\ ~seed -> Update(x, axis, sample)
       [] OTHER -> x
Read(x, axis, seed) ==
  LET source == SourceOf(x.config, axis)
      snapshot == x.snap[source]
      sample == [t |-> snapshot.t, of |-> source]
      valid == ~snapshot.disconnected /\ snapshot.t # 0 /\ ~snapshot.error
      y == [x EXCEPT !.last[axis] = IF snapshot.t > @ THEN snapshot.t ELSE @]
  IN CASE snapshot.disconnected -> Cleared(x)
       [] valid /\ seed -> Seed(y, axis, sample)
       [] valid /\ ~seed /\ snapshot.t > x.last[axis] -> Update(y, axis, sample)
       [] OTHER -> y
Told(x, source) ==
  LET one == IF x.open /\ x.config.x = source THEN Read(x, "x", FALSE) ELSE x
  IN IF one.open /\ one.config.y = source THEN Read(one, "y", FALSE) ELSE one

-----------------------------------------------------------------------------
(* Collection starts: what is stored is shown, cached samples are seeds.   *)
Collect(x, points) ==
  Read(Read([x EXCEPT !.points = points, !.pairing = NoPairing, !.last = [a \in Axes |-> 0]], "x", TRUE), "y", TRUE)
ShowChart ==
  LET x == [w EXCEPT !.open = TRUE] stored == Load(w.record, w.config) y == IF stored = <<>> THEN x ELSE Save(x, stored)
  IN ~w.open /\ w' = Collect(y, y.points)
LeaveChart == w.open /\ w' = [w EXCEPT !.open = FALSE, !.points = <<>>, !.pairing = NoPairing, !.last = [a \in Axes |-> 0]]
ReloadPage ==
  w' = [w EXCEPT !.open = FALSE, !.points = <<>>, !.pairing = NoPairing, !.last = [a \in Axes |-> 0],
                 !.snap = [s \in Sources |-> [t |-> 0, error |-> FALSE, disconnected |-> FALSE]]]
(* A new limit saves the points shown under the new configuration; where   *)
(* the queries change too, collection starts again from what was stored    *)
(* before that save or after it, as React runs the save now or later.      *)
Configure ==
  /\ w.open
  /\ \E x, y \in Sources, cap \in Caps, timeout \in BOOLEAN :
       LET config == [x |-> x, y |-> y, cap |-> cap]
           new == [w EXCEPT !.config = config]
           saves == cap # w.config.cap /\ w.points # <<>>
           saved == IF saves THEN Save(new, w.points) ELSE new
           same == ~timeout /\ <<x, y>> = <<w.config.x, w.config.y>>
           later == Collect(new, Load(w.record, config))
       IN \/ same /\ w' = saved
          \/ ~same /\ w' = Collect([saved EXCEPT !.mixed = @ \/ saves], Load(saved.record, config))
          \/ ~same /\ w' = IF saves THEN [later EXCEPT !.record = saved.record, !.mixed = TRUE] ELSE later
DeleteXyChartHistory ==
  w' = LET x == [w EXCEPT !.record = NoRecord, !.mixed = FALSE] IN IF w.open THEN Collect(x, <<>>) ELSE x

(* The poller: a sample, a failed reading, a change of the loading flag,   *)
(* and a device that is lost.                                              *)
Sample ==
  /\ w.clock < MaxTime
  /\ \E s \in Sources, error \in BOOLEAN :
       w' = Told([w EXCEPT !.clock = @ + 1, !.snap[s] = [t |-> w.clock + 1, error |-> error, disconnected |-> FALSE]], s)
Loading == \E s \in Sources : ~w.snap[s].disconnected /\ w' = Told(w, s)
Disconnect ==
  \E s \in Sources :
    LET x == [w EXCEPT !.snap[s] = [t |-> 0, error |-> FALSE, disconnected |-> TRUE],
                       !.record = IF s \in {@.x, @.y} THEN NoRecord ELSE @]
    IN w' = Told(x, s)

Init ==
  \E x, y \in Sources, cap \in Caps :
    w = [open |-> FALSE, config |-> [x |-> x, y |-> y, cap |-> cap], points |-> <<>>, record |-> NoRecord,
         pairing |-> NoPairing, last |-> [a \in Axes |-> 0], clock |-> 0, mixed |-> FALSE,
         snap |-> [s \in Sources |-> [t |-> 0, error |-> FALSE, disconnected |-> FALSE]]]
Next ==
  \/ HandleTimeout \/ ShowChart \/ LeaveChart \/ ReloadPage \/ Configure \/ DeleteXyChartHistory
  \/ Sample \/ Loading \/ Disconnect
Spec == Init /\ [][Next]_w

-----------------------------------------------------------------------------
(* Pairs go forward in time and are recorded once, both readings are of    *)
(* the sources now configured, and a reload shows the same pairs.          *)
OriginOfPoints == \A i \in DOMAIN w.points : w.points[i].x.of = w.config.x /\ w.points[i].y.of = w.config.y
PairsAdvance ==
  \A i \in 2..Len(w.points) :
    LET p == w.points[i - 1] q == w.points[i] IN p.x.t <= q.x.t /\ p.y.t <= q.y.t /\ p # q
ReloadShows == w.open => Load(w.record, w.config) = w.points
XyIsFaithful == ~w.mixed => PairsAdvance /\ OriginOfPoints /\ ReloadShows
=============================================================================
