---------------------------- MODULE ChartHistory ----------------------------
(***************************************************************************)
(* A time-series chart: the points it shows of each of its series, the     *)
(* record of them in the browser's local storage, and the snapshots the    *)
(* poller keeps of every query.  A second browser tab shares the storage:  *)
(* it may clear the history, which this tab learns of later.               *)
(*                                                                         *)
(* A source is a query of a device.  A sample is the time it was taken; a  *)
(* point is [t, y, of]: its time, the sample whose value it has and, for   *)
(* the properties, the source that sent it.  t # y when the poll at t      *)
(* failed and left the value of before.  Sizes in bytes are counted in     *)
(* points.                                                                 *)
(***************************************************************************)
EXTENDS Naturals, Sequences, SequencesExt, FiniteSets, FiniteSetsExt

CONSTANTS
  Sources, DeviceOf,  \* the queries, and the device each is asked of
  Fixed,              \* the source of the second series
  Caps,               \* limits of the history
  Block,              \* samples a reading repeats, the newest included
  MaxSample           \* bound: readings

VARIABLE w

SeriesIds == <<"series-1", "series-2">>
Series == {"series-1", "series-2"}
NoPoints == [s \in Series |-> <<>>]
Total(points) == Len(points["series-1"]) + Len(points["series-2"])
NoRecord == [source |-> [s \in Series |-> ""], points |-> NoPoints]

-----------------------------------------------------------------------------
(* Points: a series holds one point of each sample and of each failed      *)
(* poll, oldest first.                                                     *)
Sorted(points) == SetToSortSeq(points, LAMBDA p, q : p.t < q.t \/ (p.t = q.t /\ p.y < q.y))
PointKey(p) == <<IF p.y = p.t THEN "source" ELSE "time", p.t>>
MergePoints(old, new) ==
  Sorted({p \in Range(old) : \A q \in Range(new) : PointKey(q) # PointKey(p)} \union Range(new))
RemoveOldestPoints(points, n) ==
  LET all == [s \in Series |-> {[s |-> s, t |-> p.t, y |-> p.y] : p \in Range(points[s])}]
      oldest == SetToSortSeq(all["series-1"] \union all["series-2"],
                             LAMBDA p, q : p.t < q.t \/ (p.t = q.t /\ p.s = "series-1" /\ q.s = "series-2"))
      Gone(s) == Cardinality({i \in 1..n : oldest[i].s = s})
  IN [s \in Series |-> SubSeq(points[s], Gone(s) + 1, Len(points[s]))]
PruneChartHistory(points, cap) ==
  IF Total(points) <= cap THEN points ELSE RemoveOldestPoints(points, Total(points) - cap)

(* The record in the storage, and what of it belongs to a configuration.   *)
Load(record, config) ==
  [s \in Series |-> IF record.source[s] = config.source[s] THEN record.points[s] ELSE <<>>]
Save(x, points) ==
  LET kept == PruneChartHistory(points, x.config.cap) IN
    [x EXCEPT !.points = kept,
              !.record = IF Total(kept) = 0 THEN NoRecord ELSE [source |-> x.config.source, points |-> kept]]

-----------------------------------------------------------------------------
(* The listener of a series: a snapshot of a disconnected device clears    *)
(* the series, any other is merged into it.                                *)
AppendCurrentSnapshot(x, s) ==
  LET snapshot == x.snap[x.config.source[s]]
      new == snapshot.points
  IN CASE snapshot.disconnected -> Save([x EXCEPT !.seen[s] = {}], [x.points EXCEPT ![s] = <<>>])
       [] snapshot.points = <<>> -> x
       [] OTHER -> Save([x EXCEPT !.seen[s] = @ \union Range(new)], [x.points EXCEPT ![s] = MergePoints(@, new)])
Told(x, sources) ==
  FoldLeft(LAMBDA y, s : IF y.config.source[s] \in sources THEN AppendCurrentSnapshot(y, s) ELSE y, x, SeriesIds)
(* The effects of a new configuration, or of showing the chart.            *)
Shown(x) ==
  Told([x EXCEPT !.points = Load(x.record, x.config), !.seen = [s \in Series |-> {}]], Sources)
LoadChart == ~w.open /\ w' = Shown([w EXCEPT !.open = TRUE, !.stale = FALSE])
LeaveChart == w.open /\ w' = [w EXCEPT !.open = FALSE, !.points = NoPoints, !.seen = [s \in Series |-> {}]]
Configure ==
  \E source \in Sources, cap \in Caps :
    LET config == [source |-> [w.config.source EXCEPT !["series-1"] = source], cap |-> cap] IN
      w' = IF w.open THEN Shown([w EXCEPT !.config = config]) ELSE [w EXCEPT !.config = config]

(* A poll that is sent shows the last reading again.                       *)
PollSent ==
  \E source \in Sources :
    LET x == [w EXCEPT !.snap[source].disconnected = FALSE] IN w' = IF w.open THEN Told(x, {source}) ELSE x

(* What the poller reads; a reading repeats what the device still holds.   *)
(* One that fails, though the device is not lost, leaves the last value    *)
(* under the time of the failure.                                          *)
Sample ==
  \E source \in Sources :
    LET t == w.clock + 1
        first == IF t < Block THEN 1 ELSE t - Block + 1
        held == [i \in 1..(t - first + 1) |-> [t |-> first + i - 1, y |-> first + i - 1, of |-> source]]
        x == [w EXCEPT !.clock = t, !.snap[source] = [points |-> held, disconnected |-> FALSE]]
    IN t <= MaxSample /\ w' = IF w.open THEN Told(x, {source}) ELSE x
ReadingFails ==
  \E source \in Sources :
    LET t == w.clock + 1
        kept == IF w.snap[source].points = <<>> THEN <<>> ELSE <<[Last(w.snap[source].points) EXCEPT !.t = t]>>
        x == [w EXCEPT !.clock = t, !.snap[source] = [points |-> kept, disconnected |-> FALSE]]
    IN t <= MaxSample /\ w' = IF w.open THEN Told(x, {source}) ELSE x
ClearChartDeviceHistory(x, device) ==
  [x EXCEPT !.record.points = [s \in Series |-> IF x.record.source[s] # "" /\ DeviceOf[x.record.source[s]] = device
                                                THEN <<>> ELSE @[s]]]
Disconnect ==
  \E device \in {DeviceOf[s] : s \in Sources} :
    LET sources == {s \in Sources : DeviceOf[s] = device}
        off == [points |-> <<>>, disconnected |-> TRUE]
        x == ClearChartDeviceHistory([w EXCEPT !.snap = [s \in Sources |-> IF s \in sources THEN off ELSE @[s]]], device)
    IN w' = IF w.open THEN Told(x, sources) ELSE x

(* Clearing the history: the chart starts again with the snapshots of now. *)
Clear ==
  /\ w.open /\ w.record # NoRecord
  /\ w' = Shown([w EXCEPT !.record = NoRecord])
OtherTabClears == w.record # NoRecord /\ w' = [w EXCEPT !.record = NoRecord, !.stale = w.open]
StorageEvent ==
  /\ w.open /\ w.stale
  /\ w' = [w EXCEPT !.stale = FALSE, !.points = Load(w.record, w.config), !.seen = [s \in Series |-> {}]]

Init ==
  \E source \in Sources, cap \in Caps :
    w = [open |-> FALSE, config |-> [source |-> [s \in Series |-> IF s = "series-1" THEN source ELSE Fixed], cap |-> cap],
         points |-> NoPoints, seen |-> [s \in Series |-> {}], record |-> NoRecord, clock |-> 0, stale |-> FALSE,
         snap |-> [s \in Sources |-> [points |-> <<>>, disconnected |-> FALSE]]]
Next ==
  \/ LoadChart \/ LeaveChart \/ Configure \/ PollSent \/ Sample \/ ReadingFails \/ Disconnect \/ Clear
  \/ OtherTabClears \/ StorageEvent
Spec == Init /\ [][Next]_w

-----------------------------------------------------------------------------
(* What is shown and stored has a value that the source now configured     *)
(* sent, if not always at the time shown; a point that is not shown is no  *)
(* newer than any that is; and a reload shows the same points, unless      *)
(* another tab has cleared them.                                           *)
OriginOfPoints ==
  \A s \in Series :
    /\ \A i \in DOMAIN w.points[s] : w.points[s][i].of = w.config.source[s]
    /\ \A i \in DOMAIN w.record.points[s] : w.record.points[s][i].of = w.record.source[s]
NewestKept ==
  LET shown == UNION {Range(w.points[s]) : s \in Series} IN
    \A s \in Series : \A p \in w.seen[s] \ Range(w.points[s]), q \in shown : p.t <= q.t
ReloadShows == (w.open /\ ~w.stale) => Load(w.record, w.config) = w.points
ChartIsFaithful == OriginOfPoints /\ NewestKept /\ ReloadShows
=============================================================================
