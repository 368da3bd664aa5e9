---------------------------- MODULE ResultSeries ----------------------------
(***************************************************************************)
(* The chart of a finished task: each of its series is read page by page,  *)
(* the newest points are kept, and all are shown together.  Loads of an    *)
(* earlier chart may still be on their way (active = FALSE); a task's      *)
(* result may be deleted while it is read.  Points of a series are its     *)
(* numbers in the order of their times; bytes are counted in points.       *)
(***************************************************************************)
EXTENDS Naturals, Sequences, SequencesExt

CONSTANTS
  Tasks, Names,     \* the series every task has
  Count(_, _),      \* how many points a series of a task has
  Invalid,          \* the points, of every series, whose value is no number
  PageLimit, Cap,   \* points of a page, and points kept of a series
  MaxOpens          \* bound: charts opened

VARIABLE w

Closed == [task |-> "", status |-> "closed", points |-> [s \in Names |-> <<>>], loadedCount |-> 0]
Load(task, s, n) == [task |-> task, name |-> s, chart |-> n, active |-> TRUE, done |-> FALSE,
                     offset |-> 0, points |-> <<>>, loadedCount |-> 0]
Of(x, n) == SelectSeq(x.loads, LAMBDA l : l.chart = n)
Left(x) == [x EXCEPT !.chart = Closed, !.loads = [i \in DOMAIN @ |-> [@[i] EXCEPT !.active = FALSE]]]

OpenChart ==
  /\ w.opens < MaxOpens
  /\ \E t \in Tasks : w' =
       [Left(w) EXCEPT !.chart = [Closed EXCEPT !.task = t, !.status = "loading"], !.opens = @ + 1,
                       !.loads = @ \o [i \in DOMAIN SetToSeq(Names) |-> Load(t, SetToSeq(Names)[i], w.opens + 1)]]
CloseChart == w.chart.status # "closed" /\ w' = Left(w)

normalizeResultPoints(page) == SelectSeq(page, LAMBDA p : p \notin Invalid)
retainLatestResultSeriesData(points) ==
  IF Len(points) <= Cap THEN points ELSE SubSeq(points, Len(points) - Cap + 1, Len(points))
Page(l) ==
  LET count == Count(l.task, l.name)
      last == IF l.offset + PageLimit < count THEN l.offset + PageLimit ELSE count
  IN [i \in 1..(last - l.offset) |-> l.offset + i]

(* What is left of a chart's loads is forgotten when all have ended.       *)
readyState(x, n) ==
  LET all == Of(x, n) IN
    [x EXCEPT !.loads = SelectSeq(@, LAMBDA l : l.chart # n),
              !.chart = IF \A i \in DOMAIN all : all[i].active
                        THEN [@ EXCEPT !.status = "ready", !.loadedCount = FoldLeft(LAMBDA k, l : k + l.loadedCount, 0, all),
                              !.points = [s \in Names |-> (CHOOSE l \in Range(all) : l.name = s).points]]
                        ELSE @]
(* A page has come; a short one ends its series, the last series the load. *)
Answer(i) ==
  /\ ~w.loads[i].done /\ w.loads[i].task \notin w.deleted
  /\ LET l == w.loads[i]
         page == normalizeResultPoints(Page(l))
         next == [l EXCEPT !.loadedCount = @ + Len(page), !.offset = @ + Len(Page(l)),
                           !.points = retainLatestResultSeriesData(@ \o page),
                           !.done = Len(Page(l)) < PageLimit \/ ~l.active]
         x == [w EXCEPT !.loads[i] = next]
     IN w' = IF \A j \in DOMAIN Of(x, l.chart) : Of(x, l.chart)[j].done THEN readyState(x, l.chart) ELSE x
(* A request that fails ends the whole load, and is told of unless it was  *)
(* given up; what else is on its way is read for nothing.                  *)
Fails(i) ==
  /\ ~w.loads[i].done
  /\ LET l == w.loads[i] IN
       w' = [w EXCEPT !.loads = SelectSeq(@, LAMBDA k : k.chart # l.chart),
                      !.chart.status = IF l.active THEN "failed" ELSE @]
ResultDeleted == \E t \in Tasks \ w.deleted : w' = [w EXCEPT !.deleted = @ \union {t}]

Init == w = [chart |-> Closed, loads |-> <<>>, deleted |-> {}, opens |-> 0]
Next ==
  \/ OpenChart \/ CloseChart \/ ResultDeleted
  \/ \E i \in DOMAIN w.loads : Answer(i) \/ Fails(i)
Spec == Init /\ [][Next]_w

-----------------------------------------------------------------------------
(* A chart that has loaded shows the newest points of every series of its  *)
(* task, none lost or read twice at the ends of the pages, and counts all; *)
(* one that is loading waits for a request.                                *)
SeriesIsWhole ==
  /\ w.chart.status = "loading" => \E l \in Range(w.loads) : l.active /\ ~l.done
  /\ w.chart.status = "ready" =>
       LET valid == [s \in Names |-> normalizeResultPoints([i \in 1..Count(w.chart.task, s) |-> i])] IN
         /\ w.chart.points = [s \in Names |-> retainLatestResultSeriesData(valid[s])]
         /\ w.chart.loadedCount = FoldLeft(LAMBDA k, s : k + Len(valid[s]), 0, SetToSeq(Names))
=============================================================================
