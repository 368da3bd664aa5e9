--------------------------- MODULE BuiltinScripts ---------------------------
(***************************************************************************)
(* The builtin scripts that drive a bench: the two calibrations, the two   *)
(* accuracy measurements, the current-temperature curve and the relay      *)
(* examples.  A script is a program of host calls, a body inside `try` and *)
(* cleanup blocks of its `finally`; this module runs one program after     *)
(* another on one bench.  A host call returns, throws because the device   *)
(* or the transport failed (with or without having had its effect), or     *)
(* throws because the task was cancelled; log(), record() and progress()   *)
(* only throw in the last case and are left out, except where a value      *)
(* decides something.  Firmware of the supply (external): a FIFO of        *)
(* commands, of which a capture takes time.                                *)
(***************************************************************************)
EXTENDS Integers, Sequences, FiniteSets

CONSTANTS Points,       \* calibration points, sweep targets
          Runs,         \* how many scripts are run one after the other
          Faults,       \* host calls that fail
          Block,        \* samplesPerAverage
          Scripts       \* the scripts that may be started

VARIABLES bench,        \* what the instruments do
          run,          \* the script that runs
          left          \* runs and faults still to come
vars == <<bench, run, left>>

W(c) == <<"write", c>>
Ask == <<"ask">>                \* queries of the supply that only read
Load == <<"load">>              \* settings and queries of the load that only read
Idle == <<"expect", "idle">>    \* CALibration:TRANsaction? must say IDLE
Poll == <<"poll">>              \* if (cancelled()) return
Sleep == <<"sleep">>
Meter == <<"meter">>            \* READ? of the reference, and its checks
Next1(n) == <<"next", n>>       \* back n calls for the next point, if any
Alone(c) == [if |-> "always", do |-> <<W(c)>>]

VoltagePrepare ==
  <<W("srcOff"), Ask, <<"skipIdle", 2>>, W("abort"), Idle,
    W("relayOn"), W("startVoltage"), <<"opened">>, <<"expect", "open">>,
    W("clear"), <<"count", 0>>, W("srcZero"), W("srcOn"), Sleep>>
VoltagePointsUnconfirmed ==     \* mutant: the capture is not waited for
  <<Poll, W("srcPoint"), Sleep, Meter, W("capture"), Next1(5)>>
VoltagePoints ==
  <<Poll, W("srcPoint"), Sleep, Meter, W("capture"), Ask, Next1(6)>>
VoltageCommit == <<<<"count", Points>>, W("commit"), Idle, <<"closed">>>>
AbortBlock == [if |-> "open", do |-> <<W("abort"), Idle>>]
VoltageCleanupTogether ==       \* mutant: one try around the whole cleanup
  <<[if |-> "always", do |-> <<W("abort"), Idle, W("srcZero"), W("srcOff"), W("relayOff")>>]>>
VoltageCleanup == <<AbortBlock, Alone("srcZero"), Alone("srcOff"), Alone("relayOff")>>

CurrentPrepare ==
  <<W("srcOff"), Ask, <<"skipIdle", 2>>, W("abort"), Idle,
    W("relayOn"), W("startCurrent"), <<"opened">>, <<"expect", "open">>, W("srcOn"), Sleep>>
ConfirmPoint == <<W("capture"), <<"confirm">>>>
CurrentPoints ==
  <<Poll, <<"operator", 6>>, Sleep, Meter>> \o ConfirmPoint \o <<Next1(6)>>
CurrentCommit == <<W("commit"), Idle, <<"closed">>>>
CurrentCleanup == <<Alone("srcOff"), Alone("relayOff"), AbortBlock>>

AccuracyBody ==
  <<W("srcOff"), Ask, W("relayOn"), W("srcZero"), W("srcOn"), Sleep,
    Poll, W("srcPoint"), Sleep, Meter, Ask, Next1(5)>>
SweepCleanup == <<Alone("srcZero"), [if |-> "always", do |-> <<W("srcOff"), W("relayOff")>>]>>

ZeroOffsets == <<W("srcZero"), Poll, Ask, Sleep>>
MeasureSweep == <<Poll, W("srcPoint"), Sleep, Meter, Ask, W("srcZero"), Next1(6)>>
SweepBody ==
  <<W("srcOff"), Ask, W("relayOn"), W("srcZero"), W("srcOn"), Sleep>> \o ZeroOffsets \o MeasureSweep
  \o <<W("srcZero"), W("srcOff"), <<"swap">>, W("srcOn"), Sleep, <<"again">>>> \o MeasureSweep

CurveBody ==
  <<W("loadOff"), <<"temperature">>, Load, W("loadSet"), Load, W("relayOn"), W("loadOn"),
    W("loadSet"), <<"target">>, Poll, <<"temperature">>, <<"settle", 2>>, Sleep, <<"jump", 4>>, Next1(7)>>
FinishAtTemperatureLimit == <<W("relayOff"), W("loadOff")>>
CurveCleanup == <<Alone("relayOff"), Alone("loadOff")>>

DumpBody == <<Idle, Poll, Ask, Next1(2)>>
ReadBody == <<W("relayOff"), W("relayOn"), Sleep, Ask>>
AskBody == <<W("relayOff"), <<"answer">>, W("relayOn"), Sleep>>
SampleBody == <<W("relayOff"), W("relayOn"), Sleep, Poll, Ask, Sleep, Next1(3)>>
WatchBody == <<Poll, Ask, Sleep, Next1(3)>>
OperatorBody == <<Sleep, <<"try">>>> \o SampleBody
MelodyBody == <<W("relayOff"), Poll, W("relayOn"), Sleep, W("relayOff"), Sleep, Next1(5)>>
RelayCleanup == <<Alone("relayOff")>>

Body == [voltage |-> VoltagePrepare \o VoltagePoints \o VoltageCommit,
         current |-> CurrentPrepare \o CurrentPoints \o CurrentCommit,
         accuracy |-> AccuracyBody, sweep |-> SweepBody, curve |-> CurveBody, dump |-> DumpBody,
         read |-> ReadBody, ask |-> AskBody, sample |-> SampleBody, watch |-> WatchBody,
         operator |-> OperatorBody, melody |-> MelodyBody]
Cleanup == [s \in DOMAIN Body |->
  CASE s = "voltage" -> VoltageCleanup [] s = "current" -> CurrentCleanup
    [] s \in {"accuracy", "sweep"} -> SweepCleanup [] s = "curve" -> CurveCleanup
    [] s \in {"dump", "watch"} -> <<>> [] OTHER -> RelayCleanup]
ASSUME ScriptsAssumption ==
  Points \in Nat \ {0} /\ Runs \in Nat /\ Faults \in Nat /\ Block \in Nat \ {0} /\ Scripts \subseteq DOMAIN Body

-----------------------------------------------------------------------------
(* The bench.  The level is what the reference meter sees: the source's    *)
(* voltage (point k is level k-1: the first point is 0 V), or the current  *)
(* the operator has set.                                                   *)

Bench0 == [out |-> FALSE, level |-> 0, relay |-> FALSE, load |-> FALSE,
           fifo |-> <<>>, tx |-> "idle", err |-> FALSE, staged |-> <<>>, saved |-> <<>>]
Level(b) == IF b.out THEN b.level ELSE 0
Quiet == bench.fifo = <<>>

PsuCommands == {"relayOn", "relayOff", "startVoltage", "startCurrent", "clear", "capture", "commit", "abort"}
Send(b, c) ==
  CASE c = "srcOn"    -> [b EXCEPT !.out = TRUE]
    [] c = "srcOff"   -> [b EXCEPT !.out = FALSE]
    [] c = "srcZero"  -> [b EXCEPT !.level = 0]
    [] c = "srcPoint" -> [b EXCEPT !.level = IF run.s = "voltage" THEN run.k - 1 ELSE run.k]
    [] c = "loadOn"   -> [b EXCEPT !.load = TRUE]
    [] c = "loadOff"  -> [b EXCEPT !.load = FALSE]
    [] c = "loadSet"  -> b
    [] c \in PsuCommands ->
         [b EXCEPT !.fifo = Append(@, [c |-> c, k |-> run.k, n |-> run.n, from |-> -1, ref |-> Level(b)])]

Refuse(b) == [b EXCEPT !.err = TRUE]
Obey(b, e) ==
  CASE e.c = "relayOn"  -> [b EXCEPT !.relay = TRUE]
    [] e.c = "relayOff" -> [b EXCEPT !.relay = FALSE]
    [] e.c \in {"startVoltage", "startCurrent"} ->
         IF b.tx # "idle" THEN Refuse(b)
         ELSE [b EXCEPT !.tx = "open", !.staged = IF e.c = "startVoltage" THEN b.saved ELSE <<>>]
    [] e.c = "abort"    -> [b EXCEPT !.tx = "idle", !.staged = <<>>]
    [] OTHER -> IF b.tx = "idle" THEN Refuse(b) ELSE
         CASE e.c = "clear"   -> [b EXCEPT !.staged = <<>>]
           [] e.c = "commit"  -> [b EXCEPT !.tx = "idle", !.saved = b.staged, !.staged = <<>>]
           [] e.c = "capture" ->
                IF e.k > Len(b.staged) + 1 THEN Refuse(b)
                ELSE [b EXCEPT !.staged = Append(SubSeq(@, 1, e.k - 1),
                        [ref |-> e.ref, raw |-> IF Level(b) = e.from THEN e.from ELSE -1, n |-> e.n])]

(* The supply obeys its next command; a capture first begins, and reads    *)
(* what there is from then until it ends.                                  *)
Firmware ==
  /\ ~Quiet
  /\ LET e == Head(bench.fifo) IN
       bench' = IF e.c = "capture" /\ e.from = -1 /\ bench.tx = "open"
                THEN [bench EXCEPT !.fifo[1].from = Level(bench)]
                ELSE [Obey(bench, e) EXCEPT !.fifo = Tail(@)]
  /\ UNCHANGED <<run, left>>

-----------------------------------------------------------------------------
(* The script.  Only the curve uses sums, averages and streak: the current *)
(* block, the averages kept, and how many readings in a row were taken at  *)
(* this target and within its tolerance.                                   *)

Fresh(s) == [s |-> s, n |-> Runs - left.runs, phase |-> "body", pc |-> 1, block |-> 1, k |-> 1,
             open |-> FALSE, tried |-> s # "operator", stop |-> FALSE, lost |-> {}, prev |-> -1,
             samples |-> <<>>, averages |-> <<>>, streak |-> 0, points |-> <<>>]
Go(r, n) == [r EXCEPT !.pc = @ + n]
Return(r) == [r EXCEPT !.phase = IF r.tried THEN "cleanup" ELSE "done", !.pc = 1, !.block = 1]
Throw(r) == Return(r)

Program == CASE run.phase = "body" -> Body[run.s]
             [] run.phase = "cutoff" -> FinishAtTemperatureLimit
             [] run.phase = "cleanup" /\ run.block <= Len(Cleanup[run.s]) -> Cleanup[run.s][run.block].do
             [] OTHER -> <<>>
At(op) == run.pc <= Len(Program) /\ Program[run.pc][1] = op
Running == run.phase \in {"body", "cutoff"}
Calls == Running /\ ~run.stop
Then(r) == run' = r /\ UNCHANGED <<bench, left>>

Start(s) ==
  /\ run.phase = "done" /\ left.runs > 0
  /\ left' = [left EXCEPT !.runs = @ - 1]
  /\ run' = [Fresh(s) EXCEPT !.n = Runs - left.runs + 1]
  /\ UNCHANGED bench

Cancel == run.phase \notin {"done"} /\ ~run.stop /\ Then([run EXCEPT !.stop = TRUE])

(* The host calls throw once the task is cancelled, and a device may fail  *)
(* at any of them; a value the script does not accept makes it throw too.  *)
HostCalls == {"write", "ask", "load", "expect", "count", "confirm", "skipIdle", "meter", "sleep",
              "operator", "swap", "answer", "temperature", "settle"}
CallRefused == Running /\ run.stop /\ (\E op \in HostCalls : At(op)) /\ Then(Throw(run))
CallFails ==
  /\ Calls /\ left.faults > 0 /\ \E op \in HostCalls \ {"sleep"} : At(op)
  /\ bench' \in {bench} \union (IF At("write") THEN {Send(bench, Program[run.pc][2])} ELSE {})
  /\ run' = Throw(run) /\ left' = [left EXCEPT !.faults = @ - 1]

Write ==
  /\ Calls /\ At("write")
  /\ bench' = Send(bench, Program[run.pc][2])
  /\ run' = Go(run, 1) /\ UNCHANGED left
Wait == Calls /\ (At("sleep") \/ At("load")) /\ Then(Go(run, 1))
CheckCancelled == Running /\ At("poll") /\ Then(IF run.stop THEN Return(run) ELSE Go(run, 1))

(* A query of the supply is answered after the commands before it, with    *)
(* their error if there was one.                                           *)
Query(r) ==
  /\ Calls /\ Quiet
  /\ bench' = [bench EXCEPT !.err = FALSE]
  /\ run' = (IF bench.err THEN Throw(run) ELSE r) /\ UNCHANGED left
AskSupply == At("ask") /\ Query(Go(run, 1))
ExpectTransaction ==
  At("expect") /\ Query(IF bench.tx = Program[run.pc][2] THEN Go(run, 1) ELSE Throw(run))
ExpectCount ==
  At("count") /\ Query(IF Len(bench.staged) = Program[run.pc][2] THEN Go(run, 1) ELSE Throw(run))
Confirm ==
  At("confirm") /\ Query(IF Len(bench.staged) = run.k THEN Go(run, 1) ELSE Throw(run))
AbortUnfinished ==
  At("skipIdle") /\ Query(Go(run, IF bench.tx = "idle" THEN 1 + Program[run.pc][2] ELSE 1))

MeterAccepts ==
  CASE run.s = "voltage" -> Level(bench) = run.k - 1
    [] run.s = "current" -> Level(bench) > run.prev
    [] OTHER -> TRUE
ReadMeter ==
  /\ Calls /\ At("meter")
  /\ \/ MeterAccepts /\ Then([Go(run, 1) EXCEPT !.prev = Level(bench)])
     \/ Then(Throw(run))

Mark ==
  /\ Running
  /\ \/ At("opened") /\ Then([Go(run, 1) EXCEPT !.open = TRUE])
     \/ At("closed") /\ Then([Go(run, 1) EXCEPT !.open = FALSE])
     \/ At("try") /\ Then([Go(run, 1) EXCEPT !.tried = TRUE])
     \/ At("again") /\ Then([Go(run, 1) EXCEPT !.k = 1])
     \/ At("jump") /\ Then(Go(run, 0 - Program[run.pc][2]))
NextPoint ==
  /\ Running /\ At("next")
  /\ Then(IF run.k < Points THEN [Go(run, 0 - Program[run.pc][2]) EXCEPT !.k = @ + 1] ELSE Go(run, 1))

(* input(): the operator sets the current and confirms, or enters 0.       *)
OperatorInput ==
  /\ Calls /\ At("operator")
  /\ \/ bench' \in {bench, [bench EXCEPT !.level = run.k - 1]} /\ run' = Go(run, 1) /\ UNCHANGED left
     \/ Then(Go(run, Program[run.pc][2]))
LoadSwapped == Calls /\ At("swap") /\ \E r \in {Go(run, 1), Return(run)} : Then(r)
Answer == Calls /\ At("answer") /\ \E r \in {Go(run, 1), Return(run)} : Then(r)

(* The curve: readings of temperature (cool or warm, or the limit) and of  *)
(* the current (over the safety limit, away from the target, or near it).  *)
NewTarget ==
  Running /\ At("target") /\ Then([Go(run, 1) EXCEPT !.samples = <<>>, !.averages = <<>>, !.streak = 0])
MeasureTemperature ==
  /\ At("temperature")
  /\ \/ Query(Go(run, 1))
     \/ Query([run EXCEPT !.phase = "cutoff", !.pc = 1])
Sum(q) == LET add[i \in 0..Len(q)] == IF i = 0 THEN 0 ELSE q[i] + add[i - 1] IN add[Len(q)]
KeepTwo(q) == IF Len(q) > 2 THEN Tail(q) ELSE q
Sampled(r, t) ==
  LET samples == Append(r.samples, t)
      streak == [r EXCEPT !.streak = IF @ < 2 * Block THEN @ + 1 ELSE @]
      averages == KeepTwo(Append(r.averages, Sum(samples)))
  IN IF Len(samples) < Block THEN [Go(streak, 1) EXCEPT !.samples = samples]
     ELSE IF Len(averages) = 2 /\ averages[1] = averages[2]
     THEN [Go(streak, 1 + Program[run.pc][2]) EXCEPT !.points = Append(@, [k |-> r.k, streak |-> streak.streak])]
     ELSE [Go(streak, 1) EXCEPT !.samples = <<>>, !.averages = averages]
OffTarget(r) == [Go(r, 1) EXCEPT !.samples = <<>>, !.averages = <<>>, !.streak = 0]
MeasureCurrent ==
  /\ At("settle")
  /\ \/ \E t \in {0, 1} : Query(Sampled(run, t))
     \/ Query(OffTarget(run))
     \/ /\ Calls /\ Quiet /\ ~bench.err
        /\ bench' = Send(bench, "relayOff") /\ run' = Throw(run) /\ UNCHANGED left
SettlingTimesOut == Running /\ run.s = "curve" /\ At("temperature") /\ run.pc > 9 /\ ~run.stop /\ Then(Throw(run))

BodyEnds == Running /\ run.pc > Len(Program) /\ Then(Return(run))

(* finally: each block on its own, left at its first call that throws.     *)
NextBlock(r) == [r EXCEPT !.block = @ + 1, !.pc = 1]
InCleanup == run.phase = "cleanup" /\ run.block <= Len(Cleanup[run.s])
Wanted == Cleanup[run.s][run.block].if = "open" => run.open
CleanupSkips == InCleanup /\ ~Wanted /\ Then(NextBlock(run))
CleanupWrite ==
  /\ InCleanup /\ Wanted /\ ~run.stop /\ At("write")
  /\ bench' = Send(bench, Program[run.pc][2])
  /\ run' = Go(run, 1) /\ UNCHANGED left
CleanupChecks == InCleanup /\ Wanted /\ ~run.stop /\ At("expect") /\ Quiet
                 /\ bench' = [bench EXCEPT !.err = FALSE] /\ run' = NextBlock(run) /\ UNCHANGED left
CleanupThrows ==
  /\ InCleanup /\ Wanted /\ run.pc <= Len(Program)
  /\ \/ run.stop /\ Then(NextBlock(run))
     \/ /\ ~run.stop /\ left.faults > 0
        /\ run' = [NextBlock(run) EXCEPT !.lost = @ \union {Program[run.pc][2]}]
        /\ left' = [left EXCEPT !.faults = @ - 1] /\ UNCHANGED bench
CleanupBlockEnds == InCleanup /\ Wanted /\ run.pc > Len(Program) /\ Then(NextBlock(run))
Ends == run.phase = "cleanup" /\ run.block > Len(Cleanup[run.s]) /\ Then([run EXCEPT !.phase = "done"])

-----------------------------------------------------------------------------
Init ==
  /\ bench = Bench0 /\ left = [runs |-> Runs, faults |-> Faults]
  /\ run = [Fresh("ask") EXCEPT !.phase = "done", !.tried = FALSE]

HostCall == \/ Write \/ Wait \/ CheckCancelled \/ AskSupply \/ ExpectTransaction \/ ExpectCount \/ Confirm
            \/ AbortUnfinished \/ ReadMeter \/ OperatorInput \/ LoadSwapped \/ Answer
            \/ MeasureTemperature \/ MeasureCurrent \/ SettlingTimesOut
Finally == \/ CleanupSkips \/ CleanupWrite \/ CleanupChecks \/ CleanupThrows \/ CleanupBlockEnds \/ Ends
Next == \/ Firmware \/ Cancel \/ CallRefused \/ CallFails \/ HostCall \/ Mark \/ NextPoint \/ NewTarget
        \/ BodyEnds \/ Finally \/ \E s \in Scripts : Start(s)
Spec == Init /\ [][Next]_vars

-----------------------------------------------------------------------------
(* A calibration that is committed is true: its points were captured by    *)
(* one run, each over a level that did not change during the capture and   *)
(* is the one the meter had read, and they increase.  (The script waits    *)
(* for each capture, empties the table it stages and aborts what it finds  *)
(* unfinished.)                                                            *)
SavedTableTrue ==
  /\ \A i \in DOMAIN bench.saved : bench.saved[i].raw = bench.saved[i].ref
  /\ \A i, j \in DOMAIN bench.saved :
       /\ bench.saved[i].n = bench.saved[j].n
       /\ i < j => bench.saved[i].ref < bench.saved[j].ref

Failed(c) == c \in run.lost \/ (run.s \in {"accuracy", "sweep"} /\ run.lost # {})

(* Whatever fails, unless the task is cancelled a script ends with every   *)
(* output it switches off, except one whose own off command failed: the    *)
(* cleanup blocks are independent.  The two accuracy scripts switch both   *)
(* off in one block, where the first failure keeps the relay on.  And the  *)
(* operator replaces a resistor only while the source is off.              *)
OffWhenTouched ==
  /\ (run.phase = "done" /\ run.tried /\ ~run.stop /\ Quiet) =>
       /\ run.s \in {"voltage", "current", "accuracy", "sweep"} /\ ~Failed("srcOff") => ~bench.out
       /\ run.s \notin {"dump", "watch"} /\ ~Failed("relayOff") => ~bench.relay
       /\ run.s = "curve" /\ ~Failed("loadOff") => ~bench.load
  /\ (run.phase = "body" /\ At("swap")) => ~bench.out

(* A point of the curve is the mean of two blocks of readings in a row,    *)
(* all at its own target and within its tolerance.                         *)
SettledPointContinuous == \A i \in DOMAIN run.points : run.points[i].streak = 2 * Block
=============================================================================
