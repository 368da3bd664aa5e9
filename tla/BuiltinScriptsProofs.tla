------------------------ MODULE BuiltinScriptsProofs ------------------------
(***************************************************************************)
(* What the builtin scripts promise, for every number of points, runs,     *)
(* faults and samples: the inductive invariant of BuiltinScripts.          *)
(***************************************************************************)
EXTENDS BuiltinScripts, SequenceTheorems, TLAPS

Names == {"voltage", "current", "accuracy", "sweep", "curve", "dump",
          "read", "ask", "sample", "watch", "operator", "melody"}
Commands == PsuCommands \union {"srcOn", "srcOff", "srcZero", "srcPoint", "loadOn", "loadOff", "loadSet"}
Offs == {"srcOff", "relayOff", "loadOff"}
Positive == Nat \ {0}
Orders == [c : PsuCommands, k : Int, n : Int, from : Int, ref : Int]
Captured == [ref : Int, raw : Int, n : Int]
CurvePoints == [k : Int, streak : Int]
Sums == {Sum(q) : q \in Seq({0, 1})}

Benches ==
  [out : BOOLEAN, level : Nat, relay : BOOLEAN, load : BOOLEAN, fifo : Seq(Orders),
   tx : {"idle", "open"}, err : BOOLEAN, staged : Seq(Captured), saved : Seq(Captured)]
ScriptRuns ==
  [s : Names, n : Int, phase : {"body", "cutoff", "cleanup", "done"}, pc : Positive, block : Positive,
   k : Positive, open : BOOLEAN, tried : BOOLEAN, stop : BOOLEAN, lost : SUBSET (Commands \union {"idle"}),
   prev : Int, samples : Seq({0, 1}), averages : Seq(Sums), streak : Int, points : Seq(CurvePoints)]
ScriptTypes == bench \in Benches /\ run \in ScriptRuns /\ left \in [runs : Int, faults : Int]

\* The next call is one of the program, or the program is at its end.
PcInside ==
  /\ run.phase # "done" => run.pc <= Len(Program) + 1
  /\ run.phase = "cleanup" => run.tried
  /\ run.phase = "done" /\ run.tried => run.block > Len(Cleanup[run.s])

\* A table that may be committed, and one captured by this run.
TrueTable(t) ==
  /\ \A i \in DOMAIN t : t[i].raw = t[i].ref
  /\ \A i, j \in DOMAIN t : t[i].n = t[j].n /\ (i < j => t[i].ref < t[j].ref)
OwnTable(t) == \A i \in DOMAIN t : t[i].raw = t[i].ref /\ t[i].n = run.n

\* A commit is the first of the commands that wait, and the table is true.
CommitIsTrue == \A i \in DOMAIN bench.fifo : bench.fifo[i].c = "commit" => i = 1 /\ TrueTable(bench.staged)

\* The capture of this point is all that waits, of a level that stays.
CaptureWaits ==
  /\ Len(bench.fifo) = 1
  /\ bench.fifo[1].c = "capture" /\ bench.fifo[1].k = run.k /\ bench.fifo[1].n = run.n
  /\ bench.fifo[1].ref = Level(bench) /\ bench.fifo[1].from \in {-1, Level(bench)}

\* From the emptied table to the commit of a voltage calibration: point i was
\* captured at level i - 1.
VoltageTable == OwnTable(bench.staged) /\ \A i \in DOMAIN bench.staged : bench.staged[i].ref = i - 1
VoltageFits == run.s = "voltage" /\ run.phase = "body" =>
  /\ run.pc \in 12..23 => VoltageTable
  /\ run.pc \in (12..19) \union (21..23) => Quiet
  /\ run.pc \in {19, 20} => Level(bench) = run.k - 1
  /\ run.pc = 20 => Quiet \/ CaptureWaits

\* From the unfinished transaction that was aborted to the commit of a current
\* calibration: what is staged lies below what the meter read last.
CurrentTable == /\ OwnTable(bench.staged) /\ TrueTable(bench.staged)
                /\ \A i \in DOMAIN bench.staged : bench.staged[i].ref <= run.prev
BelowPrev == Level(bench) = run.prev /\ \A i \in DOMAIN bench.staged : bench.staged[i].ref < run.prev
OnlyRelay == bench.tx = "idle" /\ \A i \in DOMAIN bench.fifo : bench.fifo[i].c = "relayOn"
StartWaits == /\ ~Quiet /\ bench.tx = "idle" /\ bench.fifo[Len(bench.fifo)].c = "startCurrent"
              /\ \A i \in DOMAIN bench.fifo : i < Len(bench.fifo) => bench.fifo[i].c = "relayOn"
CurrentFits == run.s = "current" /\ run.phase = "body" =>
  /\ run.pc \in {6, 7} => OnlyRelay
  /\ run.pc \in {8, 9} => StartWaits \/ (Quiet /\ bench.staged = <<>>)
  /\ run.pc \in (10..16) \union (18..19) => Quiet
  /\ run.pc = 17 => Quiet \/ CaptureWaits
  /\ run.pc \in 10..19 => CurrentTable
  /\ run.pc = 16 \/ (run.pc = 17 /\ ~Quiet) => BelowPrev

\* How many readings in a row the blocks hold.
StreakFits ==
  /\ Len(run.samples) < Block /\ Len(run.averages) <= 2 /\ run.streak <= 2 * Block
  /\ Len(run.averages) = 0 => run.streak >= Len(run.samples)
  /\ Len(run.averages) = 1 => run.streak >= Block + Len(run.samples)
  /\ Len(run.averages) = 2 => run.streak = 2 * Block

\* What the cleanup has come past, and what it leaves once it has.
Given(c) == \E b \in DOMAIN Cleanup[run.s] : \E i \in DOMAIN Cleanup[run.s][b].do :
  Cleanup[run.s][b].do[i] = W(c) /\ (b < run.block \/ (b = run.block /\ i < run.pc))
RelayEndsOff ==
  /\ bench.relay => \E j \in DOMAIN bench.fifo : bench.fifo[j].c = "relayOff"
  /\ \A i \in DOMAIN bench.fifo : bench.fifo[i].c = "relayOn" =>
       \E j \in DOMAIN bench.fifo : i < j /\ bench.fifo[j].c = "relayOff"
SwitchedOff(c) ==
  /\ c = "srcOff" => ~bench.out
  /\ c = "relayOff" => RelayEndsOff
  /\ c = "loadOff" => ~bench.load
CleanupFits == run.phase \in {"cleanup", "done"} /\ run.tried /\ ~run.stop =>
  \A c \in Offs : Given(c) /\ ~Failed(c) => SwitchedOff(c)
SwapFits == run.s = "sweep" /\ run.phase = "body" /\ run.pc = 20 => ~bench.out

ScriptsInv ==
  /\ ScriptTypes /\ PcInside
  /\ SavedTableTrue /\ CommitIsTrue /\ VoltageFits /\ CurrentFits
  /\ StreakFits /\ SettledPointContinuous /\ CleanupFits /\ SwapFits

-----------------------------------------------------------------------------
(* The programs, call by call.                                             *)
VoltageText ==
  <<W("srcOff"), Ask, <<"skipIdle", 2>>, W("abort"), Idle,
    W("relayOn"), W("startVoltage"), <<"opened">>, <<"expect", "open">>,
    W("clear"), <<"count", 0>>, W("srcZero"), W("srcOn"), Sleep,
    Poll, W("srcPoint"), Sleep, Meter, W("capture"), Ask, Next1(6),
    <<"count", Points>>, W("commit"), Idle, <<"closed">>>>
CurrentText ==
  <<W("srcOff"), Ask, <<"skipIdle", 2>>, W("abort"), Idle,
    W("relayOn"), W("startCurrent"), <<"opened">>, <<"expect", "open">>, W("srcOn"), Sleep,
    Poll, <<"operator", 6>>, Sleep, Meter, W("capture"), <<"confirm">>, Next1(6),
    W("commit"), Idle, <<"closed">>>>
SweepText ==
  <<W("srcOff"), Ask, W("relayOn"), W("srcZero"), W("srcOn"), Sleep,
    W("srcZero"), Poll, Ask, Sleep, Poll, W("srcPoint"), Sleep, Meter, Ask, W("srcZero"), Next1(6),
    W("srcZero"), W("srcOff"), <<"swap">>, W("srcOn"), Sleep, <<"again">>,
    Poll, W("srcPoint"), Sleep, Meter, Ask, W("srcZero"), Next1(6)>>
OperatorText ==
  <<Sleep, <<"try">>, W("relayOff"), W("relayOn"), Sleep, Poll, Ask, Sleep, Next1(3)>>

LEMMA VoltageBody == Len(Body["voltage"]) = 25 /\ \A i \in 1..25 : Body["voltage"][i] = VoltageText[i]
  BY DEF Body, VoltagePrepare, VoltagePoints, VoltageCommit, VoltageText, W, Ask, Idle, Sleep, Poll, Meter, Next1
LEMMA CurrentBody == Len(Body["current"]) = 21 /\ \A i \in 1..21 : Body["current"][i] = CurrentText[i]
  BY DEF Body, CurrentPrepare, CurrentPoints, ConfirmPoint, CurrentCommit, CurrentText, W, Ask, Idle, Sleep, Poll, Meter, Next1
LEMMA SweepBodyText == Len(Body["sweep"]) = 30 /\ \A i \in 1..30 : Body["sweep"][i] = SweepText[i]
  BY DEF Body, SweepBody, ZeroOffsets, MeasureSweep, SweepText, W, Ask, Idle, Sleep, Poll, Meter, Next1
LEMMA OperatorBodyText == Len(Body["operator"]) = 9 /\ \A i \in 1..9 : Body["operator"][i] = OperatorText[i]
  BY DEF Body, OperatorBody, SampleBody, OperatorText, W, Ask, Idle, Sleep, Poll, Meter, Next1

\* Where a call of a program goes on, and what its writes are.
Offsets == {"next", "jump", "skipIdle", "operator", "settle"}
CallFits(s, i) ==
  LET call == Body[s][i] IN
    /\ call[1] \in {"next", "jump"} => call[2] \in 0..(i - 1)
    /\ call[1] \in {"skipIdle", "operator", "settle"} => call[2] \in Nat /\ i + call[2] <= Len(Body[s])
    /\ call[1] = "write" => call[2] \in Commands
    /\ call[1] = "write" /\ call[2] = "commit" => (s = "voltage" /\ i = 23) \/ (s = "current" /\ i = 19)
    /\ s = "sweep" /\ call[1] = "swap" => i = 20
    /\ s # "sweep" => call[1] # "swap"
BodyFits(s) == Len(Body[s]) \in Nat /\ \A i \in 1..Len(Body[s]) : CallFits(s, i)

LEMMA BodiesFit == \A s \in Names : BodyFits(s)
  <1>1. BodyFits("voltage")
    <2>1. \A i \in 1..13 : CallFits("voltage", i)
      BY VoltageBody DEF CallFits, VoltageText, W, Ask, Idle, Sleep, Poll, Meter, Next1, Commands, PsuCommands
    <2>2. \A i \in 14..25 : CallFits("voltage", i)
      BY VoltageBody DEF CallFits, VoltageText, W, Ask, Idle, Sleep, Poll, Meter, Next1, Commands, PsuCommands
    <2> QED BY <2>1, <2>2, VoltageBody DEF BodyFits
  <1>2. BodyFits("current")
    <2>1. \A i \in 1..11 : CallFits("current", i)
      BY CurrentBody DEF CallFits, CurrentText, W, Ask, Idle, Sleep, Poll, Meter, Next1, Commands, PsuCommands
    <2>2. \A i \in 12..21 : CallFits("current", i)
      BY CurrentBody DEF CallFits, CurrentText, W, Ask, Idle, Sleep, Poll, Meter, Next1, Commands, PsuCommands
    <2> QED BY <2>1, <2>2, CurrentBody DEF BodyFits
  <1>3. BodyFits("sweep")
    <2>1. \A i \in 1..15 : CallFits("sweep", i)
      BY SweepBodyText DEF CallFits, SweepText, W, Ask, Sleep, Poll, Meter, Commands, PsuCommands
    <2>2. \A i \in 16..30 : CallFits("sweep", i)
      BY SweepBodyText DEF CallFits, SweepText, W, Ask, Sleep, Poll, Meter, Next1, Commands, PsuCommands
    <2> QED BY <2>1, <2>2, SweepBodyText DEF BodyFits
  <1>4. BodyFits("operator")
    BY OperatorBodyText DEF BodyFits, CallFits, OperatorText, W, Ask, Idle, Sleep, Poll, Meter, Next1, Commands, PsuCommands
  <1>5. BodyFits("accuracy")
    BY DEF BodyFits, CallFits, Body, AccuracyBody, W, Ask, Idle, Sleep, Poll, Meter, Next1, Commands, PsuCommands
  <1>6. BodyFits("curve")
    BY DEF BodyFits, CallFits, Body, CurveBody, W, Load, Sleep, Poll, Next1, Commands, PsuCommands
  <1>7. BodyFits("dump") /\ BodyFits("watch")
    BY DEF BodyFits, CallFits, Body, DumpBody, WatchBody, W, Ask, Idle, Sleep, Poll, Next1, Commands, PsuCommands
  <1>8. BodyFits("read") /\ BodyFits("ask")
    BY DEF BodyFits, CallFits, Body, ReadBody, AskBody, W, Ask, Sleep, Commands, PsuCommands
  <1>9. BodyFits("sample") /\ BodyFits("melody")
    BY DEF BodyFits, CallFits, Body, SampleBody, MelodyBody, W, Ask, Sleep, Poll, Next1, Commands, PsuCommands
  <1> QED BY <1>1, <1>2, <1>3, <1>4, <1>5, <1>6, <1>7, <1>8, <1>9 DEF Names

\* What a cleanup block does, and that what it switches off is not skipped.
BlockFits(s, b) ==
  LET calls == Cleanup[s][b].do IN
    /\ Len(calls) \in Nat \ {0} /\ DOMAIN calls = 1..Len(calls)
    /\ \A i \in 1..Len(calls) :
         /\ calls[i] = Idle => Cleanup[s][b].if = "open"
         /\ calls[i] = Idle \/ \E c \in Offs \union {"abort", "srcZero"} : calls[i] = W(c)
         /\ (\E c \in Offs : calls[i] = W(c)) =>
              Cleanup[s][b].if = "always" /\ (Len(calls) = 1 \/ s \in {"accuracy", "sweep"})
CleanupsFit(s) == Len(Cleanup[s]) \in Nat /\ DOMAIN Cleanup[s] = 1..Len(Cleanup[s]) /\ \A b \in 1..Len(Cleanup[s]) : BlockFits(s, b)

LEMMA CleanupOf ==
  /\ Cleanup["voltage"] = VoltageCleanup /\ Cleanup["current"] = CurrentCleanup
  /\ Cleanup["accuracy"] = SweepCleanup /\ Cleanup["sweep"] = SweepCleanup
  /\ Cleanup["curve"] = CurveCleanup
  /\ Cleanup["dump"] = <<>> /\ Cleanup["watch"] = <<>>
  /\ \A s \in {"read", "ask", "sample", "operator", "melody"} : Cleanup[s] = RelayCleanup
  <1>1. DOMAIN Body = Names
    BY DEF Body, Names
  <1> QED BY <1>1 DEF Cleanup, Names

LEMMA NotOff == /\ \A c \in Offs : W("abort") # W(c) /\ Idle # W(c)
                /\ W("abort") # Idle
  BY DEF Offs, W, Idle
LEMMA AbortCalls == /\ Len(AbortBlock.do) = 2 /\ DOMAIN AbortBlock.do = 1..2 /\ AbortBlock.do[1] = W("abort") /\ AbortBlock.do[2] = Idle
                    /\ AbortBlock.if = "open"
  BY DEF AbortBlock
LEMMA CleanupFit == \A s \in Names : CleanupsFit(s)
  <1>1. CleanupsFit("voltage")
    <2>1. BlockFits("voltage", 1)
      BY CleanupOf, AbortCalls, NotOff DEF BlockFits, VoltageCleanup
    <2>2. BlockFits("voltage", 2)
      BY CleanupOf DEF BlockFits, VoltageCleanup, AbortBlock, Alone, W, Idle, Offs
    <2>3. BlockFits("voltage", 3)
      BY CleanupOf DEF BlockFits, VoltageCleanup, AbortBlock, Alone, W, Idle, Offs
    <2>4. BlockFits("voltage", 4)
      BY CleanupOf DEF BlockFits, VoltageCleanup, AbortBlock, Alone, W, Idle, Offs
    <2>5. Len(VoltageCleanup) = 4 /\ DOMAIN VoltageCleanup = 1..4
      BY DEF VoltageCleanup
    <2> QED BY CleanupOf, <2>1, <2>2, <2>3, <2>4, <2>5 DEF CleanupsFit
  <1>2. CleanupsFit("current")
    BY CleanupOf DEF CleanupsFit, BlockFits, CurrentCleanup, AbortBlock, Alone, W, Idle, Offs
  <1>3. ASSUME NEW s \in {"accuracy", "sweep"} PROVE CleanupsFit(s)
    <2>0. Cleanup[s] = SweepCleanup
      BY CleanupOf
    <2>3. BlockFits(s, 1)
      BY <2>0 DEF BlockFits, SweepCleanup, Alone, W, Idle, Offs
    <2>4. BlockFits(s, 2)
      BY <2>0 DEF BlockFits, SweepCleanup, W, Idle, Offs
    <2>1. BlockFits(s, 1) /\ BlockFits(s, 2)
      BY <2>3, <2>4
    <2>2. Len(SweepCleanup) = 2 /\ DOMAIN SweepCleanup = 1..2
      BY DEF SweepCleanup
    <2> QED BY <2>0, <2>1, <2>2 DEF CleanupsFit
  <1>4. CleanupsFit("curve")
    BY CleanupOf DEF CleanupsFit, BlockFits, CurveCleanup, Alone, W, Idle, Offs
  <1>5. CleanupsFit("dump") /\ CleanupsFit("watch")
    BY CleanupOf DEF CleanupsFit
  <1>6. \A s \in {"read", "ask", "sample", "operator", "melody"} : CleanupsFit(s)
    BY CleanupOf DEF CleanupsFit, BlockFits, RelayCleanup, Alone, W, Idle, Offs
  <1> QED BY <1>1, <1>2, <1>3, <1>4, <1>5, <1>6 DEF Names

-----------------------------------------------------------------------------
(* How the operators of a run and of the bench change their records.       *)
LEMMA ProgramIs ==
  ASSUME ScriptTypes
  PROVE  /\ run.phase = "body" => Program = Body[run.s]
         /\ run.phase = "cutoff" => Program = FinishAtTemperatureLimit
         /\ InCleanup => Program = Cleanup[run.s][run.block].do
  BY DEF Program, InCleanup, ScriptTypes, ScriptRuns

\* What a move of a script leaves as it is.
SameData(q, r) ==
  /\ q.s = r.s /\ q.n = r.n /\ q.tried = r.tried /\ q.stop = r.stop /\ q.lost = r.lost /\ q.samples = r.samples
  /\ q.averages = r.averages /\ q.streak = r.streak /\ q.points = r.points
SamePoint(q, r) == q.k = r.k /\ q.prev = r.prev

LEMMA GoMoves ==
  ASSUME NEW r \in ScriptRuns, NEW n \in Int, r.pc + n \in Positive
  PROVE  /\ Go(r, n) \in ScriptRuns /\ SameData(Go(r, n), r) /\ SamePoint(Go(r, n), r)
         /\ Go(r, n).pc = r.pc + n /\ Go(r, n).phase = r.phase /\ Go(r, n).block = r.block
  BY DEF Go, ScriptRuns, SameData, SamePoint

LEMMA ReturnMoves ==
  ASSUME NEW r \in ScriptRuns
  PROVE  /\ Return(r) \in ScriptRuns /\ SameData(Return(r), r) /\ SamePoint(Return(r), r)
         /\ Return(r).pc = 1 /\ Return(r).block = 1
         /\ Return(r).phase = (IF r.tried THEN "cleanup" ELSE "done")
         /\ Throw(r) = Return(r)
  <1> PICK p : p = (IF r.tried THEN "cleanup" ELSE "done")
    OBVIOUS
  <1>1. Return(r) = [r EXCEPT !.phase = p, !.pc = 1, !.block = 1]
    BY DEF Return
  <1>2. p \in {"cleanup", "done"} /\ 1 \in Positive
    BY DEF Positive
  <1>3. Return(r) \in ScriptRuns
    BY <1>1, <1>2 DEF ScriptRuns
  <1>4. Return(r).phase = p /\ Return(r).pc = 1 /\ Return(r).block = 1
    BY <1>1 DEF ScriptRuns
  <1>5. SameData(Return(r), r) /\ SamePoint(Return(r), r)
    BY <1>1 DEF ScriptRuns, SameData, SamePoint
  <1> QED BY <1>3, <1>4, <1>5 DEF Throw

LEMMA NextBlockMoves ==
  ASSUME NEW r \in ScriptRuns
  PROVE  /\ NextBlock(r) \in ScriptRuns /\ SameData(NextBlock(r), r)
         /\ NextBlock(r).pc = 1 /\ NextBlock(r).block = r.block + 1 /\ NextBlock(r).phase = r.phase
  <1>1. r.block + 1 \in Positive /\ 1 \in Positive
    BY DEF ScriptRuns, Positive
  <1>2. NextBlock(r) \in ScriptRuns
    BY <1>1 DEF NextBlock, ScriptRuns
  <1>3. SameData(NextBlock(r), r) /\ NextBlock(r).pc = 1 /\ NextBlock(r).block = r.block + 1 /\ NextBlock(r).phase = r.phase
    BY DEF NextBlock, ScriptRuns, SameData
  <1> QED BY <1>2, <1>3

LEMMA SendTypes ==
  ASSUME ScriptTypes, NEW b \in Benches, NEW c \in Commands
  PROVE  /\ Send(b, c) \in Benches
         /\ Send(b, c).tx = b.tx /\ Send(b, c).staged = b.staged /\ Send(b, c).saved = b.saved
         /\ Send(b, c).err = b.err /\ Send(b, c).relay = b.relay
         /\ Send(b, c).out = (IF c = "srcOn" THEN TRUE ELSE IF c = "srcOff" THEN FALSE ELSE b.out)
         /\ Send(b, c).load = (IF c = "loadOn" THEN TRUE ELSE IF c = "loadOff" THEN FALSE ELSE b.load)
         /\ c \notin PsuCommands => Send(b, c).fifo = b.fifo
         /\ c \in PsuCommands =>
              Send(b, c).fifo = Append(b.fifo, [c |-> c, k |-> run.k, n |-> run.n, from |-> -1, ref |-> Level(b)])
         /\ c \in PsuCommands => Level(Send(b, c)) = Level(b)
  <1> USE DEF ScriptTypes
  <1>1. Level(b) \in Int
    BY DEF Level, Benches
  <1>2. run.k \in Int /\ run.n \in Int
    BY DEF ScriptRuns, Positive
  <1>3. run.k - 1 \in Nat /\ run.k \in Nat
    BY DEF ScriptRuns, Positive
  <1>4. CASE c \in PsuCommands
    <2> PICK e : e = [c |-> c, k |-> run.k, n |-> run.n, from |-> -1, ref |-> Level(b)]
      OBVIOUS
    <2>0. e \in Orders
      BY <1>1, <1>2, <1>4 DEF Orders
    <2>1. Send(b, c) = [b EXCEPT !.fifo = Append(@, e)]
      BY <1>4 DEF Send, PsuCommands
    <2>2. Append(b.fifo, e) \in Seq(Orders)
      BY <2>0 DEF Benches
    <2> QED BY <1>4, <2>1, <2>2 DEF Benches, Level, PsuCommands
  <1>5. CASE c \notin PsuCommands
    <2>1. c \in {"srcOn", "srcOff", "srcZero", "srcPoint", "loadOn", "loadOff", "loadSet"}
      BY <1>5 DEF Commands
    <2> QED BY <1>3, <1>5, <2>1 DEF Send, Benches, PsuCommands
  <1> QED BY <1>4, <1>5

-----------------------------------------------------------------------------
(* Types, and that a program is never left but at its end.                 *)
LEMMA NewProgram ==
  ASSUME run' \in ScriptRuns
  PROVE  /\ run'.phase = "body" => Program' = Body[run'.s]
         /\ run'.phase = "cutoff" => Program' = FinishAtTemperatureLimit
         /\ InCleanup' => Program' = Cleanup[run'.s][run'.block].do
         /\ run'.phase = "cleanup" /\ ~InCleanup' => Program' = <<>>
  BY DEF Program, InCleanup, ScriptRuns

LEMMA CutoffText == /\ Len(FinishAtTemperatureLimit) = 2
                    /\ FinishAtTemperatureLimit[1] = W("relayOff") /\ FinishAtTemperatureLimit[2] = W("loadOff")
  BY DEF FinishAtTemperatureLimit

LEMMA Lengths == ASSUME ScriptTypes PROVE /\ run.phase # "done" => Len(Program) \in Nat
                                          /\ run.phase = "body" => Len(Program) = Len(Body[run.s])
  <1>1. run.s \in Names
    BY DEF ScriptTypes, ScriptRuns
  <1>2. CASE run.phase = "body"
    BY <1>1, <1>2, ProgramIs, BodiesFit DEF BodyFits
  <1>3. CASE run.phase = "cutoff"
    BY <1>3, ProgramIs, CutoffText
  <1>4. CASE InCleanup
    <2>1. run.block \in 1..Len(Cleanup[run.s])
      BY <1>1, <1>4, CleanupFit DEF InCleanup, ScriptTypes, ScriptRuns, Positive, CleanupsFit
    <2> QED BY <1>1, <1>4, <2>1, ProgramIs, CleanupFit DEF CleanupsFit, BlockFits, InCleanup
  <1>5. CASE run.phase = "cleanup" /\ ~InCleanup
    BY <1>5 DEF Program, InCleanup
  <1> QED BY <1>2, <1>3, <1>4, <1>5 DEF ScriptTypes, ScriptRuns

\* The call a running script is at.
LEMMA CallIs ==
  ASSUME ScriptTypes, PcInside, Running, NEW op, At(op)
  PROVE  /\ run.pc \in 1..Len(Program) /\ Len(Program) \in Nat /\ run.pc + 1 \in Positive
         /\ run.phase = "body" => Program[run.pc] = Body[run.s][run.pc] /\ CallFits(run.s, run.pc)
         /\ run.phase = "cutoff" => Program[run.pc] \in {W("relayOff"), W("loadOff")}
  <1>1. Len(Program) \in Nat
    BY Lengths DEF Running
  <1>2. run.pc \in 1..Len(Program) /\ run.pc + 1 \in Positive
    BY <1>1 DEF At, ScriptTypes, ScriptRuns, Positive
  <1>3. run.phase = "body" => Program[run.pc] = Body[run.s][run.pc] /\ CallFits(run.s, run.pc)
    BY <1>2, ProgramIs, BodiesFit DEF BodyFits, ScriptTypes, ScriptRuns
  <1>4. run.phase = "cutoff" => Program[run.pc] \in {W("relayOff"), W("loadOff")}
    <2> SUFFICES ASSUME run.phase = "cutoff" PROVE Program[run.pc] \in {W("relayOff"), W("loadOff")}
      OBVIOUS
    <2>1. Program = FinishAtTemperatureLimit
      BY ProgramIs
    <2>2. run.pc = 1 \/ run.pc = 2
      BY <1>2, <2>1, CutoffText
    <2> QED BY <2>1, <2>2, CutoffText
  <1> QED BY <1>1, <1>2, <1>3, <1>4

LEMMA OnlyWritesAtCutoff ==
  ASSUME ScriptTypes, PcInside, Running, NEW op, op # "write", At(op) PROVE run.phase = "body"
  <1>1. run.phase = "cutoff" => Program[run.pc] \in {W("relayOff"), W("loadOff")}
    BY CallIs
  <1> QED BY <1>1 DEF At, W, Running

LEMMA StaysInside ==
  ASSUME ScriptTypes, Running, run' \in ScriptRuns, run'.s = run.s, run'.phase = run.phase,
         run'.pc <= Len(Program) + 1
  PROVE  PcInside'
  <1>1. Program' = Program
    BY ProgramIs, NewProgram DEF Running
  <1> QED BY <1>1 DEF PcInside, Running

\* Where a step of a body, or of what it does at the temperature limit, ends.
Onward == run'.phase = run.phase \/ run'.phase = "cutoff"
Leaves == /\ run'.phase \in {"cleanup", "done"} /\ run'.pc = 1 /\ run'.block = 1
          /\ run'.phase = "done" => ~run'.tried
Moves == /\ ScriptTypes' /\ PcInside' /\ (Onward \/ Leaves)
         /\ run'.s = run.s /\ run'.n = run.n /\ run'.stop = run.stop /\ run'.lost = run.lost

LEMMA ReturnInside ==
  ASSUME ScriptTypes, run' = Return(run)
  PROVE  run' \in ScriptRuns /\ PcInside' /\ Leaves /\ SameData(run', run)
  <1>1. run' \in ScriptRuns /\ SameData(run', run) /\ run'.pc = 1 /\ run'.block = 1
        /\ run'.phase = (IF run.tried THEN "cleanup" ELSE "done")
    BY ReturnMoves DEF ScriptTypes
  <1>2. Leaves
    BY <1>1 DEF Leaves, SameData
  <1>3. run'.phase = "cleanup" => Len(Program') \in Nat
    <2>1. run'.s \in Names
      BY <1>1 DEF ScriptRuns
    <2>2. CASE InCleanup'
      <3>1. run'.block \in 1..Len(Cleanup[run'.s])
        BY <1>1, <2>1, <2>2, CleanupFit DEF InCleanup, CleanupsFit
      <3> QED BY <1>1, <2>1, <2>2, <3>1, NewProgram, CleanupFit DEF CleanupsFit, BlockFits
    <2> QED BY <1>1, <2>2, NewProgram
  <1>4. PcInside'
    BY <1>1, <1>2, <1>3 DEF PcInside, Leaves, SameData
  <1> QED BY <1>1, <1>2, <1>4

LEMMA GoInside ==
  ASSUME ScriptTypes, Running, NEW n \in Int, run.pc + n \in Positive, run.pc + n <= Len(Program) + 1,
         run' \in ScriptRuns, run'.s = run.s, run'.phase = run.phase, run'.pc = run.pc + n
  PROVE  PcInside' /\ Onward
  BY StaysInside DEF Onward

\* The next call of the same program.
LEMMA AdvanceInside ==
  ASSUME ScriptTypes, PcInside, Running, NEW op, At(op), run' = Go(run, 1)
  PROVE  run' \in ScriptRuns /\ PcInside' /\ Onward /\ SameData(run', run) /\ run'.pc = run.pc + 1 /\ SamePoint(run', run)
  <1>1. run.pc + 1 \in Positive /\ run.pc + 1 <= Len(Program) + 1
    BY CallIs DEF ScriptTypes, ScriptRuns, Positive
  <1>2. run' \in ScriptRuns /\ SameData(run', run) /\ SamePoint(run', run) /\ run'.pc = run.pc + 1 /\ run'.phase = run.phase
    BY <1>1, GoMoves DEF ScriptTypes
  <1> QED BY <1>1, <1>2, GoInside DEF SameData

LEMMA MovesOf ==
  ASSUME ScriptTypes, run' \in ScriptRuns, PcInside', Onward \/ Leaves, SameData(run', run),
         bench' \in Benches, left' \in [runs : Int, faults : Int]
  PROVE  Moves
  BY DEF Moves, ScriptTypes, SameData

LEMMA Jumped ==
  ASSUME ScriptTypes, PcInside, Running, NEW op, At(op), NEW n \in Int, run.pc + n \in Positive,
         run.pc + n <= Len(Program) + 1, run' = Go(run, n), bench' \in Benches, left' = left
  PROVE  Moves
  <1>1. run' \in ScriptRuns /\ SameData(run', run) /\ run'.pc = run.pc + n /\ run'.phase = run.phase
    BY GoMoves DEF ScriptTypes
  <1>2. PcInside' /\ Onward
    BY <1>1, GoInside DEF SameData
  <1> QED BY <1>1, <1>2, MovesOf DEF ScriptTypes

LEMMA Advanced ==
  ASSUME ScriptTypes, PcInside, Running, NEW op, At(op), run' = Go(run, 1), bench' \in Benches, left' = left
  PROVE  Moves
  BY AdvanceInside, MovesOf DEF ScriptTypes
LEMMA Returned ==
  ASSUME ScriptTypes, run' = Return(run), bench' \in Benches, left' \in [runs : Int, faults : Int]
  PROVE  Moves /\ Leaves
  BY ReturnInside, MovesOf

LEMMA CalmBench ==
  ASSUME ScriptTypes
  PROVE  /\ [bench EXCEPT !.err = FALSE] \in Benches
         /\ \A f \in {"out", "level", "relay", "load", "fifo", "tx", "staged", "saved"} :
              [bench EXCEPT !.err = FALSE][f] = bench[f]
  BY DEF ScriptTypes, Benches

LEMMA WriteFits ==
  ASSUME ScriptTypes, PcInside, Running, At("write")
  PROVE  /\ Program[run.pc][2] \in Commands
         /\ Program[run.pc][2] = "commit" =>
              run.phase = "body" /\ ((run.s = "voltage" /\ run.pc = 23) \/ (run.s = "current" /\ run.pc = 19))
  <1>1. CASE run.phase = "body"
    <2>1. Program[run.pc] = Body[run.s][run.pc] /\ CallFits(run.s, run.pc)
      BY <1>1, CallIs
    <2>2. Body[run.s][run.pc][1] = "write"
      BY <2>1 DEF At
    <2> QED BY <1>1, <2>1, <2>2 DEF CallFits
  <1>2. CASE run.phase = "cutoff"
    BY <1>2, CallIs DEF W, Commands, PsuCommands
  <1> QED BY <1>1, <1>2 DEF Running

\* What a call does to the bench: nothing, an answer that takes the error, a
\* command, or what the operator does.
Answered == bench' = [bench EXCEPT !.err = FALSE] /\ Quiet
Sends(c) == bench' = Send(bench, c)
Unmoved == bench' = bench \/ Answered
Written == At("write") /\ Sends(Program[run.pc][2])

LEMMA WrittenTypes == ASSUME ScriptTypes, PcInside, Running, Written PROVE bench' \in Benches
  BY WriteFits, SendTypes DEF Written, Sends, ScriptTypes

LEMMA QueryMoves ==
  ASSUME ScriptTypes, PcInside, NEW op, At(op), NEW r, Query(r), r \in {Go(run, 1), Throw(run)}
  PROVE  Moves /\ Answered /\ (run' = Go(run, 1) \/ run' = Return(run)) /\ Running
  <1>1. Running /\ Answered /\ left' = left /\ (run' = r \/ run' = Throw(run))
    BY DEF Query, Calls, Answered
  <1>2. bench' \in Benches
    BY <1>1, CalmBench DEF Answered
  <1>3. run' = Go(run, 1) \/ run' = Return(run)
    BY <1>1 DEF Throw
  <1> QED BY <1>1, <1>2, <1>3, Advanced, Returned DEF ScriptTypes

LEMMA CallRefusedMoves ==
  ASSUME ScriptTypes, PcInside, CallRefused
  PROVE  Moves /\ Leaves /\ bench' = bench
  BY Returned DEF CallRefused, Then, ScriptTypes, Throw
LEMMA CallFailsMoves ==
  ASSUME ScriptTypes, PcInside, CallFails
  PROVE  Moves /\ Leaves /\ Running /\ (bench' = bench \/ Written)
  <1>1. Running /\ run' = Return(run) /\ left' = [left EXCEPT !.faults = @ - 1] /\ (bench' = bench \/ Written)
    BY DEF CallFails, Calls, Throw, Written, Sends
  <1>2. left' \in [runs : Int, faults : Int]
    BY <1>1 DEF ScriptTypes
  <1>3. bench' \in Benches
    BY <1>1, WrittenTypes DEF ScriptTypes
  <1> QED BY <1>1, <1>2, <1>3, Returned
LEMMA WriteMoves ==
  ASSUME ScriptTypes, PcInside, Write
  PROVE  Moves /\ Running /\ Written /\ run' = Go(run, 1)
  <1>1. Running /\ Written /\ run' = Go(run, 1) /\ left' = left
    BY DEF Write, Calls, Written, Sends
  <1> QED BY <1>1, WrittenTypes, Advanced DEF Written
LEMMA WaitMoves ==
  ASSUME ScriptTypes, PcInside, Wait
  PROVE  Moves /\ Running /\ bench' = bench /\ run' = Go(run, 1)
  BY Advanced DEF Wait, Then, Calls, ScriptTypes
LEMMA CheckCancelledMoves ==
  ASSUME ScriptTypes, PcInside, CheckCancelled
  PROVE  Moves /\ Running /\ bench' = bench /\ (run' = Go(run, 1) \/ run' = Return(run))
  BY Advanced, Returned DEF CheckCancelled, Then, ScriptTypes

LEMMA AskMoves ==
  ASSUME ScriptTypes, PcInside, AskSupply \/ ExpectTransaction \/ ExpectCount \/ Confirm
  PROVE  Moves /\ Answered /\ (run' = Go(run, 1) \/ run' = Return(run)) /\ Running
  <1>1. PICK op \in HostCalls, r \in {Go(run, 1), Throw(run)} : At(op) /\ Query(r)
    <2>1. CASE AskSupply
      BY <2>1 DEF AskSupply, HostCalls
    <2>2. CASE ExpectTransaction
      BY <2>2 DEF ExpectTransaction, HostCalls
    <2>3. CASE ExpectCount
      BY <2>3 DEF ExpectCount, HostCalls
    <2>4. CASE Confirm
      BY <2>4 DEF Confirm, HostCalls
    <2> QED BY <2>1, <2>2, <2>3, <2>4
  <1> QED BY <1>1, QueryMoves

\* An answer after which the script leaves out some calls.
LEMMA SkipMoves ==
  ASSUME ScriptTypes, PcInside, AbortUnfinished
  PROVE  /\ Moves /\ Answered /\ Running /\ run.phase = "body" /\ At("skipIdle")
         /\ \/ run' = Return(run)
            \/ run' = Go(run, IF bench.tx = "idle" THEN 1 + Program[run.pc][2] ELSE 1)
  <1> PICK n : n = IF bench.tx = "idle" THEN 1 + Program[run.pc][2] ELSE 1
    OBVIOUS
  <1>1. /\ Running /\ Answered /\ left' = left /\ At("skipIdle")
        /\ (run' = Go(run, n) \/ run' = Return(run))
    BY DEF AbortUnfinished, Query, Calls, Answered, Throw
  <1>2. run.phase = "body"
    BY <1>1, OnlyWritesAtCutoff
  <1>3. n \in Int /\ run.pc + n \in Positive /\ run.pc + n <= Len(Program) + 1
    <2>1. Program[run.pc] = Body[run.s][run.pc] /\ CallFits(run.s, run.pc) /\ run.pc \in 1..Len(Program)
          /\ Len(Program) = Len(Body[run.s])
      BY <1>1, <1>2, CallIs, Lengths
    <2>2. Program[run.pc][2] \in Nat /\ run.pc + Program[run.pc][2] <= Len(Program)
      BY <1>1, <2>1 DEF CallFits, At
    <2>3. n = 1 \/ n = 1 + Program[run.pc][2]
      OBVIOUS
    <2>4. run.pc \in 1..Len(Program) /\ Len(Program) \in Nat
      BY <1>1, CallIs
    <2> QED BY <2>2, <2>3, <2>4 DEF Positive
  <1>4. bench' \in Benches
    BY <1>1, CalmBench DEF Answered
  <1> QED BY <1>1, <1>2, <1>3, <1>4, Jumped, Returned DEF ScriptTypes

LEMMA ReadMeterMoves ==
  ASSUME ScriptTypes, PcInside, ReadMeter
  PROVE  /\ Moves /\ Running /\ bench' = bench /\ At("meter")
         /\ \/ run' = Return(run)
            \/ /\ MeterAccepts /\ run' = [Go(run, 1) EXCEPT !.prev = Level(bench)]
               /\ run'.prev = Level(bench) /\ run'.k = run.k /\ run'.pc = run.pc + 1 /\ run'.phase = "body"
  <1>1. Running /\ At("meter") /\ bench' = bench /\ left' = left
    BY DEF ReadMeter, Then, Calls
  <1>2. CASE run' = Return(run)
    BY <1>1, <1>2, Returned DEF ScriptTypes
  <1>3. CASE MeterAccepts /\ run' = [Go(run, 1) EXCEPT !.prev = Level(bench)]
    <2>1. run.pc + 1 \in Positive /\ run.pc + 1 <= Len(Program) + 1 /\ run.phase = "body"
      BY <1>1, CallIs, OnlyWritesAtCutoff DEF ScriptTypes, ScriptRuns, Positive
    <2> PICK r : r = Go(run, 1)
      OBVIOUS
    <2>2. r \in ScriptRuns /\ SameData(r, run) /\ SamePoint(r, run) /\ r.pc = run.pc + 1 /\ r.phase = run.phase
      BY <2>1, GoMoves DEF ScriptTypes
    <2>3. Level(bench) \in Int
      BY DEF Level, ScriptTypes, Benches
    <2>4. run' \in ScriptRuns /\ SameData(run', r) /\ run'.prev = Level(bench) /\ run'.k = r.k /\ run'.pc = r.pc
          /\ run'.phase = r.phase
      BY <1>3, <2>2, <2>3 DEF ScriptRuns, SameData
    <2>5. SameData(run', run) /\ run'.k = run.k /\ run'.pc = run.pc + 1 /\ run'.phase = "body"
      BY <2>1, <2>2, <2>4 DEF SameData, SamePoint
    <2>6. PcInside' /\ Onward
      BY <1>1, <2>1, <2>4, <2>5, GoInside DEF SameData
    <2> QED BY <1>1, <1>3, <2>4, <2>5, <2>6, MovesOf DEF ScriptTypes
  <1> QED BY <1>2, <1>3 DEF ReadMeter, Then, Throw

LEMMA MarkMoves ==
  ASSUME ScriptTypes, PcInside, Mark
  PROVE  /\ ScriptTypes' /\ PcInside' /\ bench' = bench /\ run.phase = "body" /\ run'.phase = "body"
         /\ run'.s = run.s /\ run'.n = run.n /\ run'.stop = run.stop /\ run'.lost = run.lost
         /\ run'.samples = run.samples /\ run'.averages = run.averages /\ run'.streak = run.streak /\ run'.points = run.points
         /\ \/ At("jump") /\ run'.pc = run.pc - Program[run.pc][2] /\ SamePoint(run', run)
            \/ ~At("jump") /\ run'.pc = run.pc + 1 /\ (~At("again") => SamePoint(run', run))
  <1>1. Running /\ bench' = bench /\ left' = left /\ run.phase = "body" /\ run.pc \in 1..Len(Program)
        /\ run.pc + 1 \in Positive /\ run.pc + 1 <= Len(Program) + 1
    <2>1. PICK op \in {"opened", "closed", "try", "again", "jump"} : At(op) /\ Running /\ bench' = bench /\ left' = left
      BY DEF Mark, Then
    <2> QED BY <2>1, CallIs, OnlyWritesAtCutoff DEF ScriptTypes, ScriptRuns, Positive
  <1> PICK r : r = Go(run, 1)
    OBVIOUS
  <1>2. r \in ScriptRuns /\ SameData(r, run) /\ SamePoint(r, run) /\ r.pc = run.pc + 1 /\ r.phase = run.phase
    BY <1>1, GoMoves DEF ScriptTypes
  <1>3. ASSUME ~At("jump")
        PROVE  run' = [r EXCEPT !.open = TRUE] \/ run' = [r EXCEPT !.open = FALSE]
               \/ run' = [r EXCEPT !.tried = TRUE] \/ (At("again") /\ run' = [r EXCEPT !.k = 1])
    BY <1>3 DEF Mark, Then
  <1>4. ASSUME ~At("jump")
        PROVE  /\ run' \in ScriptRuns /\ run'.phase = r.phase /\ run'.pc = r.pc
               /\ run'.s = r.s /\ run'.n = r.n /\ run'.stop = r.stop /\ run'.lost = r.lost
               /\ run'.samples = r.samples /\ run'.averages = r.averages /\ run'.streak = r.streak /\ run'.points = r.points
               /\ ~At("again") => SamePoint(run', r)
    <2>1. 1 \in Positive
      BY DEF Positive
    <2>2. CASE run' = [r EXCEPT !.open = TRUE] \/ run' = [r EXCEPT !.open = FALSE]
      BY <1>2, <2>2 DEF ScriptRuns, SamePoint
    <2>3. CASE run' = [r EXCEPT !.tried = TRUE]
      BY <1>2, <2>3 DEF ScriptRuns, SamePoint
    <2>4. CASE At("again") /\ run' = [r EXCEPT !.k = 1]
      BY <1>2, <2>1, <2>4 DEF ScriptRuns
    <2> QED BY <1>3, <1>4, <2>2, <2>3, <2>4
  <1>5. CASE ~At("jump")
    <2>1. PcInside'
      BY <1>1, <1>2, <1>4, <1>5, GoInside DEF SameData
    <2> QED BY <1>1, <1>2, <1>4, <1>5, <2>1 DEF SameData, SamePoint, ScriptTypes
  <1>6. CASE At("jump")
    <2> PICK n : n = Program[run.pc][2]
      OBVIOUS
    <2>1. n \in 0..(run.pc - 1)
      <3>1. Program[run.pc] = Body[run.s][run.pc] /\ CallFits(run.s, run.pc)
        BY <1>1, <1>6, CallIs
      <3> QED BY <1>6, <3>1 DEF CallFits, At
    <2>2. run.pc + (0 - n) \in Positive /\ run.pc + (0 - n) <= Len(Program) + 1 /\ 0 - n \in Int /\ Len(Program) \in Nat
          /\ run.pc + (0 - n) = run.pc - n
      BY <1>1, <1>6, <2>1, CallIs DEF Positive
    <2>3. run' = Go(run, 0 - n)
      BY <1>6 DEF Mark, Then, At
    <2>4. run' \in ScriptRuns /\ SameData(run', run) /\ SamePoint(run', run) /\ run'.pc = run.pc - n /\ run'.phase = run.phase
      BY <2>2, <2>3, GoMoves DEF ScriptTypes
    <2>5. PcInside'
      BY <1>1, <2>2, <2>4, GoInside DEF SameData
    <2> QED BY <1>1, <1>6, <2>4, <2>5 DEF SameData, ScriptTypes
  <1> QED BY <1>5, <1>6

LEMMA NextPointMoves ==
  ASSUME ScriptTypes, PcInside, NextPoint
  PROVE  /\ ScriptTypes' /\ PcInside' /\ bench' = bench /\ run.phase = "body" /\ run'.phase = "body"
         /\ SameData(run', run) /\ run'.prev = run.prev
         /\ IF run.k < Points THEN run'.pc = run.pc - Program[run.pc][2] /\ run'.k = run.k + 1
            ELSE run'.pc = run.pc + 1 /\ run'.k = run.k
  <1>1. Running /\ At("next") /\ bench' = bench /\ left' = left
    BY DEF NextPoint, Then
  <1>2. run.phase = "body" /\ run.pc \in 1..Len(Program) /\ Len(Program) \in Nat
    BY <1>1, CallIs, OnlyWritesAtCutoff
  <1> PICK n : n = Program[run.pc][2]
    OBVIOUS
  <1>3. n \in 0..(run.pc - 1)
    <2>1. Program[run.pc] = Body[run.s][run.pc] /\ CallFits(run.s, run.pc)
      BY <1>1, <1>2, CallIs
    <2> QED BY <1>1, <2>1 DEF CallFits, At
  <1>4. CASE run.k < Points
    <2>1. run.pc + (0 - n) \in Positive /\ run.pc + (0 - n) <= Len(Program) + 1 /\ 0 - n \in Int
          /\ run.pc + (0 - n) = run.pc - n
      BY <1>2, <1>3 DEF Positive
    <2> PICK r : r = Go(run, 0 - n)
      OBVIOUS
    <2>2. r \in ScriptRuns /\ SameData(r, run) /\ SamePoint(r, run) /\ r.pc = run.pc - n /\ r.phase = run.phase
      BY <2>1, GoMoves DEF ScriptTypes
    <2>3. run' = [r EXCEPT !.k = @ + 1]
      BY <1>4, <1>1 DEF NextPoint, Then
    <2>4. r.k + 1 \in Positive
      BY <2>2 DEF ScriptRuns, Positive
    <2>5. run' \in ScriptRuns /\ SameData(run', r) /\ run'.prev = r.prev /\ run'.k = r.k + 1 /\ run'.pc = r.pc
          /\ run'.phase = r.phase
      BY <2>2, <2>3, <2>4 DEF ScriptRuns, SameData
    <2>6. SameData(run', run) /\ run'.prev = run.prev /\ run'.k = run.k + 1 /\ run'.pc = run.pc - n /\ run'.phase = "body"
      BY <1>2, <2>2, <2>5 DEF SameData, SamePoint
    <2>7. PcInside'
      BY <1>1, <1>2, <2>1, <2>5, <2>6, GoInside DEF SameData
    <2> QED BY <1>1, <1>2, <1>4, <2>5, <2>6, <2>7 DEF ScriptTypes
  <1>5. CASE ~(run.k < Points)
    <2>1. run' = Go(run, 1)
      BY <1>5 DEF NextPoint, Then
    <2>2. run' \in ScriptRuns /\ PcInside' /\ SameData(run', run) /\ run'.pc = run.pc + 1 /\ SamePoint(run', run)
      BY <1>1, <2>1, AdvanceInside
    <2>3. run'.phase = run.phase
      BY <1>2, <2>1, GoMoves DEF ScriptTypes, Positive
    <2> QED BY <1>1, <1>2, <1>5, <2>2, <2>3 DEF SamePoint, ScriptTypes
  <1> QED BY <1>4, <1>5

LEMMA OperatorMoves ==
  ASSUME ScriptTypes, PcInside, OperatorInput
  PROVE  /\ Moves /\ Running /\ run.phase = "body" /\ At("operator")
         /\ bench' \in {bench, [bench EXCEPT !.level = run.k - 1]}
         /\ \/ run' = Go(run, 1)
            \/ bench' = bench /\ run' = Go(run, Program[run.pc][2])
  <1>1. Running /\ At("operator") /\ left' = left
    BY DEF OperatorInput, Then, Calls
  <1>2. run.phase = "body" /\ run.pc \in 1..Len(Program) /\ Len(Program) \in Nat
    BY <1>1, CallIs, OnlyWritesAtCutoff
  <1>3. CASE bench' \in {bench, [bench EXCEPT !.level = run.k - 1]} /\ run' = Go(run, 1)
    <2>1. run.k - 1 \in Nat
      BY DEF ScriptTypes, ScriptRuns, Positive
    <2>2. bench' \in Benches
      BY <1>3, <2>1 DEF ScriptTypes, Benches
    <2> QED BY <1>1, <1>2, <1>3, <2>2, Advanced
  <1>4. CASE bench' = bench /\ run' = Go(run, Program[run.pc][2])
    <2> PICK n : n = Program[run.pc][2]
      OBVIOUS
    <2>1. n \in Nat /\ run.pc + n <= Len(Program)
      <3>1. Program[run.pc] = Body[run.s][run.pc] /\ CallFits(run.s, run.pc) /\ Len(Program) = Len(Body[run.s])
        BY <1>1, <1>2, CallIs, Lengths
      <3> QED BY <1>1, <3>1 DEF CallFits, At
    <2>2. run.pc + n \in Positive /\ run.pc + n <= Len(Program) + 1 /\ n \in Int
      BY <1>2, <2>1 DEF Positive
    <2>3. bench' \in Benches
      BY <1>4 DEF ScriptTypes
    <2> QED BY <1>1, <1>2, <1>4, <2>2, <2>3, Jumped
  <1> QED BY <1>3, <1>4 DEF OperatorInput, Then

LEMMA ChoiceMoves ==
  ASSUME ScriptTypes, PcInside, LoadSwapped \/ Answer
  PROVE  Moves /\ Running /\ bench' = bench /\ (run' = Go(run, 1) \/ run' = Return(run)) /\ ~At("meter")
  BY Advanced, Returned DEF LoadSwapped, Answer, Then, Calls, ScriptTypes, At

LEMMA BodyEndsMoves ==
  ASSUME ScriptTypes, PcInside, BodyEnds
  PROVE  Moves /\ Leaves /\ bench' = bench
  BY Returned DEF BodyEnds, Then, ScriptTypes
LEMMA SettlingMoves ==
  ASSUME ScriptTypes, PcInside, SettlingTimesOut
  PROVE  Moves /\ Leaves /\ bench' = bench
  BY Returned DEF SettlingTimesOut, Then, ScriptTypes, Throw

LEMMA TemperatureMoves ==
  ASSUME ScriptTypes, PcInside, MeasureTemperature
  PROVE  Moves /\ Answered /\ Running /\ At("temperature") /\ SameData(run', run)
  <1>1. At("temperature") /\ Running /\ left' = left /\ Answered /\ run.phase = "body"
    BY OnlyWritesAtCutoff DEF MeasureTemperature, Query, Calls, Answered
  <1>2. bench' \in Benches
    BY <1>1, CalmBench DEF Answered
  <1>3. run' = Go(run, 1) \/ run' = Return(run) \/ run' = [run EXCEPT !.phase = "cutoff", !.pc = 1]
    BY DEF MeasureTemperature, Query, Throw
  <1>4. CASE run' = Go(run, 1)
    BY <1>1, <1>2, <1>4, Advanced, AdvanceInside
  <1>5. CASE run' = Return(run)
    BY <1>1, <1>2, <1>5, Returned, ReturnInside DEF ScriptTypes
  <1>6. CASE run' = [run EXCEPT !.phase = "cutoff", !.pc = 1]
    <2>1. 1 \in Positive
      BY DEF Positive
    <2>2. run' \in ScriptRuns /\ SameData(run', run) /\ run'.phase = "cutoff" /\ run'.pc = 1
      BY <1>6, <2>1 DEF ScriptTypes, ScriptRuns, SameData
    <2>3. PcInside'
      BY <2>2, NewProgram, CutoffText DEF PcInside
    <2>4. Onward
      BY <2>2 DEF Onward
    <2> QED BY <1>1, <1>2, <2>2, <2>3, <2>4, MovesOf DEF ScriptTypes
  <1> QED BY <1>3, <1>4, <1>5, <1>6

-----------------------------------------------------------------------------
(* The curve's readings.                                                   *)
LEMMA KeepTwoKeeps ==
  ASSUME NEW S, NEW q \in Seq(S), Len(q) <= 3
  PROVE  KeepTwo(q) \in Seq(S) /\ Len(KeepTwo(q)) = (IF Len(q) > 2 THEN Len(q) - 1 ELSE Len(q))
  <1>1. CASE Len(q) > 2
    <2>1. q # <<>>
      BY <1>1
    <2> QED BY <1>1, <2>1 DEF KeepTwo
  <1>2. CASE ~(Len(q) > 2)
    BY <1>2 DEF KeepTwo
  <1> QED BY <1>1, <1>2

\* What a step that is not one of the curve's readings leaves of them.
SameReadings == run'.samples = run.samples /\ run'.averages = run.averages /\ run'.streak = run.streak
                /\ run'.points = run.points
LEMMA ReadingsStay ==
  ASSUME StreakFits, SettledPointContinuous, SameReadings
  PROVE  StreakFits' /\ SettledPointContinuous'
  BY DEF StreakFits, SettledPointContinuous, SameReadings

LEMMA ReadingsCleared ==
  ASSUME SettledPointContinuous, run'.samples = <<>>, run'.averages = <<>>, run'.streak = 0, run'.points = run.points
  PROVE  StreakFits' /\ SettledPointContinuous'
  BY ScriptsAssumption DEF StreakFits, SettledPointContinuous

LEMMA ReadingLengths ==
  ASSUME ScriptTypes, StreakFits
  PROVE  Len(run.samples) \in Nat /\ Len(run.averages) \in Nat /\ Len(run.averages) <= 2 /\ run.averages \in Seq(Sums)
         /\ run.streak \in Int /\ Block \in Nat \ {0}
  <1>1. run.samples \in Seq({0, 1}) /\ run.averages \in Seq(Sums) /\ run.streak \in Int
    BY DEF ScriptTypes, ScriptRuns
  <1>2. Len(run.samples) \in Nat /\ Len(run.averages) \in Nat /\ Len(run.averages) <= 2
    BY <1>1 DEF StreakFits
  <1>5. Block \in Nat \ {0}
    BY ScriptsAssumption
  <1> QED BY <1>1, <1>2, <1>5

\* The curve's block and its averages are set.
SetBlock(r, a, b) == [r EXCEPT !.samples = a, !.averages = b]
LEMMA BlockSet ==
  ASSUME NEW r \in ScriptRuns, NEW a \in Seq({0, 1}), NEW b \in Seq(Sums)
  PROVE  LET q == SetBlock(r, a, b) IN
         /\ q \in ScriptRuns /\ q.samples = a /\ q.averages = b /\ q.streak = r.streak /\ q.points = r.points
         /\ q.s = r.s /\ q.n = r.n /\ q.stop = r.stop /\ q.lost = r.lost /\ q.phase = r.phase /\ q.pc = r.pc
  <1> PICK p : p = [r EXCEPT !.samples = a]
    OBVIOUS
  <1>1. p \in ScriptRuns /\ p.samples = a /\ p.streak = r.streak /\ p.points = r.points
         /\ p.s = r.s /\ p.n = r.n /\ p.stop = r.stop /\ p.lost = r.lost /\ p.phase = r.phase /\ p.pc = r.pc
    BY DEF ScriptRuns
  <1> PICK q : q = [p EXCEPT !.averages = b]
    OBVIOUS
  <1>2. q \in ScriptRuns /\ q.averages = b /\ q.samples = p.samples /\ q.streak = p.streak /\ q.points = p.points
         /\ q.s = p.s /\ q.n = p.n /\ q.stop = p.stop /\ q.lost = p.lost /\ q.phase = p.phase /\ q.pc = p.pc
    BY <1>1 DEF ScriptRuns
  <1>3. SetBlock(r, a, b) = q
    BY DEF SetBlock
  <1> QED BY <1>1, <1>2, <1>3

LEMMA ClearedMoves ==
  ASSUME ScriptTypes, PcInside, Running, NEW op, op # "write", At(op), bench' \in Benches, left' = left,
         SettledPointContinuous,
         run' = [Go(run, 1) EXCEPT !.samples = <<>>, !.averages = <<>>, !.streak = 0]
  PROVE  Moves /\ StreakFits' /\ SettledPointContinuous'
  <1>1. run.pc + 1 \in Positive /\ run.pc + 1 <= Len(Program) + 1
    BY CallIs DEF ScriptTypes, ScriptRuns, Positive
  <1> PICK r : r = Go(run, 1)
    OBVIOUS
  <1>2. r \in ScriptRuns /\ SameData(r, run) /\ SamePoint(r, run) /\ r.pc = run.pc + 1 /\ r.phase = run.phase
    BY <1>1, GoMoves DEF ScriptTypes
  <1>3. run' = [r EXCEPT !.samples = <<>>, !.averages = <<>>, !.streak = 0]
    OBVIOUS
  <1> PICK q : q = SetBlock(r, <<>>, <<>>)
    OBVIOUS
  <1>4. /\ q \in ScriptRuns /\ q.samples = <<>> /\ q.averages = <<>> /\ q.points = r.points
        /\ q.s = r.s /\ q.n = r.n /\ q.stop = r.stop /\ q.lost = r.lost /\ q.phase = r.phase /\ q.pc = r.pc
    <2>1. <<>> \in Seq({0, 1}) /\ <<>> \in Seq(Sums)
      OBVIOUS
    <2> QED BY <1>2, <2>1, BlockSet
  <1>5. run' = [q EXCEPT !.streak = 0]
    BY <1>3 DEF SetBlock
  <1>6. run' \in ScriptRuns
    BY <1>4, <1>5 DEF ScriptRuns
  <1>7. run'.samples = <<>> /\ run'.averages = <<>> /\ run'.streak = 0 /\ run'.points = r.points /\ run'.s = r.s /\ run'.n = r.n
        /\ run'.stop = r.stop /\ run'.lost = r.lost /\ run'.phase = r.phase /\ run'.pc = r.pc
    BY <1>4, <1>5 DEF ScriptRuns
  <1>8. PcInside' /\ Onward
    BY <1>1, <1>2, <1>6, <1>7, GoInside DEF SameData
  <1> QED BY <1>2, <1>6, <1>7, <1>8, ReadingsCleared DEF Moves, ScriptTypes, SameData

\* One reading more: the block goes on, or it is full and its mean is new, or
\* its mean is that of the block before.
LEMMA SampledMoves ==
  ASSUME ScriptTypes, PcInside, Running, At("settle"), bench' \in Benches, left' = left,
         StreakFits, SettledPointContinuous, NEW t \in {0, 1}, run' = Sampled(run, t)
  PROVE  Moves /\ StreakFits' /\ SettledPointContinuous'
  <1>1. run.phase = "body" /\ run.pc \in 1..Len(Program) /\ Len(Program) \in Nat
    BY CallIs, OnlyWritesAtCutoff
  <1>0. PICK samples, streak, averages, off :
        /\ samples = Append(run.samples, t)
        /\ streak = [run EXCEPT !.streak = IF @ < 2 * Block THEN @ + 1 ELSE @]
        /\ averages = KeepTwo(Append(run.averages, Sum(samples))) /\ off = Program[run.pc][2]
    OBVIOUS
  <1>2. off \in Nat /\ run.pc + off <= Len(Program)
    <2>1. Program[run.pc] = Body[run.s][run.pc] /\ CallFits(run.s, run.pc) /\ Len(Program) = Len(Body[run.s])
      BY <1>1, CallIs, Lengths
    <2> QED BY <1>0, <2>1 DEF CallFits, At
  <1>3. samples \in Seq({0, 1}) /\ Len(samples) = Len(run.samples) + 1
    BY <1>0 DEF ScriptTypes, ScriptRuns
  <1>4. averages \in Seq(Sums) /\ Len(averages) = (IF Len(run.averages) = 2 THEN 2 ELSE Len(run.averages) + 1)
    <2>1. Sum(samples) \in Sums
      BY <1>3 DEF Sums
    <2>2. run.averages \in Seq(Sums) /\ Len(run.averages) \in Nat /\ Len(run.averages) <= 2
      BY ReadingLengths
    <2>3. Append(run.averages, Sum(samples)) \in Seq(Sums) /\ Len(Append(run.averages, Sum(samples))) = Len(run.averages) + 1
      BY <2>1, <2>2
    <2>7. PICK q : q = Append(run.averages, Sum(samples))
      OBVIOUS
    <2>8. PICK n : n = Len(run.averages)
      OBVIOUS
    <2>4. q \in Seq(Sums) /\ Len(q) = n + 1 /\ Len(q) <= 3 /\ n \in Nat /\ n <= 2 /\ averages = KeepTwo(q)
      BY <1>0, <2>2, <2>3, <2>7, <2>8
    <2>5. KeepTwo(q) \in Seq(Sums) /\ Len(KeepTwo(q)) = (IF Len(q) > 2 THEN Len(q) - 1 ELSE Len(q))
      BY <2>4, KeepTwoKeeps
    <2>6. Len(averages) = (IF n = 2 THEN 2 ELSE n + 1)
      <3>1. CASE n = 2
        BY <2>4, <2>5, <3>1
      <3>2. CASE n # 2
        BY <2>4, <2>5, <3>2
      <3> QED BY <3>1, <3>2
    <2> QED BY <2>4, <2>5, <2>6, <2>8
  <1>5. /\ streak \in ScriptRuns /\ streak.streak = (IF run.streak < 2 * Block THEN run.streak + 1 ELSE run.streak)
        /\ streak.pc = run.pc /\ streak.phase = "body" /\ streak.samples = run.samples /\ streak.averages = run.averages
        /\ streak.points = run.points /\ streak.s = run.s /\ streak.n = run.n /\ streak.stop = run.stop /\ streak.lost = run.lost
        /\ streak.k = run.k
    <2> PICK n : n = IF run.streak < 2 * Block THEN run.streak + 1 ELSE run.streak
      OBVIOUS
    <2>1. n \in Int
      BY ScriptsAssumption DEF ScriptTypes, ScriptRuns
    <2>2. streak = [run EXCEPT !.streak = n]
      BY <1>0 DEF ScriptTypes, ScriptRuns
    <2> QED BY <1>1, <2>1, <2>2 DEF ScriptTypes, ScriptRuns
  <1> DEFINE Goes(r, n) == /\ r \in ScriptRuns /\ r.pc = run.pc + n /\ r.phase = "body" /\ r.samples = run.samples
                           /\ r.averages = run.averages /\ r.points = run.points /\ r.s = run.s /\ r.n = run.n
                           /\ r.stop = run.stop /\ r.lost = run.lost /\ r.streak = streak.streak /\ r.k = run.k
  <1>6. \A n \in {1, 1 + off} : Goes(Go(streak, n), n)
    <2> SUFFICES ASSUME NEW n \in {1, 1 + off} PROVE Goes(Go(streak, n), n)
      OBVIOUS
    <2>1. n \in Int /\ streak.pc + n \in Positive
      BY <1>1, <1>2, <1>5 DEF Positive
    <2>2. Go(streak, n) \in ScriptRuns /\ SameData(Go(streak, n), streak) /\ SamePoint(Go(streak, n), streak)
          /\ Go(streak, n).pc = streak.pc + n /\ Go(streak, n).phase = streak.phase
      BY <1>5, <2>1, GoMoves
    <2> QED BY <1>5, <2>2 DEF SameData, SamePoint
  <1>7. /\ Len(run.samples) \in Nat /\ Len(run.samples) < Block /\ run.streak <= 2 * Block
        /\ Len(run.averages) \in Nat /\ Len(run.averages) <= 2 /\ run.streak \in Int /\ Block \in Nat
        /\ Len(run.averages) = 0 => run.streak >= Len(run.samples)
        /\ Len(run.averages) = 1 => run.streak >= Block + Len(run.samples)
        /\ Len(run.averages) = 2 => run.streak = 2 * Block
    BY ReadingLengths DEF StreakFits
  <1> DEFINE Same == run'.s = run.s /\ run'.n = run.n /\ run'.stop = run.stop /\ run'.lost = run.lost /\ run'.phase = "body"
  <1>8. CASE Len(samples) < Block
    <2>1. run' = [Go(streak, 1) EXCEPT !.samples = samples]
      BY <1>0, <1>8 DEF Sampled
    <2>2. Goes(Go(streak, 1), 1)
      BY <1>6
    <2>3. run' \in ScriptRuns /\ Same /\ run'.pc = run.pc + 1 /\ run'.samples = samples /\ run'.averages = run.averages
          /\ run'.streak = streak.streak /\ run'.points = run.points
      BY <1>3, <2>1, <2>2 DEF ScriptRuns
    <2>4. StreakFits' /\ SettledPointContinuous'
      BY <1>3, <1>5, <1>7, <1>8, <2>3 DEF StreakFits, SettledPointContinuous
    <2>5. run'.pc <= Len(Program) + 1 /\ run'.phase = run.phase
      BY <1>1, <2>3
    <2> QED BY <2>3, <2>4, <2>5, StaysInside DEF Moves, Onward, ScriptTypes
  <1>9. CASE ~(Len(samples) < Block) /\ ~(Len(averages) = 2 /\ averages[1] = averages[2])
    <2>1. run' = [Go(streak, 1) EXCEPT !.samples = <<>>, !.averages = averages]
      BY <1>0, <1>9 DEF Sampled
    <2>2. Goes(Go(streak, 1), 1)
      BY <1>6
    <2>3. run' \in ScriptRuns /\ Same /\ run'.pc = run.pc + 1 /\ run'.samples = <<>> /\ run'.averages = averages
          /\ run'.streak = streak.streak /\ run'.points = run.points
      <3> PICK r : r = Go(streak, 1)
        OBVIOUS
      <3>2. r \in ScriptRuns /\ run' = SetBlock(r, <<>>, averages)
        BY <2>1, <2>2 DEF SetBlock
      <3>4. <<>> \in Seq({0, 1}) /\ averages \in Seq(Sums)
        BY <1>4
      <3> PICK q : q = SetBlock(r, <<>>, averages)
        OBVIOUS
      <3>5. /\ q \in ScriptRuns /\ q.samples = <<>> /\ q.averages = averages /\ q.streak = r.streak
            /\ q.points = r.points /\ q.s = r.s /\ q.n = r.n /\ q.stop = r.stop /\ q.lost = r.lost
            /\ q.phase = r.phase /\ q.pc = r.pc
        BY <3>2, <3>4, BlockSet
      <3>3. /\ run' \in ScriptRuns /\ run'.samples = <<>> /\ run'.averages = averages /\ run'.streak = r.streak
            /\ run'.points = r.points /\ run'.s = r.s /\ run'.n = r.n /\ run'.stop = r.stop /\ run'.lost = r.lost
            /\ run'.phase = r.phase /\ run'.pc = r.pc
        BY <3>2, <3>5
      <3> QED BY <2>2, <3>3
    <2>4. StreakFits'
      <3>0. PICK n, m, k, l : n = run.streak /\ m = Len(run.averages) /\ k = Len(run.samples) /\ l = Len(averages)
        OBVIOUS
      <3>1. n \in Int /\ m \in Nat /\ m <= 2 /\ k \in Nat /\ k < Block /\ ~(k + 1 < Block) /\ n <= 2 * Block /\ Block \in Nat
            /\ (m = 0 => n >= k) /\ (m = 1 => n >= Block + k) /\ (m = 2 => n = 2 * Block)
            /\ l = (IF m = 2 THEN 2 ELSE m + 1) /\ run'.streak = (IF n < 2 * Block THEN n + 1 ELSE n)
        BY <1>3, <1>4, <1>5, <1>7, <1>9, <2>3, <3>0
      <3>2. /\ 0 < Block /\ l <= 2 /\ run'.streak <= 2 * Block /\ l # 0
            /\ l = 1 => run'.streak >= Block
            /\ l = 2 => run'.streak = 2 * Block
        <4>1. CASE m = 0
          BY <3>1, <4>1
        <4>2. CASE m = 1
          <5>1. n >= 2 * Block - 1
            BY <3>1, <4>2
          <5> QED BY <3>1, <4>2, <5>1
        <4>3. CASE m = 2
          BY <3>1, <4>3
        <4>4. m = 0 \/ m = 1 \/ m = 2
          BY <3>1
        <4> QED BY <4>1, <4>2, <4>3, <4>4
      <3>3. Len(run'.samples) = 0 /\ Len(run'.averages) = l
        BY <2>3, <3>0
      <3> QED BY <3>1, <3>2, <3>3 DEF StreakFits
    <2>5. run'.pc <= Len(Program) + 1 /\ run'.phase = run.phase
      BY <1>1, <2>3
    <2> QED BY <2>3, <2>4, <2>5, StaysInside DEF Moves, Onward, ScriptTypes, SettledPointContinuous
  <1>10. CASE ~(Len(samples) < Block) /\ Len(averages) = 2 /\ averages[1] = averages[2]
    <2>1. run' = [Go(streak, 1 + off) EXCEPT !.points = Append(@, [k |-> run.k, streak |-> streak.streak])]
      BY <1>0, <1>10 DEF Sampled
    <2>2. Goes(Go(streak, 1 + off), 1 + off)
      BY <1>6
    <2>3. streak.streak = 2 * Block
      <3>0. PICK n, m, k : n = run.streak /\ m = Len(run.averages) /\ k = Len(run.samples)
        OBVIOUS
      <3>1. n \in Int /\ m \in Nat /\ m <= 2 /\ k \in Nat /\ k < Block /\ ~(k + 1 < Block) /\ n <= 2 * Block /\ Block \in Nat
            /\ (m = 1 => n >= Block + k) /\ (m = 2 => n = 2 * Block)
            /\ 2 = (IF m = 2 THEN 2 ELSE m + 1) /\ streak.streak = (IF n < 2 * Block THEN n + 1 ELSE n)
        BY <1>3, <1>4, <1>5, <1>7, <1>10, <3>0
      <3>2. CASE m = 2
        BY <3>1, <3>2
      <3>3. CASE m = 1
        <4>1. n >= 2 * Block - 1
          BY <3>1, <3>3
        <4> QED BY <3>1, <4>1
      <3>4. m = 2 \/ m = 1
        BY <3>1
      <3> QED BY <3>2, <3>3, <3>4
    <2> PICK r : r = Go(streak, 1 + off)
      OBVIOUS
    <2> PICK p : p = [k |-> run.k, streak |-> streak.streak]
      OBVIOUS
    <2>4. p \in CurvePoints /\ p.streak = 2 * Block
      BY <2>3, ScriptsAssumption DEF CurvePoints, ScriptTypes, ScriptRuns, Positive
    <2>5. Append(run.points, p) \in Seq(CurvePoints) /\ Len(Append(run.points, p)) = Len(run.points) + 1
          /\ \A i \in 1..Len(run.points) : Append(run.points, p)[i] = run.points[i]
          /\ Append(run.points, p)[Len(run.points) + 1] = p
      BY <2>4 DEF ScriptTypes, ScriptRuns
    <2>6. run' \in ScriptRuns /\ Same /\ run'.pc = run.pc + (1 + off) /\ run'.samples = run.samples /\ run'.averages = run.averages
          /\ run'.streak = streak.streak /\ run'.points = Append(run.points, p)
      <3>1. run' = [r EXCEPT !.points = Append(run.points, p)]
        BY <2>1, <2>2 DEF ScriptRuns
      <3>2. run' \in ScriptRuns
        BY <2>2, <2>5, <3>1 DEF ScriptRuns
      <3> QED BY <2>2, <3>1, <3>2 DEF ScriptRuns
    <2>7. StreakFits'
      BY <1>4, <1>7, <1>10, <2>3, <2>6 DEF StreakFits
    <2>8. SettledPointContinuous'
      BY <2>4, <2>5, <2>6 DEF SettledPointContinuous, ScriptTypes, ScriptRuns
    <2>9. run'.pc <= Len(Program) + 1 /\ run'.phase = run.phase
      BY <1>1, <1>2, <2>6
    <2> QED BY <2>6, <2>7, <2>8, <2>9, StaysInside DEF Moves, Onward, ScriptTypes
  <1> QED BY <1>8, <1>9, <1>10

-----------------------------------------------------------------------------
(* What the supply makes of a command.                                     *)
Refused(b, o) == o = [b EXCEPT !.err = TRUE]
Point(b, e) == [ref |-> e.ref, raw |-> IF Level(b) = e.from THEN e.from ELSE -1, n |-> e.n]
Staged(b, e) == Append(SubSeq(b.staged, 1, e.k - 1), Point(b, e))

LEMMA StagedTypes ==
  ASSUME NEW b \in Benches, NEW e \in Orders, e.k <= Len(b.staged) + 1
  PROVE  Staged(b, e) \in Seq(Captured)
  <1>1. b.staged \in Seq(Captured) /\ e.k \in Int /\ e.ref \in Int /\ e.from \in Int /\ e.n \in Int
    BY DEF Benches, Orders
  <1>2. SubSeq(b.staged, 1, e.k - 1) \in Seq(Captured)
    BY <1>1, SubSeqProperties
  <1>3. Point(b, e) \in Captured
    BY <1>1 DEF Point, Captured
  <1> QED BY <1>2, <1>3 DEF Staged

\* A step of the supply: what it stages, what it saves and where the relay is.
LEMMA ObeyTypes ==
  ASSUME NEW b \in Benches, NEW e \in Orders
  PROVE  LET o == Obey(b, e) IN
         /\ o \in Benches /\ o.out = b.out /\ o.load = b.load /\ o.level = b.level /\ o.fifo = b.fifo
         /\ o.relay = (IF e.c = "relayOn" THEN TRUE ELSE IF e.c = "relayOff" THEN FALSE ELSE b.relay)
         /\ o.saved = (IF e.c = "commit" /\ b.tx # "idle" THEN b.staged ELSE b.saved)
         /\ o.tx = b.tx \/ (e.c \in {"startVoltage", "startCurrent"} /\ o.tx = "open") \/ (e.c \in {"abort", "commit"} /\ o.tx = "idle")
         /\ \/ o.staged = b.staged
            \/ e.c \in {"abort", "clear", "commit"} /\ o.staged = <<>>
            \/ e.c = "startVoltage" /\ o.staged = b.saved
            \/ e.c = "startCurrent" /\ o.staged = <<>>
            \/ e.c = "capture" /\ b.tx # "idle" /\ e.k <= Len(b.staged) + 1 /\ o.staged = Staged(b, e)
         /\ e.c = "startCurrent" /\ b.tx = "idle" => o.staged = <<>>
  <1>9. PICK o : o = Obey(b, e)
    OBVIOUS
  <1>0. e.c \in PsuCommands /\ <<>> \in Seq(Captured)
    BY DEF Orders
  <1>1. CASE Refused(b, o) /\ (e.c \in {"startVoltage", "startCurrent"} => b.tx # "idle") /\ e.c \notin {"relayOn", "relayOff"}
             /\ (e.c = "commit" => b.tx = "idle")
    <2>1. o \in Benches /\ \A f \in {"out", "level", "relay", "load", "fifo", "tx", "staged", "saved"} : o[f] = b[f]
      BY <1>1 DEF Refused, Benches
    <2>2. o.out = b.out /\ o.level = b.level /\ o.relay = b.relay /\ o.load = b.load /\ o.fifo = b.fifo /\ o.tx = b.tx
          /\ o.staged = b.staged /\ o.saved = b.saved
      BY <2>1
    <2>3. e.c = "startCurrent" => b.tx # "idle"
      BY <1>1
    <2>4. o.saved = (IF e.c = "commit" /\ b.tx # "idle" THEN b.staged ELSE b.saved)
      BY <1>1, <2>2
    <2>5. o.relay = (IF e.c = "relayOn" THEN TRUE ELSE IF e.c = "relayOff" THEN FALSE ELSE b.relay)
      BY <1>1, <2>2
    <2> QED BY <1>9, <2>1, <2>2, <2>3, <2>4, <2>5
  <1>2. CASE e.c = "relayOn" \/ e.c = "relayOff"
    BY <1>9, <1>0, <1>2 DEF Obey, Benches
  <1>3. CASE e.c = "startVoltage" \/ e.c = "startCurrent"
    <2>1. CASE b.tx # "idle"
      <3>1. Refused(b, o)
        BY <1>9, <1>3, <2>1 DEF Obey, Refuse, Refused
      <3> QED BY <1>1, <1>3, <2>1, <3>1
    <2>2. CASE b.tx = "idle"
      <3> PICK s : s = IF e.c = "startVoltage" THEN b.saved ELSE <<>>
        OBVIOUS
      <3>1. o = [b EXCEPT !.tx = "open", !.staged = s]
        BY <1>9, <1>3, <2>2 DEF Obey
      <3>2. s \in Seq(Captured)
        BY <1>0 DEF Benches
      <3>3. o \in Benches
        BY <3>1, <3>2 DEF Benches
      <3> QED BY <1>9, <1>3, <2>2, <3>1, <3>3 DEF Benches
    <2> QED BY <2>1, <2>2
  <1>4. CASE e.c = "abort"
    <2>1. o = [b EXCEPT !.tx = "idle", !.staged = <<>>]
      BY <1>9, <1>4 DEF Obey
    <2>2. o \in Benches
      BY <1>0, <2>1 DEF Benches
    <2> QED BY <1>9, <1>4, <2>1, <2>2 DEF Benches
  <1>5. CASE b.tx = "idle" /\ e.c \in {"clear", "commit", "capture"}
    <2>1. Refused(b, o)
      BY <1>9, <1>5 DEF Obey, Refuse, Refused
    <2> QED BY <1>1, <1>5, <2>1
  <1>6. CASE b.tx # "idle" /\ e.c = "clear"
    <2>1. o = [b EXCEPT !.staged = <<>>]
      BY <1>9, <1>6 DEF Obey
    <2>2. o \in Benches
      BY <1>0, <2>1 DEF Benches
    <2> QED BY <1>9, <1>6, <2>1, <2>2 DEF Benches
  <1>7. CASE b.tx # "idle" /\ e.c = "commit"
    <2>1. o = [b EXCEPT !.tx = "idle", !.saved = b.staged, !.staged = <<>>]
      BY <1>9, <1>7 DEF Obey
    <2>2. o \in Benches
      BY <1>0, <2>1 DEF Benches
    <2> QED BY <1>9, <1>7, <2>1, <2>2 DEF Benches
  <1>8. CASE b.tx # "idle" /\ e.c = "capture"
    <2>1. CASE e.k > Len(b.staged) + 1
      <3>1. Refused(b, o)
        BY <1>9, <1>8, <2>1 DEF Obey, Refuse, Refused
      <3> QED BY <1>1, <1>8, <3>1
    <2>2. CASE ~(e.k > Len(b.staged) + 1)
      <3>1. e.k <= Len(b.staged) + 1
        BY <2>2 DEF Orders, Benches
      <3>2. o = [b EXCEPT !.staged = Staged(b, e)]
        BY <1>9, <1>8, <2>2 DEF Obey, Staged, Point, Benches
      <3>3. o \in Benches
        BY <3>1, <3>2, StagedTypes DEF Benches
      <3> QED BY <1>9, <1>8, <3>1, <3>2, <3>3 DEF Benches
    <2> QED BY <2>1, <2>2
  <1> QED BY <1>9, <1>0, <1>2, <1>3, <1>4, <1>5, <1>6, <1>7, <1>8 DEF PsuCommands

LEMMA MeasureMoves ==
  ASSUME ScriptTypes, PcInside, StreakFits, SettledPointContinuous, MeasureCurrent
  PROVE  /\ Moves /\ Running /\ At("settle") /\ StreakFits' /\ SettledPointContinuous'
         /\ Answered \/ (Sends("relayOff") /\ Leaves)
  <1>1. At("settle")
    BY DEF MeasureCurrent
  <1>2. ASSUME NEW r, Query(r)
        PROVE  /\ Running /\ Answered /\ left' = left /\ (run' = r \/ run' = Return(run)) /\ bench' \in Benches
    <2>1. Running /\ Answered /\ left' = left /\ (run' = r \/ run' = Return(run))
      BY <1>2 DEF Query, Calls, Answered, Throw
    <2> QED BY <2>1, CalmBench DEF Answered
  <1>3. ASSUME run' = Return(run), bench' \in Benches, left' = left
        PROVE  Moves /\ Leaves /\ StreakFits' /\ SettledPointContinuous'
    <2>1. Moves /\ Leaves
      BY <1>3, Returned DEF ScriptTypes
    <2>2. SameReadings
      BY <1>3, ReturnInside DEF SameReadings, SameData
    <2> QED BY <2>1, <2>2, ReadingsStay
  <1>4. CASE \E t \in {0, 1} : Query(Sampled(run, t))
    <2> PICK t \in {0, 1} : Query(Sampled(run, t))
      BY <1>4
    <2>1. Running /\ Answered /\ left' = left /\ (run' = Sampled(run, t) \/ run' = Return(run)) /\ bench' \in Benches
      BY <1>2
    <2>2. CASE run' = Sampled(run, t)
      BY <1>1, <2>1, <2>2, SampledMoves
    <2>3. CASE run' = Return(run)
      BY <1>1, <1>3, <2>1, <2>3
    <2> QED BY <2>1, <2>2, <2>3
  <1>5. CASE Query(OffTarget(run))
    <2>1. Running /\ Answered /\ left' = left /\ (run' = OffTarget(run) \/ run' = Return(run)) /\ bench' \in Benches
      BY <1>2, <1>5
    <2>2. CASE run' = OffTarget(run)
      <3>1. run' = [Go(run, 1) EXCEPT !.samples = <<>>, !.averages = <<>>, !.streak = 0]
        BY <2>2 DEF OffTarget
      <3> QED BY <1>1, <2>1, <3>1, ClearedMoves
    <2>3. CASE run' = Return(run)
      BY <1>1, <1>3, <2>1, <2>3
    <2> QED BY <2>1, <2>2, <2>3
  <1>6. CASE Calls /\ Quiet /\ ~bench.err /\ bench' = Send(bench, "relayOff") /\ run' = Throw(run) /\ UNCHANGED left
    <2>1. bench' \in Benches /\ Sends("relayOff")
      BY <1>6, SendTypes DEF Sends, ScriptTypes, Commands, PsuCommands
    <2>2. run' = Return(run) /\ Running
      BY <1>6 DEF Throw, Calls
    <2> QED BY <1>1, <1>3, <1>6, <2>1, <2>2
  <1> QED BY <1>4, <1>5, <1>6 DEF MeasureCurrent

LEMMA NewTargetMoves ==
  ASSUME ScriptTypes, PcInside, SettledPointContinuous, NewTarget
  PROVE  Moves /\ Running /\ StreakFits' /\ SettledPointContinuous' /\ bench' = bench /\ At("target")
  <1>1. Running /\ At("target") /\ bench' = bench /\ left' = left
        /\ run' = [Go(run, 1) EXCEPT !.samples = <<>>, !.averages = <<>>, !.streak = 0]
    BY DEF NewTarget, Then
  <1> QED BY <1>1, ClearedMoves DEF ScriptTypes

-----------------------------------------------------------------------------
(* The supply obeys.                                                       *)
Begins(e) == e.c = "capture" /\ e.from = -1 /\ bench.tx = "open"
LEMMA FirmwareMoves ==
  ASSUME ScriptTypes, Firmware
  PROVE  /\ bench' \in Benches /\ run' = run /\ left' = left /\ bench.fifo # <<>> /\ bench.fifo[1] \in Orders
         /\ bench'.out = bench.out /\ bench'.load = bench.load /\ bench'.level = bench.level
         /\ IF Begins(bench.fifo[1])
            THEN /\ bench' = [bench EXCEPT !.fifo[1].from = Level(bench)]
            ELSE /\ bench' = [Obey(bench, bench.fifo[1]) EXCEPT !.fifo = Tail(bench.fifo)]
                 /\ bench'.fifo = Tail(bench.fifo)
  <1> PICK e : e = Head(bench.fifo)
    OBVIOUS
  <1>1. bench.fifo # <<>> /\ bench.fifo \in Seq(Orders) /\ run' = run /\ left' = left
    BY DEF Firmware, Quiet, ScriptTypes, Benches
  <1>2. e = bench.fifo[1] /\ e \in Orders /\ Tail(bench.fifo) \in Seq(Orders) /\ 1 \in DOMAIN bench.fifo
    BY <1>1
  <1>3. Level(bench) \in Int
    BY DEF Level, ScriptTypes, Benches
  <1>4. CASE Begins(e)
    <2>1. bench' = [bench EXCEPT !.fifo[1].from = Level(bench)]
      BY <1>4 DEF Firmware, Begins
    <2> PICK g : g = [e EXCEPT !.from = Level(bench)]
      OBVIOUS
    <2>2. g \in Orders
      BY <1>2, <1>3 DEF Orders
    <2> PICK q : q = [bench.fifo EXCEPT ![1] = g]
      OBVIOUS
    <2>3. q \in Seq(Orders)
      BY <1>1, <1>2, <2>2
    <2>4. bench' = [bench EXCEPT !.fifo = q]
      BY <1>2, <2>1 DEF ScriptTypes, Benches
    <2>5. bench' \in Benches /\ bench'.out = bench.out /\ bench'.load = bench.load /\ bench'.level = bench.level
      BY <2>3, <2>4 DEF ScriptTypes, Benches
    <2> QED BY <1>1, <1>2, <1>4, <2>1, <2>5
  <1>5. CASE ~Begins(e)
    <2>1. bench' = [Obey(bench, e) EXCEPT !.fifo = Tail(@)]
      BY <1>5 DEF Firmware, Begins
    <2> PICK o : o = Obey(bench, e)
      OBVIOUS
    <2>2. o \in Benches /\ o.out = bench.out /\ o.load = bench.load /\ o.level = bench.level /\ o.fifo = bench.fifo
      BY <1>2, ObeyTypes DEF ScriptTypes
    <2>3. bench' = [o EXCEPT !.fifo = Tail(bench.fifo)]
      BY <2>1, <2>2 DEF Benches
    <2>4. bench' \in Benches /\ bench'.out = o.out /\ bench'.load = o.load /\ bench'.level = o.level
          /\ bench'.fifo = Tail(bench.fifo)
      BY <1>2, <2>2, <2>3 DEF Benches
    <2> QED BY <1>1, <1>2, <1>5, <2>2, <2>3, <2>4
  <1> QED BY <1>2, <1>4, <1>5

-----------------------------------------------------------------------------
(* Starting, cancelling and cleaning up.                                   *)
LEMMA NewLengths == ASSUME run' \in ScriptRuns PROVE run'.phase # "done" => Len(Program') \in Nat
  <1>1. run'.s \in Names
    BY DEF ScriptRuns
  <1>2. CASE run'.phase = "body"
    BY <1>1, <1>2, NewProgram, BodiesFit DEF BodyFits
  <1>3. CASE run'.phase = "cutoff"
    BY <1>3, NewProgram, CutoffText
  <1>4. CASE InCleanup'
    <2>1. run'.block \in 1..Len(Cleanup[run'.s])
      BY <1>1, <1>4, CleanupFit DEF InCleanup, ScriptRuns, Positive, CleanupsFit
    <2> QED BY <1>1, <1>4, <2>1, NewProgram, CleanupFit DEF CleanupsFit, BlockFits
  <1>5. CASE run'.phase = "cleanup" /\ ~InCleanup'
    BY <1>5, NewProgram
  <1> QED BY <1>2, <1>3, <1>4, <1>5 DEF ScriptRuns

LEMMA StartInside ==
  ASSUME run' \in ScriptRuns, run'.pc = 1, run'.phase = "body" \/ (run'.phase = "cleanup" /\ run'.tried)
  PROVE  PcInside'
  BY NewLengths DEF PcInside

LEMMA StartMoves ==
  ASSUME ScriptTypes, NEW s \in Scripts, Start(s)
  PROVE  /\ ScriptTypes' /\ PcInside' /\ bench' = bench /\ run'.phase = "body" /\ run'.pc = 1 /\ run'.s = s
         /\ run'.samples = <<>> /\ run'.averages = <<>> /\ run'.streak = 0 /\ run'.points = <<>>
  <1>1. s \in Names
    BY ScriptsAssumption DEF Body, Names
  <1> PICK n : n = Runs - left.runs + 1
    OBVIOUS
  <1>2. n \in Int
    BY ScriptsAssumption DEF ScriptTypes
  <1>3. run' = [Fresh(s) EXCEPT !.n = n] /\ bench' = bench /\ left' = [left EXCEPT !.runs = @ - 1]
    BY DEF Start
  <1>4. /\ run'.phase = "body" /\ run'.pc = 1 /\ run'.s = s
        /\ run'.samples = <<>> /\ run'.averages = <<>> /\ run'.streak = 0 /\ run'.points = <<>>
    BY <1>3 DEF Fresh
  <1>5. run' \in ScriptRuns
    <2>1. 1 \in Positive /\ <<>> \in Seq({0, 1}) /\ <<>> \in Seq(Sums) /\ <<>> \in Seq(CurvePoints)
      BY DEF Positive
    <2>2. PICK b \in BOOLEAN, m \in Int : b = (s # "operator") /\ m = Runs - left.runs
      <3>1. Runs - left.runs \in Int
        BY ScriptsAssumption DEF ScriptTypes
      <3> QED BY <3>1
    <2>3. PICK r : r = [s |-> s, n |-> m, phase |-> "body", pc |-> 1, block |-> 1, k |-> 1,
             open |-> FALSE, tried |-> b, stop |-> FALSE, lost |-> {}, prev |-> -1,
             samples |-> <<>>, averages |-> <<>>, streak |-> 0, points |-> <<>>]
      OBVIOUS
    <2>4. r \in ScriptRuns
      BY <1>1, <2>1, <2>3 DEF ScriptRuns
    <2>5. run' = [r EXCEPT !.n = n]
      BY <1>3, <2>2, <2>3 DEF Fresh
    <2> QED BY <1>2, <2>4, <2>5 DEF ScriptRuns
  <1>6. left' \in [runs : Int, faults : Int]
    BY <1>3 DEF ScriptTypes
  <1> QED BY <1>3, <1>4, <1>5, <1>6, StartInside DEF ScriptTypes

LEMMA CancelMoves ==
  ASSUME ScriptTypes, PcInside, Cancel
  PROVE  /\ ScriptTypes' /\ PcInside' /\ bench' = bench /\ run'.stop /\ SameReadings /\ SamePoint(run', run)
         /\ run'.phase = run.phase /\ run'.pc = run.pc /\ run'.s = run.s /\ run'.n = run.n /\ run.phase # "done"
  <1>1. run' = [run EXCEPT !.stop = TRUE] /\ bench' = bench /\ left' = left /\ run.phase # "done"
    BY DEF Cancel, Then
  <1>2. /\ run' \in ScriptRuns /\ run'.stop /\ run'.block = run.block /\ run'.tried = run.tried
        /\ SameReadings /\ SamePoint(run', run)
        /\ run'.phase = run.phase /\ run'.pc = run.pc /\ run'.s = run.s /\ run'.n = run.n
    BY <1>1 DEF ScriptTypes, ScriptRuns, SameReadings, SamePoint
  <1>3. Program' = Program
    BY <1>2 DEF Program
  <1>4. PcInside'
    BY <1>1, <1>2, <1>3 DEF PcInside
  <1> QED BY <1>1, <1>2, <1>4 DEF ScriptTypes

\* A step of the cleanup.
Cleans == /\ ScriptTypes' /\ PcInside' /\ SameReadings /\ run.phase = "cleanup" /\ run'.s = run.s
          /\ run'.tried = run.tried /\ run'.stop = run.stop
ToNextBlock == run'.block = run.block + 1 /\ run'.pc = 1 /\ run'.phase = "cleanup"
LEMMA NextBlockCleans ==
  ASSUME ScriptTypes, PcInside, run.phase = "cleanup", run' = NextBlock(run), bench' \in Benches, left' \in [runs : Int, faults : Int]
  PROVE  Cleans /\ ToNextBlock /\ run'.lost = run.lost
  <1>1. run' \in ScriptRuns /\ SameData(run', run) /\ run'.pc = 1 /\ run'.block = run.block + 1 /\ run'.phase = "cleanup"
    BY NextBlockMoves DEF ScriptTypes
  <1>2. PcInside'
    BY <1>1, StartInside DEF PcInside, SameData
  <1> QED BY <1>1, <1>2 DEF Cleans, ToNextBlock, SameData, SameReadings, ScriptTypes

\* The call a cleanup block is at.
LEMMA BlockCall ==
  ASSUME ScriptTypes, PcInside, InCleanup, run.pc <= Len(Program)
  PROVE  /\ run.block \in 1..Len(Cleanup[run.s]) /\ run.pc \in 1..Len(Program) /\ Len(Program) \in Nat
         /\ Program = Cleanup[run.s][run.block].do /\ BlockFits(run.s, run.block)
         /\ Program[run.pc] = Idle \/ \E c \in Offs \union {"abort", "srcZero"} : Program[run.pc] = W(c)
  <1>1. run.s \in Names /\ run.block \in Positive /\ run.pc \in Positive
    BY DEF ScriptTypes, ScriptRuns
  <1>2. run.block \in 1..Len(Cleanup[run.s]) /\ BlockFits(run.s, run.block)
    BY <1>1, CleanupFit DEF InCleanup, CleanupsFit, Positive
  <1>3. Program = Cleanup[run.s][run.block].do
    BY ProgramIs
  <1>4. run.pc \in 1..Len(Program) /\ Len(Program) \in Nat
    BY <1>1, <1>2, <1>3 DEF BlockFits, Positive
  <1> QED BY <1>2, <1>3, <1>4 DEF BlockFits

-----------------------------------------------------------------------------
(* What a script switches off stays off.                                   *)
LEMMA RelayAppend ==
  ASSUME ScriptTypes, bench' \in Benches, NEW d \in PsuCommands, d # "relayOn", Sends(d), RelayEndsOff \/ d = "relayOff"
  PROVE  RelayEndsOff'
  <1>0. PICK e : e = [c |-> d, k |-> run.k, n |-> run.n, from |-> -1, ref |-> Level(bench)]
    OBVIOUS
  <1>1. bench'.fifo = Append(bench.fifo, e) /\ bench'.relay = bench.relay
    <2>1. d \in Commands /\ bench \in Benches
      BY DEF ScriptTypes, Commands
    <2>2. /\ Send(bench, d).relay = bench.relay
          /\ Send(bench, d).fifo = Append(bench.fifo, [c |-> d, k |-> run.k, n |-> run.n, from |-> -1, ref |-> Level(bench)])
      BY <2>1, SendTypes
    <2> QED BY <1>0, <2>2 DEF Sends
  <1>2. bench.fifo \in Seq(Orders) /\ e.c = d
    BY <1>0 DEF ScriptTypes, Benches
  <1>7. PICK n : n = Len(bench.fifo)
    OBVIOUS
  <1>3. n \in Nat /\ DOMAIN bench.fifo = 1..n /\ DOMAIN bench'.fifo = 1..(n + 1) /\ bench'.fifo[n + 1] = e
        /\ \A i \in 1..n : bench'.fifo[i] = bench.fifo[i]
    BY <1>1, <1>2, <1>7
  <1>4. CASE d = "relayOff"
    BY <1>2, <1>3, <1>4 DEF RelayEndsOff
  <1>5. CASE d # "relayOff"
    <2>1. RelayEndsOff
      BY <1>5
    <2>2. \A i \in 1..(n + 1) : bench'.fifo[i].c = "relayOn" => i \in 1..n
      BY <1>2, <1>3
    <2>3. bench.relay => \E j \in 1..n : bench.fifo[j].c = "relayOff"
      BY <1>3, <2>1 DEF RelayEndsOff
    <2>4. \A i \in 1..n : bench.fifo[i].c = "relayOn" => \E j \in 1..n : i < j /\ bench.fifo[j].c = "relayOff"
      BY <1>3, <2>1 DEF RelayEndsOff
    <2>5. bench'.relay => \E j \in 1..(n + 1) : bench'.fifo[j].c = "relayOff"
      BY <1>1, <1>3, <2>3
    <2>6. \A i \in 1..(n + 1) : bench'.fifo[i].c = "relayOn" => \E j \in 1..(n + 1) : i < j /\ bench'.fifo[j].c = "relayOff"
      <3> SUFFICES ASSUME NEW i \in 1..(n + 1), bench'.fifo[i].c = "relayOn"
                   PROVE  \E j \in 1..(n + 1) : i < j /\ bench'.fifo[j].c = "relayOff"
        OBVIOUS
      <3>1. i \in 1..n /\ bench.fifo[i].c = "relayOn"
        BY <1>3, <2>2
      <3>2. PICK j \in 1..n : i < j /\ bench.fifo[j].c = "relayOff"
        BY <2>4, <3>1
      <3>3. j \in 1..(n + 1) /\ bench'.fifo[j].c = "relayOff"
        BY <1>3, <3>2
      <3> QED BY <3>2, <3>3
    <2> QED BY <1>3, <2>5, <2>6 DEF RelayEndsOff
  <1> QED BY <1>4, <1>5

LEMMA RelayObeyed ==
  ASSUME ScriptTypes, Firmware, RelayEndsOff PROVE RelayEndsOff'
  <1> PICK e : e = bench.fifo[1]
    OBVIOUS
  <1>1. bench.fifo # <<>> /\ e \in Orders /\ bench.fifo \in Seq(Orders) /\ bench \in Benches
    BY FirmwareMoves DEF ScriptTypes, Benches
  <1>2. CASE Begins(e)
    <2>1. bench' = [bench EXCEPT !.fifo[1].from = Level(bench)]
      BY <1>2, FirmwareMoves
    <2>2. bench'.relay = bench.relay /\ DOMAIN bench'.fifo = DOMAIN bench.fifo
          /\ \A i \in DOMAIN bench.fifo : bench'.fifo[i].c = bench.fifo[i].c
      BY <1>1, <2>1 DEF Benches, Orders
    <2> QED BY <2>2 DEF RelayEndsOff
  <1>3. CASE ~Begins(e)
    <2> PICK o : o = Obey(bench, e)
      OBVIOUS
    <2>1. o \in Benches /\ o.relay = (IF e.c = "relayOn" THEN TRUE ELSE IF e.c = "relayOff" THEN FALSE ELSE bench.relay)
      BY <1>1, ObeyTypes
    <2>2. bench' = [o EXCEPT !.fifo = Tail(bench.fifo)] /\ bench'.fifo = Tail(bench.fifo)
      BY <1>3, FirmwareMoves
    <2>3. bench'.relay = o.relay
      BY <2>1, <2>2 DEF Benches
    <2> PICK n : n = Len(bench.fifo) - 1
      OBVIOUS
    <2>4. n \in Nat /\ DOMAIN bench.fifo = 1..(n + 1) /\ DOMAIN bench'.fifo = 1..n
          /\ \A i \in 1..n : bench'.fifo[i] = bench.fifo[i + 1]
      BY <1>1, <2>2
    <2>5. \A j \in 1..(n + 1) : j # 1 => j - 1 \in 1..n /\ bench'.fifo[j - 1] = bench.fifo[j]
      BY <2>4
    <2>6. \A i \in 1..n : bench'.fifo[i].c = "relayOn" => \E j \in 1..n : i < j /\ bench'.fifo[j].c = "relayOff"
      <3> SUFFICES ASSUME NEW i \in 1..n, bench'.fifo[i].c = "relayOn" PROVE \E j \in 1..n : i < j /\ bench'.fifo[j].c = "relayOff"
        OBVIOUS
      <3>1. i + 1 \in 1..(n + 1) /\ bench.fifo[i + 1].c = "relayOn"
        BY <2>4
      <3>2. PICK j \in 1..(n + 1) : i + 1 < j /\ bench.fifo[j].c = "relayOff"
        BY <2>4, <3>1 DEF RelayEndsOff
      <3>3. j - 1 \in 1..n /\ i < j - 1 /\ bench'.fifo[j - 1] = bench.fifo[j]
        BY <2>4, <2>5, <3>2
      <3> QED BY <3>2, <3>3
    <2>7. ASSUME bench'.relay PROVE \E j \in 1..n : bench'.fifo[j].c = "relayOff"
      <3>1. e.c = "relayOn" \/ (e.c # "relayOff" /\ bench.relay)
        BY <2>1, <2>3, <2>7
      <3>2. PICK j \in 1..(n + 1) : j # 1 /\ bench.fifo[j].c = "relayOff"
        <4>1. CASE e.c = "relayOn"
          <5>1. 1 \in DOMAIN bench.fifo
            BY <2>4
          <5> QED BY <2>4, <4>1, <5>1 DEF RelayEndsOff
        <4>2. CASE e.c # "relayOff" /\ bench.relay
          BY <2>4, <4>2 DEF RelayEndsOff
        <4> QED BY <3>1, <4>1, <4>2
      <3> QED BY <2>5, <3>2
    <2> QED BY <2>4, <2>6, <2>7 DEF RelayEndsOff
  <1> QED BY <1>2, <1>3

LEMMA BlockGiven ==
  ASSUME ScriptTypes, PcInside, InCleanup, run'.s = run.s, NEW c \in Offs, Given(c)'
  PROVE  /\ ToNextBlock => Given(c) \/ \E i \in 1..Len(Program) : i >= run.pc /\ Program[i] = W(c)
         /\ run'.block = run.block /\ run'.pc = run.pc + 1 => Given(c) \/ (run.pc \in 1..Len(Program) /\ Program[run.pc] = W(c))
  <1>0. PICK b \in DOMAIN Cleanup[run.s] : \E i \in DOMAIN Cleanup[run.s][b].do :
          Cleanup[run.s][b].do[i] = W(c) /\ (b < run'.block \/ (b = run'.block /\ i < run'.pc))
    BY DEF Given
  <1>1. PICK i \in DOMAIN Cleanup[run.s][b].do :
          Cleanup[run.s][b].do[i] = W(c) /\ (b < run'.block \/ (b = run'.block /\ i < run'.pc))
    BY <1>0
  <1>2. run.s \in Names /\ run.block \in Positive /\ run.pc \in Positive
    BY DEF ScriptTypes, ScriptRuns
  <1>3. b \in 1..Len(Cleanup[run.s]) /\ Len(Cleanup[run.s]) \in Nat
    BY <1>1, <1>2, CleanupFit DEF CleanupsFit
  <1>4. i \in 1..Len(Cleanup[run.s][b].do) /\ Len(Cleanup[run.s][b].do) \in Nat
    BY <1>1, <1>2, <1>3, CleanupFit DEF CleanupsFit, BlockFits
  <1>5. Program = Cleanup[run.s][run.block].do
    BY ProgramIs
  <1>6. CASE b < run.block \/ (b = run.block /\ i < run.pc)
    BY <1>1, <1>6 DEF Given
  <1>7. CASE ~(b < run.block \/ (b = run.block /\ i < run.pc))
    <2>1. b >= run.block /\ (b = run.block => i >= run.pc)
      BY <1>2, <1>3, <1>4, <1>7 DEF Positive
    <2>2. ASSUME ToNextBlock PROVE \E j \in 1..Len(Program) : j >= run.pc /\ Program[j] = W(c)
      <3>1. b = run.block
        BY <1>1, <1>2, <1>3, <1>4, <2>1, <2>2 DEF ToNextBlock, Positive
      <3> QED BY <1>1, <1>4, <1>5, <2>1, <3>1
    <2>3. ASSUME run'.block = run.block, run'.pc = run.pc + 1 PROVE run.pc \in 1..Len(Program) /\ Program[run.pc] = W(c)
      <3>1. b = run.block /\ i = run.pc
        BY <1>1, <1>2, <1>3, <1>4, <2>1, <2>3 DEF Positive
      <3> QED BY <1>1, <1>4, <1>5, <3>1
    <2> QED BY <2>2, <2>3
  <1> QED BY <1>6, <1>7

\* A command of a cleanup leaves off what is off, and switches off what it names.
LEMMA OffStays ==
  ASSUME ScriptTypes, bench' \in Benches, NEW d \in Offs \union {"abort", "srcZero"}, Sends(d), NEW c \in Offs,
         SwitchedOff(c) \/ c = d
  PROVE  SwitchedOff(c)'
  <1>1. bench \in Benches /\ d \in Commands /\ d \notin {"srcOn", "loadOn", "relayOn"}
    BY DEF ScriptTypes, Offs, Commands, PsuCommands
  <1>5. /\ bench'.out = (IF d = "srcOff" THEN FALSE ELSE bench.out)
        /\ bench'.load = (IF d = "loadOff" THEN FALSE ELSE bench.load)
    <2>1. /\ Send(bench, d).out = (IF d = "srcOn" THEN TRUE ELSE IF d = "srcOff" THEN FALSE ELSE bench.out)
          /\ Send(bench, d).load = (IF d = "loadOn" THEN TRUE ELSE IF d = "loadOff" THEN FALSE ELSE bench.load)
      BY <1>1, SendTypes
    <2> QED BY <1>1, <2>1 DEF Sends
  <1>2. c = "srcOff" => ~bench'.out
    BY <1>5 DEF SwitchedOff
  <1>3. c = "loadOff" => ~bench'.load
    BY <1>5 DEF SwitchedOff
  <1>4. ASSUME c = "relayOff" PROVE RelayEndsOff'
    <2>1. CASE d \in PsuCommands
      BY <1>1, <1>4, <2>1, RelayAppend DEF SwitchedOff
    <2>2. CASE d \notin PsuCommands
      <3>1. bench'.fifo = bench.fifo /\ bench'.relay = bench.relay
        BY <1>1, <2>2, SendTypes DEF Sends
      <3>2. d # "relayOff"
        BY <2>2 DEF PsuCommands
      <3> QED BY <1>4, <3>1, <3>2 DEF SwitchedOff, RelayEndsOff
    <2> QED BY <2>1, <2>2
  <1> QED BY <1>2, <1>3, <1>4 DEF SwitchedOff

LEMMA CleanupActions ==
  ASSUME ScriptTypes, PcInside, CleanupFits, Finally
  PROVE  /\ Cleans /\ CleanupFits' /\ run'.phase \in {"cleanup", "done"}
         /\ \/ bench' = bench \/ Answered
            \/ \E d \in Offs \union {"abort", "srcZero"} : Sends(d)
  <1>0. run.phase = "cleanup" /\ run.tried
    BY DEF Finally, CleanupSkips, CleanupWrite, CleanupChecks, CleanupThrows, CleanupBlockEnds, Ends, InCleanup, PcInside
  <1>a. bench \in Benches /\ left \in [runs : Int, faults : Int]
    BY DEF ScriptTypes
  <1>b. ASSUME Cleans, run.lost \subseteq run'.lost,
               \A c \in Offs : ~run.stop /\ Given(c)' /\ ~Failed(c)' => (Given(c) /\ (SwitchedOff(c) => SwitchedOff(c)')) \/ SwitchedOff(c)'
        PROVE  CleanupFits'
    <2> SUFFICES ASSUME ~run.stop, NEW c \in Offs, Given(c)', ~Failed(c)' PROVE SwitchedOff(c)'
      BY <1>b DEF CleanupFits, Cleans
    <2>1. ~Failed(c)
      BY <1>b DEF Failed, Cleans
    <2> QED BY <1>0, <1>b, <2>1 DEF CleanupFits
  <1>c. ASSUME Answered \/ bench' = bench, NEW c \in Offs, SwitchedOff(c) PROVE SwitchedOff(c)'
    <2>1. bench'.out = bench.out /\ bench'.relay = bench.relay /\ bench'.load = bench.load /\ bench'.fifo = bench.fifo
      BY <1>c, CalmBench DEF Answered
    <2> QED BY <1>c, <2>1 DEF SwitchedOff, RelayEndsOff
  <1>1. CASE CleanupSkips
    <2>1. Cleans /\ ToNextBlock /\ run'.lost = run.lost /\ bench' = bench
      BY <1>0, <1>1, <1>a, NextBlockCleans DEF CleanupSkips, Then
    <2>2. ASSUME NEW c \in Offs, Given(c)' PROVE Given(c)
      <3>1. InCleanup /\ run'.s = run.s /\ Cleanup[run.s][run.block].if = "open"
        BY <1>1, <2>1 DEF CleanupSkips, Wanted, Cleans
      <3>2. run.block \in 1..Len(Cleanup[run.s]) /\ run.s \in Names
        BY <3>1, CleanupFit DEF InCleanup, CleanupsFit, ScriptTypes, ScriptRuns, Positive
      <3>3. \A i \in 1..Len(Program) : Program[i] # W(c)
        BY <3>1, <3>2, ProgramIs, CleanupFit DEF CleanupsFit, BlockFits
      <3> QED BY <2>1, <2>2, <3>1, <3>3, BlockGiven
    <2>3. CleanupFits'
      BY <1>b, <1>c, <2>1, <2>2
    <2> QED BY <2>1, <2>3 DEF ToNextBlock
  <1>2. CASE CleanupWrite
    <2>1. InCleanup /\ At("write") /\ bench' = Send(bench, Program[run.pc][2]) /\ run' = Go(run, 1) /\ left' = left
      BY <1>2 DEF CleanupWrite
    <2>2. PICK d \in Offs \union {"abort", "srcZero"} : Program[run.pc] = W(d)
      BY <2>1, BlockCall DEF At, Idle
    <2>3. run.pc \in 1..Len(Program) /\ Len(Program) \in Nat
      BY <2>1, BlockCall DEF At
    <2>4. Sends(d)
      BY <2>1, <2>2 DEF Sends, W
    <2>5. bench' \in Benches
      BY <1>a, <2>4, SendTypes DEF Sends, Commands, PsuCommands, Offs
    <2>6. run' \in ScriptRuns /\ SameData(run', run) /\ run'.pc = run.pc + 1 /\ run'.phase = run.phase /\ run'.block = run.block
      BY <2>1, <2>3, GoMoves DEF ScriptTypes, Positive
    <2>7. PcInside'
      <3>1. InCleanup' /\ Program' = Program
        BY <2>1, <2>6, NewProgram, ProgramIs DEF InCleanup, SameData
      <3> QED BY <1>0, <2>3, <2>6, <3>1 DEF PcInside, SameData
    <2>8. Cleans /\ run'.lost = run.lost
      BY <1>0, <1>a, <2>1, <2>5, <2>6, <2>7 DEF Cleans, SameData, SameReadings, ScriptTypes
    <2>9. ASSUME NEW c \in Offs, Given(c)' PROVE Given(c) \/ c = d
      <3>1. Given(c) \/ Program[run.pc] = W(c)
        BY <2>1, <2>6, <2>8, <2>9, BlockGiven DEF Cleans
      <3> QED BY <2>2, <3>1 DEF W
    <2>10. CleanupFits'
      BY <1>b, <2>4, <2>5, <2>8, <2>9, OffStays
    <2> QED BY <1>0, <2>4, <2>6, <2>8, <2>10
  <1>3. CASE CleanupChecks
    <2>1. InCleanup /\ At("expect") /\ Answered /\ run' = NextBlock(run) /\ left' = left
      BY <1>3 DEF CleanupChecks, Answered
    <2>2. bench' \in Benches
      BY <2>1, CalmBench DEF Answered
    <2>3. Cleans /\ ToNextBlock /\ run'.lost = run.lost
      BY <1>0, <1>a, <2>1, <2>2, NextBlockCleans
    <2>4. ASSUME NEW c \in Offs, Given(c)' PROVE Given(c)
      <3>1. Program[run.pc] = Idle /\ run.pc \in 1..Len(Program)
        BY <2>1, BlockCall DEF At, W
      <3>2. \A i \in 1..Len(Program) : Program[i] # W(c)
        <4>1. BlockFits(run.s, run.block) /\ Program = Cleanup[run.s][run.block].do
          BY <2>1, BlockCall DEF At
        <4>2. Cleanup[run.s][run.block].if = "open"
          BY <3>1, <4>1 DEF BlockFits
        <4> QED BY <4>1, <4>2 DEF BlockFits
      <3> QED BY <2>1, <2>3, <2>4, <3>2, BlockGiven DEF Cleans
    <2>5. CleanupFits'
      BY <1>b, <1>c, <2>1, <2>3, <2>4
    <2> QED BY <2>1, <2>3, <2>5 DEF ToNextBlock
  <1>4. CASE CleanupThrows /\ run.stop
    <2>1. run' = NextBlock(run) /\ bench' = bench /\ left' = left
      BY <1>4 DEF CleanupThrows, Then
    <2>2. Cleans /\ ToNextBlock /\ run'.lost = run.lost
      BY <1>0, <1>a, <2>1, NextBlockCleans
    <2>3. CleanupFits'
      BY <1>4, <2>2 DEF CleanupFits, Cleans
    <2> QED BY <2>1, <2>2, <2>3 DEF ToNextBlock
  <1>5. CASE CleanupThrows /\ ~run.stop
    <2>1. /\ InCleanup /\ run.pc <= Len(Program) /\ bench' = bench /\ left' = [left EXCEPT !.faults = @ - 1]
          /\ run' = [NextBlock(run) EXCEPT !.lost = @ \union {Program[run.pc][2]}]
      BY <1>5 DEF CleanupThrows
    <2>2. Program[run.pc][2] \in Commands \union {"idle"}
      BY <2>1, BlockCall DEF Idle, W, Offs, Commands, PsuCommands
    <2>9. PICK r, x : r = NextBlock(run) /\ x = Program[run.pc][2]
      OBVIOUS
    <2>3. r \in ScriptRuns /\ SameData(r, run) /\ r.pc = 1 /\ r.block = run.block + 1 /\ r.phase = "cleanup"
      BY <1>0, <2>9, NextBlockMoves DEF ScriptTypes
    <2>4. /\ run' \in ScriptRuns /\ run'.lost = run.lost \union {x} /\ run'.pc = 1 /\ run'.block = run.block + 1
          /\ run'.phase = "cleanup" /\ run'.s = run.s /\ run'.tried = run.tried /\ run'.stop = run.stop /\ SameReadings
      <3>1. run' = [r EXCEPT !.lost = run.lost \union {x}] /\ x \in Commands \union {"idle"}
        BY <2>1, <2>2, <2>3, <2>9 DEF SameData, ScriptRuns
      <3>2. run.lost \union {x} \in SUBSET (Commands \union {"idle"})
        BY <3>1 DEF ScriptTypes, ScriptRuns
      <3>3. run' \in ScriptRuns
        BY <2>3, <3>1, <3>2 DEF ScriptRuns
      <3> QED BY <2>3, <3>1, <3>3 DEF ScriptRuns, SameData, SameReadings
    <2>5. left' \in [runs : Int, faults : Int]
      BY <1>a, <2>1
    <2>6. PcInside'
      BY <1>0, <2>4, StartInside
    <2>7. Cleans /\ ToNextBlock
      BY <1>0, <1>a, <2>1, <2>4, <2>5, <2>6 DEF Cleans, ToNextBlock, ScriptTypes
    <2>8. ASSUME NEW c \in Offs, Given(c)', ~Failed(c)' PROVE Given(c)
      <3>1. CASE \E i \in 1..Len(Program) : i >= run.pc /\ Program[i] = W(c)
        <4>1. PICK i \in 1..Len(Program) : i >= run.pc /\ Program[i] = W(c)
          BY <3>1
        <4>2. BlockFits(run.s, run.block) /\ Program = Cleanup[run.s][run.block].do /\ run.pc \in 1..Len(Program)
              /\ Len(Program) \in Nat
          BY <2>1, BlockCall
        <4>3. Len(Program) = 1 \/ run.s \in {"accuracy", "sweep"}
          BY <4>1, <4>2 DEF BlockFits
        <4>4. CASE run.s \in {"accuracy", "sweep"}
          BY <2>4, <2>8, <4>4 DEF Failed
        <4>5. CASE Len(Program) = 1
          <5>1. Program[run.pc] = W(c)
            BY <4>1, <4>2, <4>5
          <5>2. x = c
            BY <2>9, <5>1 DEF W
          <5> QED BY <2>4, <2>8, <5>2 DEF Failed
        <4> QED BY <4>3, <4>4, <4>5
      <3> QED BY <2>1, <2>4, <2>7, <2>8, <3>1, BlockGiven
    <2>10. CleanupFits'
      BY <1>b, <1>c, <2>1, <2>4, <2>7, <2>8
    <2> QED BY <2>1, <2>4, <2>7, <2>10
  <1>6. CASE CleanupBlockEnds
    <2>1. InCleanup /\ run.pc > Len(Program) /\ run' = NextBlock(run) /\ bench' = bench /\ left' = left
      BY <1>6 DEF CleanupBlockEnds, Then
    <2>2. Cleans /\ ToNextBlock /\ run'.lost = run.lost
      BY <1>0, <1>a, <2>1, NextBlockCleans
    <2>3. ASSUME NEW c \in Offs, Given(c)' PROVE Given(c)
      <3>1. ~\E i \in 1..Len(Program) : i >= run.pc
        BY <1>0, <2>1, Lengths DEF ScriptTypes, ScriptRuns, Positive
      <3> QED BY <2>1, <2>2, <2>3, <3>1, BlockGiven DEF Cleans
    <2>4. CleanupFits'
      BY <1>b, <1>c, <2>1, <2>2, <2>3
    <2> QED BY <2>1, <2>2, <2>4 DEF ToNextBlock
  <1>7. CASE Ends
    <2>1. run.block > Len(Cleanup[run.s]) /\ run' = [run EXCEPT !.phase = "done"] /\ bench' = bench /\ left' = left
      BY <1>7 DEF Ends, Then
    <2>2. /\ run' \in ScriptRuns /\ run'.s = run.s /\ run'.tried = run.tried /\ run'.stop = run.stop /\ SameReadings
          /\ run'.lost = run.lost /\ run'.block = run.block /\ run'.pc = run.pc /\ run'.phase = "done"
      BY <2>1 DEF ScriptTypes, ScriptRuns, SameReadings
    <2>3. PcInside'
      BY <2>1, <2>2 DEF PcInside
    <2>4. Cleans
      BY <1>0, <1>a, <2>1, <2>2, <2>3 DEF Cleans, ScriptTypes
    <2>5. ASSUME NEW c \in Offs, Given(c)' PROVE Given(c)
      BY <2>2, <2>5 DEF Given
    <2>6. CleanupFits'
      BY <1>b, <1>c, <2>1, <2>2, <2>4, <2>5
    <2> QED BY <2>1, <2>2, <2>4, <2>6
  <1> QED BY <1>1, <1>2, <1>3, <1>4, <1>5, <1>6, <1>7 DEF Finally

LEMMA LeavesClean == ASSUME ScriptTypes', Leaves PROVE CleanupFits'
  <1> SUFFICES ASSUME run'.tried, NEW c \in Offs, Given(c)' PROVE FALSE
    BY DEF CleanupFits
  <1>1. run'.block = 1 /\ run'.pc = 1 /\ run'.s \in Names
    BY DEF Leaves, ScriptTypes, ScriptRuns
  <1>2. PICK b \in DOMAIN Cleanup[run'.s] : \E i \in DOMAIN Cleanup[run'.s][b].do : b < run'.block \/ (b = run'.block /\ i < run'.pc)
    BY DEF Given
  <1>3. b \in 1..Len(Cleanup[run'.s]) /\ BlockFits(run'.s, b) /\ Len(Cleanup[run'.s]) \in Nat
    BY <1>1, <1>2, CleanupFit DEF CleanupsFit
  <1>4. DOMAIN Cleanup[run'.s][b].do = 1..Len(Cleanup[run'.s][b].do) /\ Len(Cleanup[run'.s][b].do) \in Nat
    BY <1>3 DEF BlockFits
  <1> QED BY <1>1, <1>2, <1>3, <1>4
LEMMA OnwardClean == ASSUME Running, Onward PROVE CleanupFits'
  BY DEF Running, Onward, CleanupFits

-----------------------------------------------------------------------------
(* The steps of a body, by the call it is at.                              *)
Op == Body[run.s][run.pc][1]
Arg == Body[run.s][run.pc][2]
Passes == run'.pc = run.pc + 1 /\ SamePoint(run', run)
StepIs ==
  /\ run.pc \in 1..Len(Body[run.s]) /\ Len(Body[run.s]) \in Nat /\ bench' \in Benches
  /\ run'.s = run.s /\ run'.n = run.n
  /\ Op \in {"sleep", "load", "poll", "swap", "answer", "opened", "closed", "try"} => bench' = bench /\ Passes
  /\ Op = "again" => bench' = bench /\ run'.pc = run.pc + 1
  /\ Op = "write" => Sends(Arg) /\ Passes
  /\ Op \in {"ask", "expect", "count", "confirm"} => Answered /\ Passes
  /\ Op = "expect" => bench.tx = Arg
  /\ Op = "count" => Len(bench.staged) = Arg
  /\ Op = "confirm" => Len(bench.staged) = run.k
  /\ Op = "skipIdle" =>
       /\ Answered /\ SamePoint(run', run)
       /\ run'.pc = IF bench.tx = "idle" THEN run.pc + (1 + Arg) ELSE run.pc + 1
  /\ Op = "meter" => bench' = bench /\ MeterAccepts /\ run'.prev = Level(bench) /\ run'.k = run.k /\ run'.pc = run.pc + 1
  /\ Op = "operator" =>
       \/ bench' \in {bench, [bench EXCEPT !.level = run.k - 1]} /\ Passes
       \/ bench' = bench /\ run'.pc = run.pc + Arg /\ SamePoint(run', run)
  /\ Op = "next" => /\ bench' = bench /\ run'.prev = run.prev
                    /\ IF run.k < Points THEN run'.pc = run.pc - Arg /\ run'.k = run.k + 1
                       ELSE run'.pc = run.pc + 1 /\ run'.k = run.k

LEMMA BodyStep ==
  ASSUME ScriptTypes, PcInside, StreakFits, SettledPointContinuous, Mark \/ NextPoint \/ HostCall \/ NewTarget,
         run.phase = "body", run'.phase = "body"
  PROVE  StepIs
  <1>0. Running /\ run \in ScriptRuns /\ run.pc \in Positive
    BY DEF Running, ScriptTypes, ScriptRuns
  <1> DEFINE InBody == run.pc \in 1..Len(Body[run.s]) /\ Len(Body[run.s]) \in Nat
  <1>1. ASSUME NEW op, At(op) PROVE InBody /\ Op = op /\ Arg = Program[run.pc][2]
    <2>1. run.pc \in 1..Len(Program) /\ Len(Program) \in Nat /\ Program[run.pc] = Body[run.s][run.pc] /\ Program = Body[run.s]
      BY <1>0, <1>1, CallIs, ProgramIs
    <2> QED BY <1>1, <2>1 DEF At, Op, Arg
  <1>2. ASSUME NEW n \in Int, run.pc + n \in Positive, run' = Go(run, n) PROVE run'.pc = run.pc + n /\ SamePoint(run', run)
    BY <1>0, <1>2, GoMoves
  <1>3. run' # Return(run)
    BY <1>0, ReturnMoves
  <1>4. run' = Go(run, 1) => Passes
    BY <1>0, <1>2 DEF Passes, Positive
  <1> DEFINE Same == run'.s = run.s /\ run'.n = run.n /\ bench' \in Benches
  <1>5. Moves => Same
    BY DEF Moves, ScriptTypes
  <1>6. CASE Write
    <2>1. Moves /\ Written /\ run' = Go(run, 1) /\ At("write")
      BY <1>6, WriteMoves DEF Written
    <2> QED BY <1>1, <1>4, <1>5, <2>1 DEF StepIs, Written
  <1>7. CASE Wait
    <2>1. Moves /\ bench' = bench /\ run' = Go(run, 1) /\ (At("sleep") \/ At("load"))
      BY <1>7, WaitMoves DEF Wait
    <2> QED BY <1>1, <1>4, <1>5, <2>1 DEF StepIs
  <1>8. CASE CheckCancelled
    <2>1. Moves /\ bench' = bench /\ run' = Go(run, 1) /\ At("poll")
      BY <1>3, <1>8, CheckCancelledMoves DEF CheckCancelled
    <2> QED BY <1>1, <1>4, <1>5, <2>1 DEF StepIs
  <1>9. CASE AskSupply
    <2>1. Moves /\ Answered /\ run' = Go(run, 1) /\ At("ask")
      BY <1>3, <1>9, AskMoves DEF AskSupply
    <2> QED BY <1>1, <1>4, <1>5, <2>1 DEF StepIs
  <1>10. CASE ExpectTransaction
    <2>1. Moves /\ Answered /\ run' = Go(run, 1) /\ At("expect")
      BY <1>3, <1>10, AskMoves DEF ExpectTransaction
    <2>2. bench.tx = Program[run.pc][2]
      BY <1>3, <1>10 DEF ExpectTransaction, Query, Throw
    <2> QED BY <1>1, <1>4, <1>5, <2>1, <2>2 DEF StepIs
  <1>11. CASE ExpectCount
    <2>1. Moves /\ Answered /\ run' = Go(run, 1) /\ At("count")
      BY <1>3, <1>11, AskMoves DEF ExpectCount
    <2>2. Len(bench.staged) = Program[run.pc][2]
      BY <1>3, <1>11 DEF ExpectCount, Query, Throw
    <2> QED BY <1>1, <1>4, <1>5, <2>1, <2>2 DEF StepIs
  <1>12. CASE Confirm
    <2>1. Moves /\ Answered /\ run' = Go(run, 1) /\ At("confirm")
      BY <1>3, <1>12, AskMoves DEF Confirm
    <2>2. Len(bench.staged) = run.k
      BY <1>3, <1>12 DEF Confirm, Query, Throw
    <2> QED BY <1>1, <1>4, <1>5, <2>1, <2>2 DEF StepIs
  <1>13. CASE AbortUnfinished
    <2>0. PICK n : n = IF bench.tx = "idle" THEN 1 + Program[run.pc][2] ELSE 1
      OBVIOUS
    <2>1. Moves /\ Answered /\ run' = Go(run, n) /\ At("skipIdle")
      BY <1>3, <1>13, <2>0, SkipMoves
    <2>2. InBody /\ Op = "skipIdle" /\ Arg = Program[run.pc][2] /\ CallFits(run.s, run.pc)
      BY <1>0, <1>1, <2>1, CallIs
    <2>3. Arg \in Nat
      BY <2>2 DEF CallFits, Op, Arg
    <2>4. run'.pc = run.pc + n /\ SamePoint(run', run)
      <3>1. n \in Int /\ n >= 1
        BY <2>0, <2>2, <2>3
      <3>2. run.pc + n \in Positive
        BY <1>0, <3>1 DEF Positive
      <3> QED BY <1>2, <2>1, <3>1, <3>2
    <2> QED BY <1>5, <2>0, <2>1, <2>2, <2>3, <2>4 DEF StepIs
  <1>14. CASE ReadMeter
    <2>1. Moves /\ bench' = bench /\ At("meter") /\ MeterAccepts /\ run'.prev = Level(bench) /\ run'.k = run.k /\ run'.pc = run.pc + 1
      BY <1>3, <1>14, ReadMeterMoves
    <2> QED BY <1>1, <1>5, <2>1 DEF StepIs
  <1>15. CASE OperatorInput
    <2>1. Moves /\ At("operator")
      BY <1>15, OperatorMoves
    <2>2. InBody /\ Op = "operator" /\ Arg = Program[run.pc][2] /\ CallFits(run.s, run.pc)
      BY <1>0, <1>1, <2>1, CallIs
    <2>3. Arg \in Nat
      BY <2>2 DEF CallFits, Op, Arg
    <2>4. CASE bench' \in {bench, [bench EXCEPT !.level = run.k - 1]} /\ run' = Go(run, 1)
      BY <1>4, <1>5, <2>1, <2>2, <2>4 DEF StepIs
    <2>5. CASE bench' = bench /\ run' = Go(run, Arg)
      <3>1. run'.pc = run.pc + Arg /\ SamePoint(run', run)
        BY <1>0, <1>2, <2>3, <2>5 DEF Positive
      <3> QED BY <1>5, <2>1, <2>2, <2>5, <3>1 DEF StepIs
    <2> QED BY <1>15, <2>2, <2>4, <2>5, OperatorMoves
  <1>16. CASE LoadSwapped \/ Answer
    <2>1. Moves /\ bench' = bench /\ run' = Go(run, 1) /\ (At("swap") \/ At("answer"))
      BY <1>3, <1>16, ChoiceMoves DEF LoadSwapped, Answer
    <2> QED BY <1>1, <1>4, <1>5, <2>1 DEF StepIs
  <1>17. CASE MeasureTemperature
    <2>1. Moves /\ At("temperature")
      BY <1>17, TemperatureMoves
    <2> QED BY <1>1, <1>5, <2>1 DEF StepIs
  <1>18. CASE MeasureCurrent
    <2>1. Moves /\ At("settle")
      BY <1>18, MeasureMoves
    <2> QED BY <1>1, <1>5, <2>1 DEF StepIs
  <1>19. CASE SettlingTimesOut
    BY <1>3, <1>19 DEF SettlingTimesOut, Then, Throw
  <1>20. CASE NewTarget
    <2>1. Moves /\ At("target")
      BY <1>20, NewTargetMoves
    <2> QED BY <1>1, <1>5, <2>1 DEF StepIs
  <1>21. CASE NextPoint
    <2>1. At("next") /\ Same /\ bench' = bench /\ run'.prev = run.prev
          /\ IF run.k < Points THEN run'.pc = run.pc - Program[run.pc][2] /\ run'.k = run.k + 1
             ELSE run'.pc = run.pc + 1 /\ run'.k = run.k
      BY <1>21, NextPointMoves DEF NextPoint, SameData, ScriptTypes
    <2> QED BY <1>1, <2>1 DEF StepIs
  <1>22. CASE Mark
    <2>1. Same /\ bench' = bench
      BY <1>22, MarkMoves DEF ScriptTypes
    <2>2. CASE At("jump")
      BY <1>1, <2>1, <2>2 DEF StepIs
    <2>3. CASE At("again")
      <3>1. ~At("jump")
        BY <2>3 DEF At
      <3>2. run'.pc = run.pc + 1
        BY <1>22, <3>1, MarkMoves
      <3> QED BY <1>1, <2>1, <2>3, <3>2 DEF StepIs
    <2>4. CASE ~At("jump") /\ ~At("again")
      <3>1. Passes
        BY <1>22, <2>4, MarkMoves DEF Passes
      <3>2. At("opened") \/ At("closed") \/ At("try")
        BY <1>22, <2>4 DEF Mark
      <3> QED BY <1>1, <2>1, <3>1, <3>2 DEF StepIs
    <2> QED BY <2>2, <2>3, <2>4
  <1> QED BY <1>6, <1>7, <1>8, <1>9, <1>10, <1>11, <1>12, <1>13, <1>14, <1>15, <1>16, <1>17, <1>18, <1>19, <1>20, <1>21, <1>22
        DEF HostCall

\* The operator's resistor: the source is off since the call before.
SweepCall(i) == LET call == Body["sweep"][i] IN
  /\ call[1] \in {"write", "ask", "sleep", "poll", "meter", "next", "swap", "again"}
  /\ call[1] = "next" => i \in {17, 30} /\ call[2] = 6
  /\ i = 19 => call = W("srcOff")
LEMMA SweepCalls == \A i \in 1..30 : SweepCall(i)
  <1>1. \A i \in 1..15 : SweepCall(i)
    BY SweepBodyText DEF SweepCall, SweepText, W, Ask, Sleep, Poll, Meter
  <1>2. \A i \in 16..30 : SweepCall(i)
    BY SweepBodyText DEF SweepCall, SweepText, W, Ask, Sleep, Poll, Meter, Next1
  <1> QED BY <1>1, <1>2

LEMMA SwapStep ==
  ASSUME ScriptTypes, run.phase = "body", run'.phase = "body", StepIs PROVE SwapFits'
  <1> SUFFICES ASSUME run'.s = "sweep", run'.pc = 20 PROVE ~bench'.out
    BY DEF SwapFits
  <1>1. run.s = "sweep" /\ run.pc \in 1..30
    BY SweepBodyText DEF StepIs
  <1>2. Op \in {"write", "ask", "sleep", "poll", "meter", "next", "swap", "again"} /\ (Op = "next" => run.pc \in {17, 30} /\ Arg = 6)
    BY <1>1, SweepCalls DEF Op, Arg, SweepCall
  <1>3. run.pc = 19
    BY <1>1, <1>2 DEF StepIs, Passes
  <1>4. Op = "write" /\ Arg = "srcOff"
    BY <1>1, <1>3, SweepCalls DEF Op, Arg, SweepCall, W
  <1>5. bench' = Send(bench, "srcOff") /\ "srcOff" \in Commands /\ bench \in Benches
    BY <1>4 DEF StepIs, Sends, Commands, ScriptTypes
  <1> QED BY <1>5, SendTypes

-----------------------------------------------------------------------------
(* The voltage calibration.                                                *)
LEMMA CalmStays ==
  ASSUME ScriptTypes, bench' = bench \/ Answered
  PROVE  /\ bench'.staged = bench.staged /\ bench'.fifo = bench.fifo /\ Level(bench)' = Level(bench) /\ bench'.tx = bench.tx
         /\ bench'.saved = bench.saved /\ bench'.out = bench.out /\ bench'.relay = bench.relay /\ bench'.load = bench.load
  BY CalmBench DEF Answered, Level
LEMMA SendStays ==
  ASSUME ScriptTypes, NEW c \in Commands, Sends(c)
  PROVE  /\ bench'.staged = bench.staged /\ bench'.saved = bench.saved /\ bench'.tx = bench.tx
         /\ c \notin PsuCommands => bench'.fifo = bench.fifo
         /\ c \in PsuCommands => Level(bench)' = Level(bench)
         /\ c \in PsuCommands =>
              bench'.fifo = Append(bench.fifo, [c |-> c, k |-> run.k, n |-> run.n, from |-> -1, ref |-> Level(bench)])
  <1>1. bench \in Benches
    BY DEF ScriptTypes
  <1>2. /\ Send(bench, c).tx = bench.tx /\ Send(bench, c).staged = bench.staged /\ Send(bench, c).saved = bench.saved
        /\ c \notin PsuCommands => Send(bench, c).fifo = bench.fifo
        /\ c \in PsuCommands =>
              Send(bench, c).fifo = Append(bench.fifo, [c |-> c, k |-> run.k, n |-> run.n, from |-> -1, ref |-> Level(bench)])
        /\ c \in PsuCommands => Level(Send(bench, c)) = Level(bench)
    BY <1>1, SendTypes
  <1>3. bench' = Send(bench, c)
    BY DEF Sends
  <1>4. Level(bench)' = Level(Send(bench, c))
    BY <1>3 DEF Level
  <1> QED BY <1>2, <1>3, <1>4

VoltageCall(i) == LET call == Body["voltage"][i] IN
  /\ call[1] \notin {"operator", "jump", "settle", "target", "temperature", "confirm", "again"}
  /\ call[1] = "next" => i = 21 /\ call[2] = 6
  /\ call[1] = "skipIdle" => i = 3 /\ call[2] = 2
  /\ i = 11 => call[1] = "count" /\ call[2] = 0
  /\ i \in {12, 13, 16} => call[1] = "write" /\ call[2] \in {"srcZero", "srcOn", "srcPoint"}
  /\ i \in {14, 15, 17} => call[1] \in {"sleep", "poll"}
  /\ i = 18 => call[1] = "meter"
  /\ i = 19 => call[1] = "write" /\ call[2] = "capture"
  /\ i = 20 => call[1] = "ask"
  /\ i = 21 => call[1] = "next"
  /\ i = 22 => call[1] = "count"
  /\ i \notin 11..22 => call[1] \in {"write", "ask", "expect", "skipIdle", "opened", "closed", "count"}
LEMMA VoltageCalls == \A i \in 1..25 : VoltageCall(i)
  <1>1. \A i \in 1..6 : VoltageCall(i)
    BY VoltageBody DEF VoltageCall, VoltageText, W, Ask, Idle
  <1>2. \A i \in 7..12 : VoltageCall(i)
    BY VoltageBody DEF VoltageCall, VoltageText, W
  <1>3. \A i \in 13..18 : VoltageCall(i)
    BY VoltageBody DEF VoltageCall, VoltageText, W, Sleep, Poll, Meter
  <1>4. \A i \in 19..25 : VoltageCall(i)
    BY VoltageBody DEF VoltageCall, VoltageText, W, Ask, Idle, Next1
  <1> QED BY <1>1, <1>2, <1>3, <1>4

LEMMA VoltageStep ==
  ASSUME ScriptTypes, VoltageFits, run.phase = "body", StepIs, run.s = "voltage", run'.phase = "body"
  PROVE  VoltageFits'
  <1>1. run.pc \in 1..25 /\ VoltageCall(run.pc)
    BY VoltageBody, VoltageCalls DEF StepIs
  <1>2. run.pc \in 12..23 => VoltageTable
    BY DEF VoltageFits
  <1>3. (bench'.staged = bench.staged /\ VoltageTable) => VoltageTable'
    BY DEF VoltageTable, OwnTable, StepIs
  <1>4. CASE run.pc \notin 11..22
    <2>1. run'.pc \notin 12..23
      <3>1. Op \in {"write", "ask", "expect", "skipIdle", "opened", "closed", "count"}
        BY <1>1, <1>4 DEF VoltageCall, Op
      <3>2. CASE Op = "skipIdle"
        <4>1. run.pc = 3 /\ Arg = 2
          BY <1>1, <3>2 DEF VoltageCall, Op, Arg
        <4> QED BY <3>2, <4>1 DEF StepIs
      <3>3. CASE Op # "skipIdle"
        <4>1. run'.pc = run.pc + 1
          BY <3>1, <3>3 DEF StepIs, Passes
        <4> QED BY <1>1, <1>4, <4>1
      <3> QED BY <3>2, <3>3
    <2> QED BY <2>1 DEF VoltageFits
  <1>5. CASE run.pc = 11
    <2>1. Op = "count" /\ Arg = 0
      BY <1>1, <1>5 DEF VoltageCall, Op, Arg
    <2>2. Answered /\ run'.pc = 12 /\ Len(bench.staged) = 0
      BY <1>5, <2>1 DEF StepIs, Passes
    <2>3. Quiet' /\ bench'.staged = <<>>
      BY <2>2, CalmStays DEF Answered, Quiet, ScriptTypes, Benches
    <2>4. VoltageTable'
      BY <2>3 DEF VoltageTable, OwnTable
    <2> QED BY <2>2, <2>3, <2>4 DEF VoltageFits
  <1>6. CASE run.pc \in {12, 13, 16}
    <2>1. Op = "write" /\ Arg \in {"srcZero", "srcOn", "srcPoint"}
      BY <1>1, <1>6 DEF VoltageCall, Op, Arg, W
    <2>2. run'.pc = run.pc + 1 /\ Sends(Arg) /\ Quiet /\ Arg \in Commands /\ Arg \notin PsuCommands
      BY <1>6, <2>1 DEF StepIs, Passes, VoltageFits, Commands, PsuCommands
    <2>3. Quiet' /\ VoltageTable'
      <3>1. bench'.staged = bench.staged /\ bench'.fifo = bench.fifo
        BY <2>2, SendStays
      <3> QED BY <1>2, <1>3, <1>6, <2>2, <3>1 DEF Quiet
    <2> QED BY <1>6, <2>2, <2>3 DEF VoltageFits
  <1>7. CASE run.pc \in {14, 15, 17}
    <2>1. Op \in {"sleep", "poll"}
      BY <1>1, <1>7 DEF VoltageCall, Op
    <2>2. run'.pc = run.pc + 1 /\ bench' = bench /\ Quiet
      BY <1>7, <2>1 DEF StepIs, Passes, VoltageFits
    <2>3. Quiet' /\ VoltageTable'
      BY <1>2, <1>3, <1>7, <2>2 DEF Quiet
    <2> QED BY <1>7, <2>2, <2>3 DEF VoltageFits
  <1>8. CASE run.pc = 18
    <2>1. Op = "meter"
      BY <1>1, <1>8 DEF VoltageCall, Op
    <2>2. run'.pc = 19 /\ bench' = bench /\ Quiet /\ run'.k = run.k /\ Level(bench) = run.k - 1
      BY <1>8, <2>1 DEF StepIs, VoltageFits, MeterAccepts
    <2>3. Quiet' /\ VoltageTable' /\ Level(bench)' = run'.k - 1
      BY <1>2, <1>3, <1>8, <2>2 DEF Quiet, Level
    <2> QED BY <1>8, <2>2, <2>3 DEF VoltageFits
  <1>9. CASE run.pc = 19
    <2>1. Op = "write" /\ Arg = "capture"
      BY <1>1, <1>9 DEF VoltageCall, Op, Arg, W
    <2>2. run'.pc = 20 /\ Sends("capture") /\ Quiet /\ Level(bench) = run.k - 1 /\ run'.k = run.k /\ run'.n = run.n
      BY <1>9, <2>1 DEF StepIs, Passes, VoltageFits, SamePoint
    <2>0. PICK e : e = [c |-> "capture", k |-> run.k, n |-> run.n, from |-> -1, ref |-> Level(bench)]
      OBVIOUS
    <2>3. bench'.fifo = Append(bench.fifo, e) /\ Level(bench)' = Level(bench) /\ bench'.staged = bench.staged
      BY <2>0, <2>2, SendStays DEF Commands, PsuCommands
    <2>4. Len(bench'.fifo) = 1 /\ bench'.fifo[1] = e
      BY <2>2, <2>3 DEF Quiet
    <2>5. CaptureWaits'
      BY <2>0, <2>2, <2>3, <2>4 DEF CaptureWaits
    <2>6. VoltageTable' /\ Level(bench)' = run'.k - 1
      BY <1>2, <1>3, <1>9, <2>2, <2>3
    <2> QED BY <2>2, <2>5, <2>6 DEF VoltageFits
  <1>10. CASE run.pc \in {20, 22}
    <2>1. Op = "ask" \/ Op = "count"
      BY <1>1, <1>10 DEF VoltageCall, Op
    <2>2. Answered /\ run'.pc = run.pc + 1
      BY <2>1 DEF StepIs, Passes
    <2>3. Quiet' /\ VoltageTable'
      BY <1>2, <1>3, <1>10, <2>2, CalmStays DEF Answered, Quiet
    <2> QED BY <1>10, <2>2, <2>3 DEF VoltageFits
  <1>11. CASE run.pc = 21
    <2>1. Op = "next" /\ Arg = 6
      BY <1>1, <1>11 DEF VoltageCall, Op, Arg
    <2>2. bench' = bench /\ (run'.pc = 15 \/ run'.pc = 22)
      BY <1>11, <2>1 DEF StepIs
    <2>3. Quiet' /\ VoltageTable'
      BY <1>2, <1>3, <1>11, <2>2 DEF Quiet, VoltageFits
    <2> QED BY <2>2, <2>3 DEF VoltageFits
  <1> QED BY <1>1, <1>4, <1>5, <1>6, <1>7, <1>8, <1>9, <1>10, <1>11

\* The supply captures the point.
LEMMA CaptureObeyed ==
  ASSUME ScriptTypes, Firmware, CaptureWaits
  PROVE  /\ CaptureWaits' \/ Quiet'
         /\ Level(bench)' = Level(bench)
         /\ \/ bench'.staged = bench.staged
            \/ /\ ~CaptureWaits' /\ run.k <= Len(bench.staged) + 1
               /\ bench'.staged = Append(SubSeq(bench.staged, 1, run.k - 1), [ref |-> Level(bench), raw |-> Level(bench), n |-> run.n])
         /\ bench'.saved = bench.saved
  <1>0. PICK e, l : e = bench.fifo[1] /\ l = Level(bench)
    OBVIOUS
  <1>1. e \in Orders /\ bench \in Benches /\ e.c = "capture" /\ e.k = run.k /\ e.n = run.n /\ e.ref = l /\ e.from \in {-1, l}
        /\ Len(bench.fifo) = 1 /\ bench.fifo \in Seq(Orders) /\ bench.fifo # <<>> /\ run' = run
    BY <1>0, FirmwareMoves DEF ScriptTypes, CaptureWaits, Benches
  <1>2. Level(bench)' = l /\ l \in Int
    BY <1>0, FirmwareMoves DEF Level, ScriptTypes, Benches
  <1>3. CASE Begins(e)
    <2>1. bench' = [bench EXCEPT !.fifo[1].from = l]
      BY <1>0, <1>3, FirmwareMoves
    <2>2. bench'.staged = bench.staged /\ bench'.saved = bench.saved
      BY <1>1, <2>1 DEF Benches
    <2>3. PICK g : g = [e EXCEPT !.from = l]
      OBVIOUS
    <2>4. g.c = e.c /\ g.k = e.k /\ g.n = e.n /\ g.ref = e.ref /\ g.from = l
      BY <1>1, <2>3 DEF Orders
    <2>5. bench'.fifo = [bench.fifo EXCEPT ![1] = g]
      BY <1>0, <1>1, <2>1, <2>3 DEF Benches
    <2>6. Len(bench'.fifo) = 1 /\ bench'.fifo[1] = g
      BY <1>1, <2>5
    <2>7. CaptureWaits'
      BY <1>1, <1>2, <2>4, <2>6 DEF CaptureWaits
    <2> QED BY <1>0, <1>2, <2>2, <2>7
  <1>4. CASE ~Begins(e)
    <2>0. PICK o : o = Obey(bench, e)
      OBVIOUS
    <2>1. bench' = [o EXCEPT !.fifo = Tail(bench.fifo)] /\ bench'.fifo = Tail(bench.fifo)
      BY <1>0, <1>4, <2>0, FirmwareMoves
    <2>2. o \in Benches /\ o.saved = bench.saved
          /\ (o.staged = bench.staged \/ (bench.tx # "idle" /\ e.k <= Len(bench.staged) + 1 /\ o.staged = Staged(bench, e)))
      BY <1>1, <2>0, ObeyTypes
    <2>3. bench'.staged = o.staged /\ bench'.saved = o.saved
      BY <2>1, <2>2 DEF Benches
    <2>4. Quiet' /\ ~CaptureWaits'
      <3>1. Tail(bench.fifo) = <<>>
        <4>1. Tail(bench.fifo) \in Seq(Orders) /\ Len(Tail(bench.fifo)) = 0
          BY <1>1
        <4> QED BY <4>1, EmptySeq
      <3> QED BY <2>1, <3>1 DEF Quiet, CaptureWaits
    <2>5. ASSUME bench.tx # "idle" PROVE Point(bench, e) = [ref |-> l, raw |-> l, n |-> run.n]
      <3>1. e.from # -1
        BY <1>1, <1>4, <2>5 DEF Begins, Benches
      <3>2. e.from = l
        BY <1>1, <3>1
      <3> QED BY <1>0, <1>1, <3>2 DEF Point
    <2> QED BY <1>0, <1>1, <1>2, <2>2, <2>3, <2>4, <2>5 DEF Staged
  <1> QED BY <1>3, <1>4

LEMMA VoltageObeyed ==
  ASSUME ScriptTypes, VoltageFits, Firmware PROVE VoltageFits'
  <1> SUFFICES ASSUME run'.s = "voltage", run'.phase = "body", run'.pc \in 12..23 PROVE VoltageFits'
    BY DEF VoltageFits
  <1>1. run' = run /\ bench.fifo # <<>>
    BY FirmwareMoves
  <1>2. run.pc = 20 /\ CaptureWaits /\ VoltageTable /\ Level(bench) = run.k - 1
    BY <1>1 DEF VoltageFits, Quiet
  <1>3. PICK l, p : l = Level(bench) /\ p = [ref |-> l, raw |-> l, n |-> run.n]
    OBVIOUS
  <1>4. VoltageTable'
    <2>1. CASE bench'.staged = bench.staged
      BY <1>1, <1>2, <2>1 DEF VoltageTable, OwnTable
    <2>2. CASE run.k <= Len(bench.staged) + 1 /\ bench'.staged = Append(SubSeq(bench.staged, 1, run.k - 1), p)
      <3>1. bench.staged \in Seq(Captured) /\ run.k \in Nat /\ run.k >= 1
        BY DEF ScriptTypes, Benches, ScriptRuns, Positive
      <3>2. PICK q : q = SubSeq(bench.staged, 1, run.k - 1)
        OBVIOUS
      <3>3. Len(q) = run.k - 1 /\ \A i \in 1..(run.k - 1) : q[i] = bench.staged[i] /\ i \in DOMAIN bench.staged
        BY <2>2, <3>1, <3>2
      <3>4. q \in Seq(Captured)
        BY <2>2, <3>1, <3>2, SubSeqProperties
      <3>5. DOMAIN bench'.staged = 1..run.k /\ bench'.staged[run.k] = p /\ \A i \in 1..(run.k - 1) : bench'.staged[i] = q[i]
        BY <2>2, <3>1, <3>2, <3>3, <3>4
      <3>6. ASSUME NEW i \in 1..run.k PROVE LET t == bench'.staged[i] IN t.ref = i - 1 /\ t.raw = t.ref /\ t.n = run.n
        <4>1. CASE i = run.k
          BY <1>2, <1>3, <3>5, <4>1
        <4>2. CASE i # run.k
          <5>1. i \in 1..(run.k - 1)
            BY <3>1, <4>2
          <5>2. bench'.staged[i] = bench.staged[i] /\ i \in DOMAIN bench.staged
            BY <3>3, <3>5, <5>1
          <5> QED BY <1>2, <5>2 DEF VoltageTable, OwnTable
        <4> QED BY <4>1, <4>2
      <3> QED BY <1>1, <3>5, <3>6 DEF VoltageTable, OwnTable
    <2> QED BY <1>2, <1>3, <2>1, <2>2, CaptureObeyed
  <1>5. (CaptureWaits' \/ Quiet') /\ Level(bench)' = run'.k - 1
    BY <1>1, <1>2, CaptureObeyed
  <1> QED BY <1>1, <1>2, <1>4, <1>5 DEF VoltageFits

-----------------------------------------------------------------------------
(* The current calibration.                                                *)
CurrentCall(i) == LET call == Body["current"][i] IN
  /\ call[1] \notin {"jump", "settle", "target", "temperature", "count", "again"}
  /\ call[1] = "skipIdle" => i = 3 /\ call[2] = 2
  /\ i = 3 => call[1] = "skipIdle"
  /\ i = 5 => call[1] = "expect" /\ call[2] = "idle"
  /\ call[1] = "expect" => i \in {5, 9, 20}
  /\ i = 6 => call[1] = "write" /\ call[2] = "relayOn"
  /\ i = 7 => call[1] = "write" /\ call[2] = "startCurrent"
  /\ i = 8 => call[1] = "opened"
  /\ i = 9 => call[1] = "expect"
  /\ i = 10 => call[1] = "write" /\ call[2] = "srcOn"
  /\ i \in {11, 12, 14} => call[1] \in {"sleep", "poll"}
  /\ i = 13 => call[1] = "operator" /\ call[2] = 6
  /\ i = 15 => call[1] = "meter"
  /\ i = 16 => call[1] = "write" /\ call[2] = "capture"
  /\ i = 17 => call[1] = "confirm"
  /\ i = 18 => call[1] = "next" /\ call[2] = 6
  /\ i \in (1..5) \union (19..21) => call[1] \in {"write", "ask", "expect", "skipIdle", "closed"}
LEMMA CurrentCalls == \A i \in 1..21 : CurrentCall(i)
  <1>1. \A i \in 1..5 : CurrentCall(i)
    BY CurrentBody DEF CurrentCall, CurrentText, W, Ask, Idle
  <1>2. \A i \in 6..10 : CurrentCall(i)
    BY CurrentBody DEF CurrentCall, CurrentText, W
  <1>3. \A i \in 11..15 : CurrentCall(i)
    BY CurrentBody DEF CurrentCall, CurrentText, Sleep, Poll, Meter
  <1>4. \A i \in 16..21 : CurrentCall(i)
    BY CurrentBody DEF CurrentCall, CurrentText, W, Idle, Next1
  <1> QED BY <1>1, <1>2, <1>3, <1>4

LEMMA CurrentStep ==
  ASSUME ScriptTypes, CurrentFits, run.phase = "body", StepIs, run.s = "current", run'.phase = "body"
  PROVE  CurrentFits'
  <1>1. run.pc \in 1..21 /\ CurrentCall(run.pc)
    BY CurrentBody, CurrentCalls DEF StepIs
  <1>2. run.pc \in 10..19 => CurrentTable
    BY DEF CurrentFits
  <1>3. (bench'.staged = bench.staged /\ run'.prev = run.prev /\ CurrentTable) => CurrentTable'
    BY DEF CurrentTable, OwnTable, TrueTable, StepIs
  <1>4. CASE run.pc \in {1, 2, 4} \union (19..21)
    <2>1. Op \in {"write", "ask", "expect", "closed"}
      BY <1>1, <1>4 DEF CurrentCall, Op
    <2>2. run'.pc = run.pc + 1
      BY <2>1 DEF StepIs, Passes
    <2>3. run'.pc \notin 6..19
      BY <1>4, <2>2
    <2>4. run'.pc \notin {6, 7} /\ run'.pc \notin {8, 9} /\ run'.pc \notin (10..16) \union (18..19) /\ run'.pc # 17
          /\ run'.pc \notin 10..19 /\ run'.pc # 16
      BY <2>3
    <2> QED BY <2>4 DEF CurrentFits
  <1>5. CASE run.pc \in {3, 5}
    <2>1. Op = "skipIdle" \/ (Op = "expect" /\ Arg = "idle")
      BY <1>1, <1>5 DEF CurrentCall, Op, Arg
    <2>2. Op = "skipIdle" => run.pc = 3 /\ Arg = 2
      BY <1>1 DEF CurrentCall, Op, Arg
    <2>3. CASE Op = "skipIdle"
      <3>1. Answered /\ run'.pc = (IF bench.tx = "idle" THEN 6 ELSE 4)
        BY <2>2, <2>3 DEF StepIs
      <3>2. bench.tx = "idle" => OnlyRelay'
        BY <3>1, CalmStays DEF Answered, OnlyRelay, Quiet
      <3> QED BY <3>1, <3>2 DEF CurrentFits
    <2>4. CASE Op = "expect" /\ Arg = "idle"
      <3>1. Answered /\ run'.pc = run.pc + 1 /\ bench.tx = "idle"
        BY <2>4 DEF StepIs, Passes
      <3>2. OnlyRelay'
        BY <3>1, CalmStays DEF Answered, OnlyRelay, Quiet
      <3> QED BY <1>5, <3>1, <3>2 DEF CurrentFits
    <2> QED BY <2>1, <2>3, <2>4
  <1>6. CASE run.pc = 6
    <2>1. Op = "write" /\ Arg = "relayOn"
      BY <1>1, <1>6 DEF CurrentCall, Op, Arg
    <2>2. run'.pc = 7 /\ Sends("relayOn") /\ OnlyRelay
      BY <1>6, <2>1 DEF StepIs, Passes, CurrentFits
    <2>0. PICK e : e = [c |-> "relayOn", k |-> run.k, n |-> run.n, from |-> -1, ref |-> Level(bench)]
      OBVIOUS
    <2>3. bench'.fifo = Append(bench.fifo, e) /\ bench'.tx = bench.tx
      BY <2>0, <2>2, SendStays DEF Commands, PsuCommands
    <2>4. bench.fifo \in Seq(Orders) /\ e.c = "relayOn"
      BY <2>0 DEF ScriptTypes, Benches
    <2>5. \A i \in DOMAIN bench'.fifo : bench'.fifo[i] = e \/ (i \in DOMAIN bench.fifo /\ bench'.fifo[i] = bench.fifo[i])
      BY <2>3, <2>4
    <2>6. OnlyRelay'
      BY <2>2, <2>3, <2>4, <2>5 DEF OnlyRelay
    <2> QED BY <2>2, <2>6 DEF CurrentFits
  <1>7. CASE run.pc = 7
    <2>1. Op = "write" /\ Arg = "startCurrent"
      BY <1>1, <1>7 DEF CurrentCall, Op, Arg
    <2>2. run'.pc = 8 /\ Sends("startCurrent") /\ OnlyRelay
      BY <1>7, <2>1 DEF StepIs, Passes, CurrentFits
    <2>0. PICK e : e = [c |-> "startCurrent", k |-> run.k, n |-> run.n, from |-> -1, ref |-> Level(bench)]
      OBVIOUS
    <2>3. bench'.fifo = Append(bench.fifo, e) /\ bench'.tx = bench.tx
      BY <2>0, <2>2, SendStays DEF Commands, PsuCommands
    <2>4. bench.fifo \in Seq(Orders) /\ e.c = "startCurrent"
      BY <2>0 DEF ScriptTypes, Benches
    <2>5. Len(bench'.fifo) = Len(bench.fifo) + 1 /\ bench'.fifo[Len(bench'.fifo)] = e /\ Len(bench.fifo) \in Nat
          /\ \A i \in DOMAIN bench'.fifo : i < Len(bench'.fifo) => i \in DOMAIN bench.fifo /\ bench'.fifo[i] = bench.fifo[i]
      BY <2>3, <2>4
    <2>6. StartWaits'
      <3>1. bench'.fifo # <<>>
        BY <2>5
      <3>2. bench'.tx = "idle" /\ bench'.fifo[Len(bench'.fifo)].c = "startCurrent"
        BY <2>2, <2>3, <2>4, <2>5 DEF OnlyRelay
      <3>3. \A i \in DOMAIN bench'.fifo : i < Len(bench'.fifo) => bench'.fifo[i].c = "relayOn"
        BY <2>2, <2>5 DEF OnlyRelay
      <3> QED BY <3>1, <3>2, <3>3 DEF StartWaits, Quiet
    <2> QED BY <2>2, <2>6 DEF CurrentFits
  <1>8. CASE run.pc = 8
    <2>1. Op = "opened"
      BY <1>1, <1>8 DEF CurrentCall, Op
    <2>2. run'.pc = 9 /\ bench' = bench
      BY <1>8, <2>1 DEF StepIs, Passes
    <2> QED BY <1>8, <2>2 DEF CurrentFits, StartWaits, Quiet
  <1>9. CASE run.pc = 9
    <2>1. Op = "expect"
      BY <1>1, <1>9 DEF CurrentCall, Op
    <2>2. run'.pc = 10 /\ Answered
      BY <1>9, <2>1 DEF StepIs, Passes
    <2>3. Quiet' /\ bench'.staged = <<>>
      BY <1>9, <2>2, CalmStays DEF Answered, Quiet, CurrentFits, StartWaits
    <2>4. CurrentTable'
      BY <2>3 DEF CurrentTable, OwnTable, TrueTable
    <2> QED BY <2>2, <2>3, <2>4 DEF CurrentFits
  <1>10. CASE run.pc = 10
    <2>1. Op = "write" /\ Arg = "srcOn"
      BY <1>1, <1>10 DEF CurrentCall, Op, Arg
    <2>2. run'.pc = 11 /\ run'.prev = run.prev /\ Sends("srcOn") /\ Quiet
      BY <1>10, <2>1 DEF StepIs, Passes, CurrentFits, SamePoint
    <2>3. bench'.staged = bench.staged /\ bench'.fifo = bench.fifo
      BY <2>2, SendStays DEF Commands, PsuCommands
    <2>4. Quiet' /\ CurrentTable'
      BY <1>2, <1>3, <1>10, <2>2, <2>3 DEF Quiet
    <2> QED BY <2>2, <2>4 DEF CurrentFits
  <1>11. CASE run.pc \in {11, 12, 14}
    <2>1. Op \in {"sleep", "poll"}
      BY <1>1, <1>11 DEF CurrentCall, Op
    <2>2. run'.pc = run.pc + 1 /\ run'.prev = run.prev /\ bench' = bench /\ Quiet
      BY <1>11, <2>1 DEF StepIs, Passes, CurrentFits, SamePoint
    <2>3. Quiet' /\ CurrentTable'
      BY <1>2, <1>3, <1>11, <2>2 DEF Quiet
    <2> QED BY <1>11, <2>2, <2>3 DEF CurrentFits
  <1>12. CASE run.pc = 13
    <2>1. Op = "operator" /\ Arg = 6
      BY <1>1, <1>12 DEF CurrentCall, Op, Arg
    <2>2. /\ bench' \in {bench, [bench EXCEPT !.level = run.k - 1]} /\ run'.prev = run.prev /\ Quiet
          /\ run'.pc = 14 \/ run'.pc = 19
      BY <1>12, <2>1 DEF StepIs, Passes, CurrentFits, SamePoint
    <2>3. bench'.staged = bench.staged /\ bench'.fifo = bench.fifo
      BY <2>2 DEF ScriptTypes, Benches
    <2>4. Quiet' /\ CurrentTable'
      BY <1>2, <1>3, <1>12, <2>2, <2>3 DEF Quiet
    <2> QED BY <2>2, <2>4 DEF CurrentFits
  <1>13. CASE run.pc = 15
    <2>1. Op = "meter"
      BY <1>1, <1>13 DEF CurrentCall, Op
    <2>2. run'.pc = 16 /\ bench' = bench /\ Quiet /\ Level(bench) > run.prev /\ run'.prev = Level(bench)
      BY <1>13, <2>1 DEF StepIs, CurrentFits, MeterAccepts
    <2>3. Level(bench) \in Int /\ run.prev \in Int /\ \A i \in DOMAIN bench.staged : bench.staged[i].ref \in Int
      <3>1. Level(bench) \in Int
        BY DEF Level, ScriptTypes, Benches
      <3>2. run.prev \in Int
        BY DEF ScriptTypes, ScriptRuns
      <3>3. bench.staged \in Seq(Captured)
        BY DEF ScriptTypes, Benches
      <3>4. \A i \in DOMAIN bench.staged : bench.staged[i].ref \in Int
        <4>1. \A i \in DOMAIN bench.staged : bench.staged[i] \in Captured
          BY <3>3
        <4> QED BY <4>1 DEF Captured
      <3> QED BY <3>1, <3>2, <3>4
    <2>4. \A i \in DOMAIN bench.staged : bench.staged[i].ref < run'.prev /\ bench.staged[i].ref <= run'.prev
      BY <1>2, <1>13, <2>2, <2>3 DEF CurrentTable
    <2>5. BelowPrev'
      BY <2>2, <2>4 DEF BelowPrev, Level
    <2>6. CurrentTable'
      BY <1>2, <1>13, <2>2, <2>4 DEF CurrentTable, OwnTable, TrueTable, StepIs
    <2> QED BY <2>2, <2>5, <2>6 DEF CurrentFits, Quiet
  <1>14. CASE run.pc = 16
    <2>1. Op = "write" /\ Arg = "capture"
      BY <1>1, <1>14 DEF CurrentCall, Op, Arg
    <2>2. run'.pc = 17 /\ Sends("capture") /\ Quiet /\ BelowPrev /\ run'.k = run.k /\ run'.n = run.n /\ run'.prev = run.prev
      BY <1>14, <2>1 DEF StepIs, Passes, CurrentFits, SamePoint
    <2>0. PICK e : e = [c |-> "capture", k |-> run.k, n |-> run.n, from |-> -1, ref |-> Level(bench)]
      OBVIOUS
    <2>3. bench'.fifo = Append(bench.fifo, e) /\ Level(bench)' = Level(bench) /\ bench'.staged = bench.staged
      BY <2>0, <2>2, SendStays DEF Commands, PsuCommands
    <2>4. Len(bench'.fifo) = 1 /\ bench'.fifo[1] = e
      BY <2>2, <2>3 DEF Quiet
    <2>5. CaptureWaits'
      BY <2>0, <2>2, <2>3, <2>4 DEF CaptureWaits
    <2>6. CurrentTable' /\ BelowPrev'
      BY <1>2, <1>3, <1>14, <2>2, <2>3 DEF BelowPrev
    <2> QED BY <2>2, <2>5, <2>6 DEF CurrentFits
  <1>15. CASE run.pc = 17
    <2>1. Op = "confirm"
      BY <1>1, <1>15 DEF CurrentCall, Op
    <2>2. Answered /\ run'.pc = 18 /\ run'.prev = run.prev
      BY <1>15, <2>1 DEF StepIs, Passes, SamePoint
    <2>3. Quiet' /\ CurrentTable'
      BY <1>2, <1>3, <1>15, <2>2, CalmStays DEF Answered, Quiet
    <2> QED BY <2>2, <2>3 DEF CurrentFits
  <1>16. CASE run.pc = 18
    <2>1. Op = "next" /\ Arg = 6
      BY <1>1, <1>16 DEF CurrentCall, Op, Arg
    <2>2. bench' = bench /\ (run'.pc = 12 \/ run'.pc = 19) /\ run'.prev = run.prev
      BY <1>16, <2>1 DEF StepIs
    <2>3. Quiet' /\ CurrentTable'
      BY <1>2, <1>3, <1>16, <2>2 DEF Quiet, CurrentFits
    <2> QED BY <2>2, <2>3 DEF CurrentFits
  <1> QED BY <1>1, <1>4, <1>5, <1>6, <1>7, <1>8, <1>9, <1>10, <1>11, <1>12, <1>13, <1>14, <1>15, <1>16

LEMMA CurrentObeyed ==
  ASSUME ScriptTypes, CurrentFits, Firmware PROVE CurrentFits'
  <1>a. run' = run /\ bench.fifo # <<>> /\ bench.fifo \in Seq(Orders) /\ bench \in Benches
    BY FirmwareMoves DEF ScriptTypes, Benches
  <1> SUFFICES ASSUME run'.s = "current", run'.phase = "body", run'.pc \in 6..19 PROVE CurrentFits'
    BY DEF CurrentFits
  <1>b. PICK e, n : e = bench.fifo[1] /\ n = Len(bench.fifo)
    OBVIOUS
  <1>c. e \in Orders /\ n \in Nat /\ n > 0 /\ DOMAIN bench.fifo = 1..n /\ bench.fifo[1] = e
    BY <1>a, <1>b
  <1>d. ASSUME e.c # "capture"
        PROVE  /\ Len(bench'.fifo) = n - 1 /\ DOMAIN bench'.fifo = 1..(n - 1) /\ \A i \in 1..(n - 1) : bench'.fifo[i] = bench.fifo[i + 1]
               /\ n = 1 <=> Quiet'
               /\ e.c = "relayOn" => bench'.tx = bench.tx
               /\ e.c = "startCurrent" /\ bench.tx = "idle" => bench'.staged = <<>>
    <2>0. PICK o : o = Obey(bench, e)
      OBVIOUS
    <2>1. bench' = [o EXCEPT !.fifo = Tail(bench.fifo)] /\ bench'.fifo = Tail(bench.fifo)
      BY <1>b, <1>d, <2>0, FirmwareMoves DEF Begins
    <2>2. o \in Benches /\ (e.c = "relayOn" => o.tx = bench.tx) /\ (e.c = "startCurrent" /\ bench.tx = "idle" => o.staged = <<>>)
      BY <1>a, <1>c, <2>0, ObeyTypes
    <2>3. bench'.tx = o.tx /\ bench'.staged = o.staged
      BY <2>1, <2>2 DEF Benches
    <2>4. Len(bench'.fifo) = n - 1 /\ DOMAIN bench'.fifo = 1..(n - 1) /\ \A i \in 1..(n - 1) : bench'.fifo[i] = bench.fifo[i + 1]
          /\ bench'.fifo \in Seq(Orders)
      BY <1>a, <1>b, <2>1
    <2>5. n = 1 <=> Quiet'
      BY <1>c, <2>4, EmptySeq DEF Quiet
    <2> QED BY <2>2, <2>3, <2>4, <2>5
  <1>1. CASE run.pc \in {6, 7}
    <2>1. OnlyRelay /\ e.c = "relayOn"
      BY <1>a, <1>c, <1>1 DEF CurrentFits, OnlyRelay
    <2>2. OnlyRelay'
      <3>1. DOMAIN bench'.fifo = 1..(n - 1) /\ \A i \in 1..(n - 1) : bench'.fifo[i] = bench.fifo[i + 1]
        BY <1>d, <2>1
      <3>2. bench'.tx = "idle"
        BY <1>d, <2>1 DEF OnlyRelay
      <3>3. \A i \in 1..(n - 1) : i + 1 \in 1..n
        BY <1>c
      <3>4. \A i \in 1..(n - 1) : bench'.fifo[i].c = "relayOn"
        BY <1>c, <2>1, <3>1, <3>3 DEF OnlyRelay
      <3> QED BY <3>1, <3>2, <3>4 DEF OnlyRelay
    <2> QED BY <1>a, <1>1, <2>2 DEF CurrentFits
  <1>2. CASE run.pc \in {8, 9}
    <2>1. StartWaits
      BY <1>a, <1>2 DEF CurrentFits, Quiet
    <2>2. CASE n = 1
      <3>1. e.c = "startCurrent"
        BY <1>b, <2>1, <2>2 DEF StartWaits
      <3>2. Quiet' /\ bench'.staged = <<>>
        BY <1>d, <2>1, <2>2, <3>1 DEF StartWaits
      <3> QED BY <1>a, <1>2, <3>2 DEF CurrentFits
    <2>3. CASE n # 1
      <3>1. e.c = "relayOn" /\ bench.fifo[n].c = "startCurrent" /\ bench.tx = "idle"
            /\ \A i \in 1..n : i < n => bench.fifo[i].c = "relayOn"
        <4>1. bench.fifo[n].c = "startCurrent" /\ bench.tx = "idle" /\ \A i \in 1..n : i < n => bench.fifo[i].c = "relayOn"
          BY <1>b, <1>c, <2>1 DEF StartWaits
        <4>2. 1 \in 1..n /\ 1 < n
          BY <1>c, <2>3
        <4> QED BY <1>c, <4>1, <4>2
      <3>2. ~Quiet' /\ bench'.tx = "idle"
        BY <1>d, <2>3, <3>1
      <3>3. bench'.fifo[n - 1] = bench.fifo[n] /\ \A i \in 1..(n - 1) : i < n - 1 => bench'.fifo[i] = bench.fifo[i + 1] /\ i + 1 < n /\ i + 1 \in 1..n
        BY <1>c, <1>d, <2>3, <3>1
      <3>4. StartWaits'
        BY <1>d, <3>1, <3>2, <3>3 DEF StartWaits
      <3> QED BY <1>a, <1>2, <3>4 DEF CurrentFits
    <2> QED BY <2>2, <2>3
  <1>3. CASE run.pc = 17
    <2>1. CaptureWaits /\ BelowPrev /\ CurrentTable /\ run.prev \in Int /\ run.k \in Nat /\ run.k >= 1
      BY <1>a, <1>3 DEF CurrentFits, Quiet, ScriptTypes, ScriptRuns, Positive
    <2>2. PICK l, p : l = Level(bench) /\ p = [ref |-> l, raw |-> l, n |-> run.n]
      OBVIOUS
    <2>3. l = run.prev
      BY <2>1, <2>2 DEF BelowPrev
    <2>4. CASE bench'.staged = bench.staged
      <3>1. CurrentTable' /\ BelowPrev'
        BY <1>a, <2>1, <2>4, CaptureObeyed DEF CurrentTable, BelowPrev, OwnTable, TrueTable
      <3> QED BY <1>a, <1>3, <2>1, <3>1, CaptureObeyed DEF CurrentFits
    <2>5. CASE ~CaptureWaits' /\ run.k <= Len(bench.staged) + 1 /\ bench'.staged = Append(SubSeq(bench.staged, 1, run.k - 1), p)
      <3>1. bench.staged \in Seq(Captured)
        BY DEF ScriptTypes, Benches
      <3>2. PICK q : q = SubSeq(bench.staged, 1, run.k - 1)
        OBVIOUS
      <3>3. Len(q) = run.k - 1 /\ \A i \in 1..(run.k - 1) : q[i] = bench.staged[i] /\ i \in DOMAIN bench.staged
        BY <2>1, <2>5, <3>1, <3>2
      <3>4. q \in Seq(Captured)
        BY <2>1, <2>5, <3>1, <3>2, SubSeqProperties
      <3>5. DOMAIN bench'.staged = 1..run.k /\ bench'.staged[run.k] = p /\ \A i \in 1..(run.k - 1) : bench'.staged[i] = q[i]
        BY <2>1, <2>5, <3>2, <3>3, <3>4
      <3>6. \A i \in 1..run.k : IF i = run.k THEN bench'.staged[i] = p ELSE i \in DOMAIN bench.staged /\ bench'.staged[i] = bench.staged[i]
        <4> SUFFICES ASSUME NEW i \in 1..run.k, i # run.k PROVE i \in DOMAIN bench.staged /\ bench'.staged[i] = bench.staged[i]
          BY <3>5
        <4>1. i \in 1..(run.k - 1)
          BY <2>1
        <4> QED BY <3>3, <3>5, <4>1
      <3>7. OwnTable(bench.staged)' /\ \A i \in 1..run.k : bench'.staged[i].ref <= run.prev
        <4>1. p.raw = p.ref /\ p.n = run.n /\ p.ref = run.prev /\ p.ref <= run.prev
          BY <2>1, <2>2, <2>3
        <4> QED BY <1>a, <2>1, <3>5, <3>6, <4>1 DEF OwnTable, CurrentTable
      <3>8. \A i, j \in 1..run.k : i < j => bench'.staged[i].ref < bench'.staged[j].ref
        <4> SUFFICES ASSUME NEW i \in 1..run.k, NEW j \in 1..run.k, i < j PROVE bench'.staged[i].ref < bench'.staged[j].ref
          OBVIOUS
        <4>1. i # run.k
          BY <2>1
        <4>2. i \in DOMAIN bench.staged /\ bench'.staged[i] = bench.staged[i]
          BY <3>6, <4>1
        <4>3. CASE j = run.k
          BY <2>1, <2>2, <2>3, <3>6, <4>2, <4>3 DEF BelowPrev
        <4>4. CASE j # run.k
          <5>1. j \in DOMAIN bench.staged /\ bench'.staged[j] = bench.staged[j]
            BY <3>6, <4>4
          <5> QED BY <2>1, <4>2, <5>1 DEF CurrentTable, TrueTable
        <4> QED BY <4>3, <4>4
      <3>9. CurrentTable'
        BY <1>a, <3>5, <3>7, <3>8 DEF CurrentTable, TrueTable, OwnTable
      <3>10. Quiet'
        BY <2>1, <2>5, CaptureObeyed
      <3> QED BY <1>a, <1>3, <3>9, <3>10 DEF CurrentFits
    <2> QED BY <2>1, <2>2, <2>4, <2>5, CaptureObeyed
  <1>4. CASE run.pc \notin {6, 7, 8, 9, 17}
    <2>1. run.pc \in (10..16) \union (18..19)
      BY <1>a, <1>4
    <2> QED BY <1>a, <2>1 DEF CurrentFits, Quiet
  <1> QED BY <1>1, <1>2, <1>3, <1>4

-----------------------------------------------------------------------------
(* What is saved is true.                                                  *)
BenchStep ==
  \/ bench' = bench \/ Answered \/ bench' = [bench EXCEPT !.level = run.k - 1]
  \/ \E c \in Commands :
       /\ Sends(c)
       /\ c = "commit" => run.phase = "body" /\ ((run.s = "voltage" /\ run.pc = 23) \/ (run.s = "current" /\ run.pc = 19))

LEMMA CommitReady ==
  ASSUME ScriptTypes, VoltageFits, CurrentFits, run.phase = "body",
         (run.s = "voltage" /\ run.pc = 23) \/ (run.s = "current" /\ run.pc = 19)
  PROVE  Quiet /\ TrueTable(bench.staged)
  <1>1. CASE run.s = "voltage" /\ run.pc = 23
    <2>1. Quiet /\ VoltageTable
      BY <1>1 DEF VoltageFits
    <2>2. bench.staged \in Seq(Captured)
      BY DEF ScriptTypes, Benches
    <2>3. \A i, j \in DOMAIN bench.staged : i < j => bench.staged[i].ref < bench.staged[j].ref
      <3> SUFFICES ASSUME NEW i \in DOMAIN bench.staged, NEW j \in DOMAIN bench.staged, i < j
                   PROVE  bench.staged[i].ref < bench.staged[j].ref
        OBVIOUS
      <3>1. i \in Nat /\ j \in Nat
        BY <2>2
      <3>2. bench.staged[i].ref = i - 1 /\ bench.staged[j].ref = j - 1
        BY <2>1 DEF VoltageTable
      <3> QED BY <3>1, <3>2
    <2> QED BY <2>1, <2>3 DEF VoltageTable, OwnTable, TrueTable
  <1>2. CASE run.s = "current" /\ run.pc = 19
    BY <1>2 DEF CurrentFits, CurrentTable
  <1> QED BY <1>1, <1>2

LEMMA BenchStepTrue ==
  ASSUME ScriptTypes, VoltageFits, CurrentFits, SavedTableTrue, CommitIsTrue, BenchStep
  PROVE  SavedTableTrue' /\ CommitIsTrue'
  <1>1. CASE bench' = bench \/ Answered
    BY <1>1, CalmStays DEF SavedTableTrue, CommitIsTrue, TrueTable
  <1>2. CASE bench' = [bench EXCEPT !.level = run.k - 1]
    <2>1. bench'.saved = bench.saved /\ bench'.fifo = bench.fifo /\ bench'.staged = bench.staged
      BY <1>2 DEF ScriptTypes, Benches
    <2> QED BY <2>1 DEF SavedTableTrue, CommitIsTrue, TrueTable
  <1>3. ASSUME NEW c \in Commands, Sends(c),
               c = "commit" => run.phase = "body" /\ ((run.s = "voltage" /\ run.pc = 23) \/ (run.s = "current" /\ run.pc = 19))
        PROVE  SavedTableTrue' /\ CommitIsTrue'
    <2>1. bench'.staged = bench.staged /\ bench'.saved = bench.saved
      BY <1>3, SendStays
    <2>2. SavedTableTrue'
      BY <2>1 DEF SavedTableTrue
    <2>3. CASE c \notin PsuCommands
      <3>1. bench'.fifo = bench.fifo
        BY <1>3, <2>3, SendStays
      <3> QED BY <2>1, <2>2, <3>1 DEF CommitIsTrue, TrueTable
    <2>4. CASE c \in PsuCommands
      <3>0. PICK e : e = [c |-> c, k |-> run.k, n |-> run.n, from |-> -1, ref |-> Level(bench)]
        OBVIOUS
      <3>1. bench'.fifo = Append(bench.fifo, e) /\ e.c = c /\ bench.fifo \in Seq(Orders)
        BY <1>3, <2>4, <3>0, SendStays DEF ScriptTypes, Benches
      <3>2. CASE c = "commit"
        <4>1. Quiet /\ TrueTable(bench.staged)
          BY <1>3, <3>2, CommitReady
        <4>2. DOMAIN bench'.fifo = 1..1
          BY <3>1, <4>1 DEF Quiet
        <4>3. TrueTable(bench.staged)'
          BY <2>1, <4>1 DEF TrueTable
        <4> QED BY <2>2, <4>2, <4>3 DEF CommitIsTrue
      <3>3. CASE c # "commit"
        <4>1. \A i \in DOMAIN bench'.fifo : bench'.fifo[i] = e \/ (i \in DOMAIN bench.fifo /\ bench'.fifo[i] = bench.fifo[i])
          BY <3>1
        <4>2. TrueTable(bench.staged) => TrueTable(bench.staged)'
          BY <2>1 DEF TrueTable
        <4> QED BY <2>2, <3>1, <3>3, <4>1, <4>2 DEF CommitIsTrue
      <3> QED BY <3>2, <3>3
    <2> QED BY <2>3, <2>4
  <1> QED BY <1>1, <1>2, <1>3 DEF BenchStep

LEMMA ObeyedTrue ==
  ASSUME ScriptTypes, SavedTableTrue, CommitIsTrue, Firmware
  PROVE  SavedTableTrue' /\ CommitIsTrue'
  <1>0. PICK e : e = bench.fifo[1]
    OBVIOUS
  <1>1. bench.fifo # <<>> /\ e \in Orders /\ bench.fifo \in Seq(Orders) /\ bench \in Benches /\ 1 \in DOMAIN bench.fifo
    BY <1>0, FirmwareMoves DEF ScriptTypes, Benches
  <1>2. CASE Begins(e)
    <2>1. bench' = [bench EXCEPT !.fifo[1].from = Level(bench)]
      BY <1>0, <1>2, FirmwareMoves
    <2>2. bench'.saved = bench.saved /\ bench'.staged = bench.staged /\ DOMAIN bench'.fifo = DOMAIN bench.fifo
          /\ \A i \in DOMAIN bench.fifo : bench'.fifo[i].c = bench.fifo[i].c
      BY <1>0, <1>1, <2>1 DEF Benches, Orders
    <2> QED BY <2>2 DEF SavedTableTrue, CommitIsTrue, TrueTable
  <1>3. CASE ~Begins(e)
    <2>0. PICK o : o = Obey(bench, e)
      OBVIOUS
    <2>1. bench' = [o EXCEPT !.fifo = Tail(bench.fifo)] /\ bench'.fifo = Tail(bench.fifo)
      BY <1>0, <1>3, <2>0, FirmwareMoves
    <2>2. o \in Benches /\ o.saved = (IF e.c = "commit" /\ bench.tx # "idle" THEN bench.staged ELSE bench.saved)
      BY <1>1, <2>0, ObeyTypes
    <2>3. bench'.saved = o.saved
      BY <2>1, <2>2 DEF Benches
    <2>4. e.c = "commit" => TrueTable(bench.staged)
      BY <1>0, <1>1 DEF CommitIsTrue
    <2>5. SavedTableTrue'
      BY <2>2, <2>3, <2>4 DEF SavedTableTrue, TrueTable
    <2>6. \A i \in DOMAIN bench'.fifo : i + 1 \in DOMAIN bench.fifo /\ bench'.fifo[i] = bench.fifo[i + 1] /\ i + 1 # 1
      BY <1>1, <2>1
    <2>7. CommitIsTrue'
      BY <2>6 DEF CommitIsTrue
    <2> QED BY <2>5, <2>7
  <1> QED BY <1>2, <1>3

-----------------------------------------------------------------------------
(* Every step keeps the invariant.                                         *)
LEMMA GoReadings ==
  ASSUME ScriptTypes, NEW n
  PROVE  LET r == Go(run, n) IN
         r.samples = run.samples /\ r.averages = run.averages /\ r.streak = run.streak /\ r.points = run.points
  BY DEF Go, ScriptTypes, ScriptRuns

Stepping == CallRefused \/ CallFails \/ HostCall \/ Mark \/ NextPoint \/ NewTarget \/ BodyEnds
LEMMA BodyKeeps ==
  ASSUME ScriptTypes, PcInside, StreakFits, SettledPointContinuous, Stepping
  PROVE  /\ ScriptTypes' /\ PcInside' /\ BenchStep /\ StreakFits' /\ SettledPointContinuous'
         /\ (Running /\ Onward) \/ Leaves
         /\ run'.s = run.s
         /\ run'.phase = "body" => run.phase = "body" /\ (Mark \/ NextPoint \/ HostCall \/ NewTarget)
  <1>0. run \in ScriptRuns
    BY DEF ScriptTypes
  <1>a. run' = Return(run) => SameReadings
    BY <1>0, ReturnMoves DEF SameReadings, SameData
  <1>b. ASSUME NEW n, run' = Go(run, n) PROVE SameReadings
    BY <1>b, GoReadings DEF SameReadings
  <1>c. ASSUME Moves, Running PROVE /\ ScriptTypes' /\ PcInside' /\ ((Running /\ Onward) \/ Leaves) /\ run'.s = run.s
                                    /\ run'.phase = "body" => run.phase = "body"
    BY <1>c DEF Moves, Onward, Leaves, Running
  <1>d. ASSUME Moves, Leaves PROVE /\ ScriptTypes' /\ PcInside' /\ run'.s = run.s /\ run'.phase # "body"
    BY <1>d DEF Moves, Leaves
  <1>e. SameReadings => StreakFits' /\ SettledPointContinuous'
    BY ReadingsStay
  <1>f. ASSUME Running, Written PROVE BenchStep
    BY <1>f, WriteFits DEF Written, BenchStep
  <1>1. CASE CallRefused
    <2>1. Moves /\ Leaves /\ bench' = bench /\ run' = Return(run)
      BY <1>1, CallRefusedMoves DEF CallRefused, Then, Throw
    <2> QED BY <1>a, <1>d, <1>e, <2>1 DEF BenchStep
  <1>2. CASE CallFails
    <2>1. Moves /\ Leaves /\ Running /\ (bench' = bench \/ Written) /\ run' = Return(run)
      BY <1>2, CallFailsMoves DEF CallFails, Throw
    <2>2. BenchStep
      BY <1>f, <2>1 DEF BenchStep
    <2> QED BY <1>a, <1>d, <1>e, <2>1, <2>2
  <1>3. CASE Write
    <2>1. Moves /\ Running /\ Written /\ run' = Go(run, 1)
      BY <1>3, WriteMoves
    <2> QED BY <1>3, <1>b, <1>c, <1>e, <1>f, <2>1 DEF HostCall
  <1>4. CASE Wait
    <2>1. Moves /\ Running /\ bench' = bench /\ run' = Go(run, 1)
      BY <1>4, WaitMoves
    <2> QED BY <1>4, <1>b, <1>c, <1>e, <2>1 DEF HostCall, BenchStep
  <1>5. CASE CheckCancelled
    <2>1. Moves /\ Running /\ bench' = bench /\ (run' = Go(run, 1) \/ run' = Return(run))
      BY <1>5, CheckCancelledMoves
    <2> QED BY <1>5, <1>a, <1>b, <1>c, <1>e, <2>1 DEF HostCall, BenchStep
  <1>6. CASE AskSupply \/ ExpectTransaction \/ ExpectCount \/ Confirm
    <2>1. Moves /\ Running /\ Answered /\ (run' = Go(run, 1) \/ run' = Return(run))
      BY <1>6, AskMoves
    <2> QED BY <1>6, <1>a, <1>b, <1>c, <1>e, <2>1 DEF HostCall, BenchStep
  <1>7. CASE AbortUnfinished
    <2>1. Moves /\ Running /\ Answered /\ \E n : run' = Go(run, n) \/ run' = Return(run)
      BY <1>7, SkipMoves
    <2> QED BY <1>7, <1>a, <1>b, <1>c, <1>e, <2>1 DEF HostCall, BenchStep
  <1>8. CASE ReadMeter
    <2>1. Moves /\ Running /\ bench' = bench /\ (run' = Return(run) \/ run' = [Go(run, 1) EXCEPT !.prev = Level(bench)])
      BY <1>8, ReadMeterMoves
    <2>2. run' = [Go(run, 1) EXCEPT !.prev = Level(bench)] => SameReadings
      BY <1>0 DEF Go, SameReadings, ScriptRuns
    <2> QED BY <1>8, <1>a, <1>c, <1>e, <2>1, <2>2 DEF HostCall, BenchStep
  <1>9. CASE OperatorInput
    <2>1. Moves /\ Running /\ bench' \in {bench, [bench EXCEPT !.level = run.k - 1]} /\ \E n : run' = Go(run, n)
      BY <1>9, OperatorMoves
    <2> QED BY <1>9, <1>b, <1>c, <1>e, <2>1 DEF HostCall, BenchStep
  <1>10. CASE LoadSwapped \/ Answer
    <2>1. Moves /\ Running /\ bench' = bench /\ (run' = Go(run, 1) \/ run' = Return(run))
      BY <1>10, ChoiceMoves
    <2> QED BY <1>10, <1>a, <1>b, <1>c, <1>e, <2>1 DEF HostCall, BenchStep
  <1>11. CASE MeasureTemperature
    <2>1. Moves /\ Running /\ Answered /\ SameData(run', run)
      BY <1>11, TemperatureMoves
    <2> QED BY <1>11, <1>c, <1>e, <2>1 DEF HostCall, BenchStep, SameData, SameReadings
  <1>12. CASE MeasureCurrent
    <2>1. Moves /\ Running /\ StreakFits' /\ SettledPointContinuous' /\ (Answered \/ Sends("relayOff"))
      BY <1>12, MeasureMoves
    <2>2. BenchStep
      BY <2>1 DEF BenchStep, Commands, PsuCommands
    <2> QED BY <1>12, <1>c, <2>1, <2>2 DEF HostCall
  <1>13. CASE SettlingTimesOut
    <2>1. Moves /\ Leaves /\ bench' = bench /\ run' = Return(run)
      BY <1>13, SettlingMoves DEF SettlingTimesOut, Then, Throw
    <2> QED BY <1>a, <1>d, <1>e, <2>1 DEF BenchStep
  <1>14. CASE Mark
    <2>1. ScriptTypes' /\ PcInside' /\ bench' = bench /\ run.phase = "body" /\ run'.phase = "body" /\ run'.s = run.s /\ SameReadings
      BY <1>14, MarkMoves DEF SameReadings
    <2> QED BY <1>14, <1>e, <2>1 DEF BenchStep, Running, Onward
  <1>15. CASE NextPoint
    <2>1. ScriptTypes' /\ PcInside' /\ bench' = bench /\ run.phase = "body" /\ run'.phase = "body" /\ SameData(run', run)
      BY <1>15, NextPointMoves
    <2> QED BY <1>15, <1>e, <2>1 DEF BenchStep, Running, Onward, SameData, SameReadings
  <1>16. CASE NewTarget
    <2>1. Moves /\ Running /\ StreakFits' /\ SettledPointContinuous' /\ bench' = bench
      BY <1>16, NewTargetMoves
    <2> QED BY <1>16, <1>c, <2>1 DEF BenchStep
  <1>17. CASE BodyEnds
    <2>1. Moves /\ Leaves /\ bench' = bench /\ run' = Return(run)
      BY <1>17, BodyEndsMoves DEF BodyEnds, Then
    <2> QED BY <1>a, <1>d, <1>e, <2>1 DEF BenchStep
  <1> QED BY <1>1, <1>2, <1>3, <1>4, <1>5, <1>6, <1>7, <1>8, <1>9, <1>10, <1>11, <1>12, <1>13, <1>14, <1>15, <1>16, <1>17
        DEF Stepping, HostCall

LEMMA SteppingKeeps == ASSUME ScriptsInv, Stepping PROVE ScriptsInv'
  <1>0. /\ ScriptTypes /\ PcInside /\ SavedTableTrue /\ CommitIsTrue /\ VoltageFits /\ CurrentFits
        /\ StreakFits /\ SettledPointContinuous
    BY DEF ScriptsInv
  <1>1. /\ ScriptTypes' /\ PcInside' /\ BenchStep /\ StreakFits' /\ SettledPointContinuous' /\ run'.s = run.s
        /\ (Running /\ Onward) \/ Leaves
        /\ run'.phase = "body" => run.phase = "body" /\ (Mark \/ NextPoint \/ HostCall \/ NewTarget)
    BY <1>0, BodyKeeps
  <1>2. SavedTableTrue' /\ CommitIsTrue'
    BY <1>0, <1>1, BenchStepTrue
  <1>3. CleanupFits'
    BY <1>1, LeavesClean, OnwardClean
  <1>4. VoltageFits' /\ CurrentFits' /\ SwapFits'
    <2>1. CASE run'.phase = "body"
      <3>1. StepIs
        BY <1>0, <1>1, <2>1, BodyStep
      <3>2. VoltageFits'
        BY <1>0, <1>1, <2>1, <3>1, VoltageStep DEF VoltageFits
      <3>3. CurrentFits'
        BY <1>0, <1>1, <2>1, <3>1, CurrentStep DEF CurrentFits
      <3>4. SwapFits'
        BY <1>0, <1>1, <2>1, <3>1, SwapStep
      <3> QED BY <3>2, <3>3, <3>4
    <2>2. CASE run'.phase # "body"
      BY <2>2 DEF VoltageFits, CurrentFits, SwapFits
    <2> QED BY <2>1, <2>2
  <1> QED BY <1>1, <1>2, <1>3, <1>4 DEF ScriptsInv

LEMMA FinallyKeeps == ASSUME ScriptsInv, Finally PROVE ScriptsInv'
  <1>0. ScriptTypes /\ PcInside /\ CleanupFits /\ SavedTableTrue /\ CommitIsTrue /\ VoltageFits /\ CurrentFits
        /\ StreakFits /\ SettledPointContinuous
    BY DEF ScriptsInv
  <1>1. /\ Cleans /\ CleanupFits' /\ run'.phase \in {"cleanup", "done"}
        /\ \/ bench' = bench \/ Answered
           \/ \E d \in Offs \union {"abort", "srcZero"} : Sends(d)
    BY <1>0, CleanupActions
  <1>2. BenchStep
    BY <1>1 DEF BenchStep, Offs, Commands, PsuCommands
  <1>3. SavedTableTrue' /\ CommitIsTrue'
    BY <1>0, <1>2, BenchStepTrue
  <1>4. StreakFits' /\ SettledPointContinuous'
    BY <1>0, <1>1, ReadingsStay DEF Cleans
  <1>5. VoltageFits' /\ CurrentFits' /\ SwapFits'
    BY <1>1 DEF VoltageFits, CurrentFits, SwapFits
  <1> QED BY <1>1, <1>3, <1>4, <1>5 DEF ScriptsInv, Cleans

LEMMA FirmwareKeeps == ASSUME ScriptsInv, Firmware PROVE ScriptsInv'
  <1>0. ScriptTypes /\ PcInside /\ CleanupFits /\ SavedTableTrue /\ CommitIsTrue /\ VoltageFits /\ CurrentFits
        /\ StreakFits /\ SettledPointContinuous /\ SwapFits
    BY DEF ScriptsInv
  <1>1. bench' \in Benches /\ run' = run /\ left' = left /\ bench'.out = bench.out /\ bench'.load = bench.load
    BY <1>0, FirmwareMoves
  <1>2. ScriptTypes' /\ PcInside' /\ StreakFits' /\ SettledPointContinuous' /\ SwapFits'
    BY <1>0, <1>1 DEF ScriptTypes, PcInside, Program, StreakFits, SettledPointContinuous, SwapFits
  <1>3. CleanupFits'
    <2>1. ASSUME NEW c \in Offs, SwitchedOff(c) PROVE SwitchedOff(c)'
      BY <1>0, <1>1, <2>1, RelayObeyed DEF SwitchedOff
    <2>2. ASSUME NEW c PROVE (Given(c)' => Given(c)) /\ (~Failed(c)' => ~Failed(c))
      BY <1>1 DEF Given, Failed
    <2> QED BY <1>0, <1>1, <2>1, <2>2 DEF CleanupFits
  <1>4. SavedTableTrue' /\ CommitIsTrue'
    BY <1>0, ObeyedTrue
  <1>5. VoltageFits' /\ CurrentFits'
    BY <1>0, VoltageObeyed, CurrentObeyed
  <1> QED BY <1>2, <1>3, <1>4, <1>5 DEF ScriptsInv

LEMMA CancelKeeps == ASSUME ScriptsInv, Cancel PROVE ScriptsInv'
  <1>0. ScriptTypes /\ PcInside /\ SavedTableTrue /\ CommitIsTrue /\ VoltageFits /\ CurrentFits
        /\ StreakFits /\ SettledPointContinuous /\ SwapFits
    BY DEF ScriptsInv
  <1>1. /\ ScriptTypes' /\ PcInside' /\ bench' = bench /\ run'.stop /\ SameReadings /\ SamePoint(run', run)
        /\ run'.phase = run.phase /\ run'.pc = run.pc /\ run'.s = run.s /\ run'.n = run.n
    BY <1>0, CancelMoves
  <1>2. StreakFits' /\ SettledPointContinuous' /\ CleanupFits' /\ SwapFits'
    BY <1>0, <1>1, ReadingsStay DEF CleanupFits, SwapFits
  <1>3. SavedTableTrue' /\ CommitIsTrue'
    BY <1>0, <1>1 DEF SavedTableTrue, CommitIsTrue, TrueTable
  <1>4. VoltageFits'
    BY <1>0, <1>1 DEF VoltageFits, VoltageTable, OwnTable, Quiet, CaptureWaits, Level, SamePoint
  <1>5. CurrentFits'
    BY <1>0, <1>1 DEF CurrentFits, CurrentTable, OwnTable, TrueTable, Quiet, CaptureWaits, Level, SamePoint,
                      BelowPrev, OnlyRelay, StartWaits
  <1> QED BY <1>1, <1>2, <1>3, <1>4, <1>5 DEF ScriptsInv

LEMMA StartKeeps == ASSUME ScriptsInv, NEW s \in Scripts, Start(s) PROVE ScriptsInv'
  <1>0. ScriptTypes /\ SavedTableTrue /\ CommitIsTrue
    BY DEF ScriptsInv
  <1>1. /\ ScriptTypes' /\ PcInside' /\ bench' = bench /\ run'.phase = "body" /\ run'.pc = 1
        /\ run'.samples = <<>> /\ run'.averages = <<>> /\ run'.streak = 0 /\ run'.points = <<>>
    BY <1>0, StartMoves
  <1>2. StreakFits' /\ SettledPointContinuous'
    BY <1>1, ScriptsAssumption DEF StreakFits, SettledPointContinuous
  <1>3. SavedTableTrue' /\ CommitIsTrue'
    BY <1>0, <1>1 DEF SavedTableTrue, CommitIsTrue, TrueTable
  <1>4. VoltageFits' /\ CurrentFits' /\ SwapFits' /\ CleanupFits'
    BY <1>1 DEF VoltageFits, CurrentFits, SwapFits, CleanupFits
  <1> QED BY <1>1, <1>2, <1>3, <1>4 DEF ScriptsInv

LEMMA ScriptsInit == Init => ScriptsInv
  <1> SUFFICES ASSUME Init PROVE ScriptsInv
    OBVIOUS
  <1>1. bench \in Benches /\ bench.fifo = <<>> /\ bench.saved = <<>>
    <2>1. <<>> \in Seq(Orders) /\ <<>> \in Seq(Captured)
      OBVIOUS
    <2> QED BY <2>1 DEF Init, Bench0, Benches
  <1>2. left \in [runs : Int, faults : Int]
    BY ScriptsAssumption DEF Init
  <1>3. run \in ScriptRuns /\ run.phase = "done" /\ ~run.tried /\ run.samples = <<>> /\ run.averages = <<>>
        /\ run.streak = 0 /\ run.points = <<>>
    <2>0. PICK n : n = Runs - left.runs
      OBVIOUS
    <2>1. 1 \in Positive /\ <<>> \in Seq({0, 1}) /\ <<>> \in Seq(Sums) /\ <<>> \in Seq(CurvePoints) /\ "ask" \in Names /\ n \in Int
      BY <1>2, <2>0, ScriptsAssumption DEF Positive, Names
    <2>2. PICK r : r = [s |-> "ask", n |-> n, phase |-> "body", pc |-> 1, block |-> 1, k |-> 1,
             open |-> FALSE, tried |-> TRUE, stop |-> FALSE, lost |-> {}, prev |-> -1,
             samples |-> <<>>, averages |-> <<>>, streak |-> 0, points |-> <<>>]
      OBVIOUS
    <2>3. r \in ScriptRuns
      BY <2>1, <2>2 DEF ScriptRuns
    <2>4. run = [r EXCEPT !.phase = "done", !.tried = FALSE]
      BY <2>0, <2>2 DEF Init, Fresh
    <2> QED BY <2>2, <2>3, <2>4 DEF ScriptRuns
  <1>4. PcInside /\ VoltageFits /\ CurrentFits /\ SwapFits /\ CleanupFits
    BY <1>3 DEF PcInside, VoltageFits, CurrentFits, SwapFits, CleanupFits
  <1>5. SavedTableTrue /\ CommitIsTrue
    BY <1>1 DEF SavedTableTrue, CommitIsTrue
  <1>6. StreakFits /\ SettledPointContinuous
    BY <1>3, ScriptsAssumption DEF StreakFits, SettledPointContinuous
  <1> QED BY <1>1, <1>2, <1>3, <1>4, <1>5, <1>6 DEF ScriptsInv, ScriptTypes

LEMMA ScriptsNext == ScriptsInv /\ [Next]_vars => ScriptsInv'
  <1> SUFFICES ASSUME ScriptsInv, [Next]_vars PROVE ScriptsInv'
    OBVIOUS
  <1>1. CASE Stepping
    BY <1>1, SteppingKeeps
  <1>2. CASE Finally
    BY <1>2, FinallyKeeps
  <1>3. CASE Firmware
    BY <1>3, FirmwareKeeps
  <1>4. CASE Cancel
    BY <1>4, CancelKeeps
  <1>5. CASE \E s \in Scripts : Start(s)
    BY <1>5, StartKeeps
  <1>6. CASE UNCHANGED vars
    BY <1>6 DEF vars, ScriptsInv, ScriptTypes, PcInside, Program, SavedTableTrue, CommitIsTrue, TrueTable, OwnTable,
                VoltageFits, VoltageTable, CurrentFits, CurrentTable, BelowPrev, OnlyRelay, StartWaits, Quiet, CaptureWaits,
                Level, StreakFits, SettledPointContinuous, CleanupFits, Given, Failed, SwitchedOff, RelayEndsOff, SwapFits
  <1> QED BY <1>1, <1>2, <1>3, <1>4, <1>5, <1>6 DEF Next, Stepping

-----------------------------------------------------------------------------
(* What a cleanup switches off.                                            *)
Switches(s, c) == \E b \in DOMAIN Cleanup[s] : \E i \in DOMAIN Cleanup[s][b].do : Cleanup[s][b].do[i] = W(c)
LEMMA OffCommands ==
  /\ \A s \in {"voltage", "current", "accuracy", "sweep"} : Switches(s, "srcOff")
  /\ \A s \in Names \ {"dump", "watch"} : Switches(s, "relayOff")
  /\ Switches("curve", "loadOff")
  <1>0. ASSUME NEW s \in Names, NEW b \in 1..Len(Cleanup[s]), NEW i \in 1..Len(Cleanup[s][b].do), NEW c, Cleanup[s][b].do[i] = W(c)
        PROVE  Switches(s, c)
    BY <1>0, CleanupFit DEF CleanupsFit, BlockFits, Switches
  <1>1. Switches("voltage", "srcOff") /\ Switches("voltage", "relayOff")
    <2>1. Len(Cleanup["voltage"]) = 4 /\ Cleanup["voltage"][3] = Alone("srcOff") /\ Cleanup["voltage"][4] = Alone("relayOff")
      BY CleanupOf DEF VoltageCleanup
    <2>2. \A c : Len(Alone(c).do) = 1 /\ Alone(c).do[1] = W(c)
      BY DEF Alone
    <2>3. "voltage" \in Names /\ 3 \in 1..4 /\ 4 \in 1..4 /\ 1 \in 1..1
      BY DEF Names
    <2>4. Switches("voltage", "srcOff")
      BY <1>0, <2>1, <2>2, <2>3
    <2>5. Switches("voltage", "relayOff")
      BY <1>0, <2>1, <2>2, <2>3
    <2> QED BY <2>4, <2>5
  <1>2. Switches("current", "srcOff") /\ Switches("current", "relayOff")
    <2>1. Len(Cleanup["current"]) = 3 /\ Cleanup["current"][1] = Alone("srcOff") /\ Cleanup["current"][2] = Alone("relayOff")
      BY CleanupOf DEF CurrentCleanup
    <2> QED BY <1>0, <2>1 DEF Alone, Names
  <1>3. ASSUME NEW s \in {"accuracy", "sweep"} PROVE Switches(s, "srcOff") /\ Switches(s, "relayOff")
    <2>1. Cleanup[s] = SweepCleanup
      BY CleanupOf
    <2>2. Len(SweepCleanup) = 2 /\ Len(SweepCleanup[2].do) = 2
          /\ SweepCleanup[2].do[1] = W("srcOff") /\ SweepCleanup[2].do[2] = W("relayOff")
      BY DEF SweepCleanup
    <2>3. s \in Names /\ 2 \in 1..2 /\ 1 \in 1..2
      BY DEF Names
    <2>4. Switches(s, "srcOff")
      BY <1>0, <2>1, <2>2, <2>3
    <2>5. Switches(s, "relayOff")
      BY <1>0, <2>1, <2>2, <2>3
    <2> QED BY <2>4, <2>5
  <1>4. Switches("curve", "relayOff") /\ Switches("curve", "loadOff")
    <2>1. Len(Cleanup["curve"]) = 2 /\ Cleanup["curve"][1] = Alone("relayOff") /\ Cleanup["curve"][2] = Alone("loadOff")
      BY CleanupOf DEF CurveCleanup
    <2> QED BY <1>0, <2>1 DEF Alone, Names
  <1>5. ASSUME NEW s \in {"read", "ask", "sample", "operator", "melody"} PROVE Switches(s, "relayOff")
    <2>1. Cleanup[s] = RelayCleanup
      BY CleanupOf
    <2>2. Len(RelayCleanup) = 1 /\ RelayCleanup[1] = Alone("relayOff")
      BY DEF RelayCleanup
    <2> QED BY <1>0, <2>1, <2>2 DEF Alone, Names
  <1> QED BY <1>1, <1>2, <1>3, <1>4, <1>5 DEF Names

LEMMA DoneIsOff == ScriptsInv => OffWhenTouched
  <1> SUFFICES ASSUME ScriptsInv PROVE OffWhenTouched
    OBVIOUS
  <1>0. ScriptTypes /\ PcInside /\ CleanupFits /\ SwapFits /\ run.s \in Names /\ run.block \in Nat
    BY DEF ScriptsInv, ScriptTypes, ScriptRuns, Positive
  <1>1. ASSUME run.phase = "done", run.tried, ~run.stop, NEW c \in Offs, Switches(run.s, c), ~Failed(c)
        PROVE  SwitchedOff(c)
    <2>1. run.block > Len(Cleanup[run.s])
      BY <1>0, <1>1 DEF PcInside
    <2>2. PICK b \in DOMAIN Cleanup[run.s] : \E i \in DOMAIN Cleanup[run.s][b].do : Cleanup[run.s][b].do[i] = W(c)
      BY <1>1 DEF Switches
    <2>3. b < run.block
      BY <1>0, <2>1, <2>2, CleanupFit DEF CleanupsFit
    <2>4. Given(c)
      BY <2>2, <2>3 DEF Given
    <2> QED BY <1>0, <1>1, <2>4 DEF CleanupFits
  <1>2. Quiet /\ RelayEndsOff => ~bench.relay
    BY DEF Quiet, RelayEndsOff
  <1>3. ASSUME run.phase = "body", At("swap") PROVE ~bench.out
    <2>1. Program[run.pc] = Body[run.s][run.pc] /\ CallFits(run.s, run.pc)
      BY <1>0, <1>3, CallIs DEF Running
    <2>2. run.s = "sweep" /\ run.pc = 20
      BY <1>3, <2>1 DEF CallFits, At
    <2> QED BY <1>0, <1>3, <2>2 DEF SwapFits
  <1> QED BY <1>0, <1>1, <1>2, <1>3, OffCommands DEF OffWhenTouched, SwitchedOff, Offs

LEMMA ScriptsInvariant == Spec => []ScriptsInv
  BY ScriptsInit, ScriptsNext, PTL DEF Spec

(* A table that a supply has saved holds what one run captured, over       *)
(* levels the reference meter had read: both calibration scripts wait for  *)
(* each capture and commit only what they have counted or confirmed.       *)
THEOREM SavedTableStaysTrue == Spec => []SavedTableTrue
  <1>1. ScriptsInv => SavedTableTrue
    BY DEF ScriptsInv
  <1> QED BY <1>1, ScriptsInvariant, PTL

(* A point of the current-temperature curve is the mean of two blocks of   *)
(* readings in a row, none of them from before the target was set or from  *)
(* before a reading that lay off the target.                               *)
THEOREM SettledPointStaysContinuous == Spec => []SettledPointContinuous
  <1>1. ScriptsInv => SettledPointContinuous
    BY DEF ScriptsInv
  <1> QED BY <1>1, ScriptsInvariant, PTL

(* However a script ends, unless its task is cancelled, what its finally   *)
(* switches off is off, but for what failed to be; and the resistor is     *)
(* replaced only while the source is off.                                  *)
THEOREM ScriptsEndOff == Spec => []OffWhenTouched
  BY DoneIsOff, ScriptsInvariant, PTL
=============================================================================
