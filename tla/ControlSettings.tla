--------------------------- MODULE ControlSettings ---------------------------
(***************************************************************************)
(* The settings of the cards: for each kind of card the defaults, what its *)
(* dialog accepts, what is stored of it, and when the card runs and what   *)
(* it has polled; then the dialog with the record it saves in the          *)
(* browser's local storage.  A second tab saves to the same record.        *)
(* Names, units and colours are left out.                                  *)
(***************************************************************************)
EXTENDS Naturals, Sequences, SequencesExt, FiniteSets

CONSTANT MaxEdits     \* bound: edits, and saves by the other tab, by kind of card

VARIABLE w            \* the settings of a card of the kind w.card

(* What the dialogs do to a text that was typed.  A text stands for all    *)
(* those the code treats alike:                                            *)
(*   ""  nothing          "blank"   only spaces                            *)
(*   "query", "padded", "tabbed"    a query, alone, between spaces, or     *)
(*                                  with a tab in it                       *)
(*   "command"  no query mark       "manage"  begins with /connect         *)
(*   "control"  holds a control character that is not a space              *)
(*   "one", "two", "long", "longer" further texts; the last two differ     *)
(*                                  only past the length that is kept      *)
(* Any other text is itself.                                               *)
Trim(t) == CASE t = "blank" -> "" [] t = "padded" -> "query" [] OTHER -> t
Cut(t) == IF t = "longer" THEN "long" ELSE t
normalizeScpiQuery(t) == IF t = "tabbed" THEN "query" ELSE Trim(t)

validateScpiCommand(t) ==
  /\ normalizeScpiQuery(t) # ""
  /\ t \notin {"tabbed", "control"}
  /\ normalizeScpiQuery(t) # "manage"
validateScpiQuery(t) == validateScpiCommand(t) /\ normalizeScpiQuery(t) \notin {"command", "template"}

(* Typed texts that are not what is asked for are stored as nothing.       *)
KeptAsTyped(t) == normalizeScpiQuery(t)    \* mutant: whatever was typed is stored
QueryOrNothing(t) == IF validateScpiQuery(normalizeScpiQuery(t)) THEN normalizeScpiQuery(t) ELSE ""
CommandOrNothing(t) == IF validateScpiCommand(normalizeScpiQuery(t)) THEN normalizeScpiQuery(t) ELSE ""

(* A response that means "on" or "off", and the pair of them.              *)
Response(t, fallback) == IF Trim(t) = "" THEN fallback ELSE Cut(Trim(t))
OtherResponse(t, on) ==
  IF Response(t, "0") # on THEN Response(t, "0") ELSE IF on = "0" THEN "1" ELSE "0"

(* Numbers as they are typed: hertz, and whole numbers with their bounds.  *)
normalizeFrequency(t) == CASE t = "" -> "1" [] t = "0.01" -> "0.1" [] t = "500" -> "100" [] OTHER -> t

-----------------------------------------------------------------------------
Changed(d, field, values) == {[d EXCEPT ![field] = v] : v \in values}
Queries == {"", "query", "padded", "tabbed", "command", "manage", "control"}
Devices == {"", "d"}
Frequencies == {"", "1", "0.01", "500"}
Poll(device, query) == {[device |-> device, query |-> query]}

-----------------------------------------------------------------------------
(* A single value, which may be set as well.                               *)
ValueDefault == [device |-> "", query |-> "", freq |-> "1", set |-> "off", command |-> "", value |-> ""]
validateSetValueConfig(c) ==
  /\ validateScpiCommand(c.command) /\ c.command = "template"    \* exactly one {value}
  /\ c.value # "control"
ValueAccepts(d) ==
  /\ d.device # "" /\ validateScpiQuery(d.query) /\ normalizeFrequency(d.freq) = d.freq
  /\ d.set = "on" => validateSetValueConfig(d)
ValueNormal(c) ==
  [c EXCEPT !.query = QueryOrNothing(@), !.freq = normalizeFrequency(@), !.command = Trim(@), !.value = Trim(@)]
ValueRuns(c) == c.device # "" /\ validateScpiQuery(c.query) /\ (c.set = "on" => validateSetValueConfig(c))
ValuePolled(c) == IF c.device # "" /\ c.query # "" THEN Poll(c.device, c.query) ELSE {}
ValueEdits(d) ==
  Changed(d, "device", Devices) \union Changed(d, "query", Queries) \union Changed(d, "freq", Frequencies)
    \union Changed(d, "set", {"on", "off"})
    \union (IF d.set = "off" THEN {} ELSE Changed(d, "command", {"", "template", "command", "manage", "control"})
                                          \union Changed(d, "value", {"", "blank", "5", "control"}))
ValueSame(d, c) == c.freq = d.freq /\ c.set = d.set

(* A toggle, polled only when it is asked to refresh by itself.            *)
ToggleDefault ==
  [device |-> "", status |-> "", on |-> "", off |-> "", onResponse |-> "1", offResponse |-> "0", auto |-> "off", freq |-> "1"]
ToggleAccepts(d) ==
  /\ d.device # "" /\ validateScpiQuery(d.status) /\ validateScpiCommand(d.on) /\ validateScpiCommand(d.off)
  /\ Trim(d.onResponse) # "" /\ Trim(d.offResponse) # "" /\ Trim(d.onResponse) # Trim(d.offResponse)
  /\ d.auto = "on" => normalizeFrequency(d.freq) = d.freq
SameResponses(c) ==                \* mutant: the two responses may become one
  [c EXCEPT !.status = QueryOrNothing(@), !.on = CommandOrNothing(@), !.off = CommandOrNothing(@),
            !.onResponse = Response(@, "1"), !.offResponse = Response(@, "0"), !.freq = normalizeFrequency(@)]
ToggleNormal(c) ==
  [c EXCEPT !.status = QueryOrNothing(@), !.on = CommandOrNothing(@), !.off = CommandOrNothing(@),
            !.onResponse = Response(@, "1"), !.offResponse = OtherResponse(@, Response(c.onResponse, "1")),
            !.freq = normalizeFrequency(@)]
ToggleRuns(c) ==
  c.device # "" /\ validateScpiQuery(c.status) /\ validateScpiCommand(c.on) /\ validateScpiCommand(c.off)
TogglePolled(c) == IF c.auto = "on" /\ c.device # "" /\ c.status # "" THEN Poll(c.device, c.status) ELSE {}
ToggleEdits(d) ==
  Changed(d, "device", Devices) \union Changed(d, "status", Queries)
    \union UNION {Changed(d, f, {"", "command", "manage", "tabbed"}) : f \in {"on", "off"}}
    \union UNION {Changed(d, f, {"blank", "0", "1", "long", "longer"}) : f \in {"onResponse", "offResponse"}}
    \union Changed(d, "auto", {"on", "off"}) \union Changed(d, "freq", Frequencies)
ToggleSame(d, c) ==
  /\ d.auto = "on" => c.freq = d.freq
  /\ c.onResponse # c.offResponse

-----------------------------------------------------------------------------
(* A protection.  Its limits are 0, 5 and 9, the largest the default.      *)
ProtectionDefault ==
  [device |-> "", key |-> "", channel |-> "CH1", query |-> "", template |-> "", trip |-> "", enable |-> "", on |-> "",
   off |-> "", enabled |-> "1", disabled |-> "0", min |-> "0", max |-> "9", decimals |-> "4", freq |-> "1"]
Below(a, b) == <<a, b>> \in {<<"0", "5">>, <<"0", "9">>, <<"5", "9">>}
HasEnable(d) == \E t \in {d.enable, d.on, d.off} : normalizeScpiQuery(t) # ""
ValidLimits(d) == d.min # "" /\ d.max # "" /\ ~Below(d.max, d.min)
ProtectionAccepts(d) ==
  /\ d.device # "" /\ Trim(d.key) # "" /\ Trim(d.channel) # ""
  /\ QueryOrNothing(d.query) # "" /\ QueryOrNothing(d.trip) # "" /\ d.template = "template"
  /\ HasEnable(d) => /\ QueryOrNothing(d.enable) # "" /\ CommandOrNothing(d.on) # "" /\ CommandOrNothing(d.off) # ""
                     /\ Trim(d.enabled) # "" /\ Trim(d.disabled) # ""
  /\ ValidLimits(d) /\ d.decimals \notin {"", "-1", "7"}
Decimals(t) == CASE t \in {"", "-1", "typed 0"} -> "0" [] t \in {"7", "1e1"} -> "6" [] OTHER -> t
Limits(c) ==
  LET min == IF c.min = "" THEN "0" ELSE c.min
      max == IF c.max = "" THEN "9" ELSE c.max
  IN IF Below(max, min) THEN <<max, min>> ELSE <<min, max>>
ProtectionNormal(c) ==
  [c EXCEPT !.key = Trim(@), !.channel = IF Trim(@) = "" THEN "CH1" ELSE @,
            !.query = QueryOrNothing(@), !.trip = QueryOrNothing(@), !.template = IF @ = "template" THEN @ ELSE "",
            !.enable = QueryOrNothing(@), !.on = CommandOrNothing(@), !.off = CommandOrNothing(@),
            !.enabled = Response(@, "1"), !.disabled = OtherResponse(@, Response(c.enabled, "1")),
            !.min = Limits(c)[1], !.max = Limits(c)[2], !.decimals = Decimals(@), !.freq = normalizeFrequency(@)]
ProtectionRuns(c) ==
  /\ c.device # "" /\ c.key # "" /\ c.channel # ""
  /\ validateScpiQuery(c.query) /\ validateScpiQuery(c.trip) /\ c.template = "template"
  /\ c.enable # "" /\ c.on # "" /\ c.off # "" =>
       validateScpiQuery(c.enable) /\ validateScpiCommand(c.on) /\ validateScpiCommand(c.off)
(* The presets write their queries for the channel that was typed, and the *)
(* default for an empty text or a loaded 0; a 0 that was typed stays.      *)
applyProtectionPreset(d, key) ==
  LET channel == IF Trim(d.channel) = "" THEN "CH1" ELSE d.channel
      For(t) == IF channel = "control" THEN "control" ELSE t
      Support(t) == IF key = "OCP" THEN For(t) ELSE ""
  IN [d EXCEPT !.key = key, !.channel = channel, !.query = For("query"), !.template = For("template"),
               !.trip = For("query"), !.enable = Support("query"), !.on = Support("command"), !.off = Support("command"),
               !.min = IF @ = "" THEN "0" ELSE @, !.max = IF @ \in {"", "0"} THEN "9" ELSE @,
               !.decimals = IF @ \in {"", "0"} THEN "4" ELSE @]
ProtectionEdits(d) ==
  {applyProtectionPreset(d, key) : key \in {"OVP", "OCP"}} \union Changed(d, "device", Devices)
    \union Changed(d, "key", {"blank", "OVP"}) \union Changed(d, "channel", {"blank", "CH1", "control"})
    \union UNION {Changed(d, f, {"", "tabbed", "command", "control"}) : f \in {"query", "enable", "on"}}
    \union Changed(d, "template", {"template", "command"})
    \union Changed(d, "enabled", {"blank", "0"}) \union Changed(d, "min", {"", "5", "9"}) \union Changed(d, "max", {"", "5"})
    \union Changed(d, "decimals", {"", "-1", "7", "1e1", "2", "typed 0"}) \union Changed(d, "freq", {"1", "0.1", "100"})
ProtectionSame(d, c) ==
  /\ c.min = d.min /\ c.max = d.max
  /\ d.decimals # "1e1" => c.decimals = IF d.decimals = "typed 0" THEN "0" ELSE d.decimals

-----------------------------------------------------------------------------
(* External triggers: the two templates, the value that clears a trigger,  *)
(* and the actions an operator may assign.                                 *)
TriggerDefault == [device |-> "", status |-> "", setup |-> "", clear |-> "none", actions |-> <<>>]
Action(name, command) == [name |-> name, command |-> command]
validateActionOptions(c) ==
  /\ \A i \in DOMAIN c.actions :
       /\ Trim(c.actions[i].name) # "" /\ validateScpiCommand(c.actions[i].command)
       /\ normalizeScpiQuery(c.actions[i].command) # normalizeScpiQuery(c.clear)
  /\ \A i, j \in DOMAIN c.actions : i # j => c.actions[i].name # c.actions[j].name /\ c.actions[i].command # c.actions[j].command
TriggerRuns(c) ==
  /\ c.device # "" /\ c.status = "status" /\ c.setup = "setup"    \* every place holder, and nothing forbidden
  /\ validateScpiCommand(c.clear) /\ validateActionOptions(c)
TriggerAccepts(d) == TriggerRuns(d)
normalizeActionOption(a) == Action(Cut(Trim(a.name)), Cut(normalizeScpiQuery(a.command)))
TriggerNormal(c) ==
  [c EXCEPT !.status = IF @ = "status" THEN @ ELSE "", !.setup = IF @ = "setup" THEN @ ELSE "",
            !.clear = IF CommandOrNothing(@) = "" THEN "none" ELSE Cut(@),
            !.actions = SelectSeq([i \in DOMAIN @ |-> normalizeActionOption(@[i])],
                                  LAMBDA a : a.name # "" /\ validateScpiCommand(a.command))]
(* Two accepted actions that are one action once they are cut.             *)
Merged(d) ==
  \/ \E i, j \in DOMAIN d.actions : i # j /\ \/ Cut(d.actions[i].name) = Cut(d.actions[j].name)
                                             \/ Cut(d.actions[i].command) = Cut(d.actions[j].command)
  \/ \E i \in DOMAIN d.actions : Cut(d.actions[i].command) = Cut(d.clear)
applyDefaultTriggerConfig(d) ==
  [d EXCEPT !.status = "status", !.setup = "setup", !.clear = "none", !.actions = <<Action("one", "start"), Action("two", "stop")>>]
TriggerEdits(d) ==
  {applyDefaultTriggerConfig(d)} \union Changed(d, "device", Devices) \union Changed(d, "status", {"", "status", "query"})
    \union Changed(d, "setup", {"setup", "command"}) \union Changed(d, "clear", {"blank", "none", "start", "long"})
    \union (IF Len(d.actions) = 3 THEN {} ELSE {[d EXCEPT !.actions = Append(@, Action("", ""))]})
    \union {[d EXCEPT !.actions = RemoveAt(@, i)] : i \in DOMAIN d.actions}
    \union {[d EXCEPT !.actions[i].name = t] : i \in DOMAIN d.actions, t \in {"blank", "one", "long", "longer"}}
    \union {[d EXCEPT !.actions[i].command = t] : i \in DOMAIN d.actions, t \in {"control", "none", "long", "longer"}}
TriggerSame(d, c) == Len(c.actions) = Len(d.actions)

-----------------------------------------------------------------------------
(* The settings of the two kinds of chart.  The history is limited in      *)
(* bytes: "max" is the most there may be, "more" more than that, "0" and   *)
(* "1" limits the dialogs do not accept.  "5e2" and "99.5" are texts a     *)
(* field for numbers can hold.                                             *)
Histories == {"", "0", "1024", "max", "more"}
normalizeHistoryLimitBytes(t) == CASE t \in {"", "more"} -> "max" [] t = "0" -> "1" [] OTHER -> t
AcceptsLimit(t) == t \in {"1024", "max"}
normalizeChartStatisticsConfig(summary, ids, first) == IF summary \in ids THEN summary ELSE first

-----------------------------------------------------------------------------
(* A chart of series; the dialog edits the first one only.                 *)
Line(device, query) == [device |-> device, query |-> query]
ChartDefault == [series |-> <<Line("", "")>>, freq |-> "1", limit |-> "max", summary |-> 1]
ChartAccepts(d) ==
  /\ d.series[1].device # "" /\ validateScpiQuery(d.series[1].query)
  /\ normalizeFrequency(d.freq) = d.freq /\ AcceptsLimit(d.limit)
normalizeChartSeries(s) == Line(s.device, QueryOrNothing(s.query))
ChartNormal(c) ==
  LET series == IF c.series = <<>> THEN ChartDefault.series ELSE c.series IN
    [series |-> [i \in DOMAIN series |-> normalizeChartSeries(series[i])], freq |-> normalizeFrequency(c.freq),
     limit |-> normalizeHistoryLimitBytes(c.limit), summary |-> normalizeChartStatisticsConfig(c.summary, DOMAIN series, 1)]
ChartRuns(c) == c.series[1].device # "" /\ validateScpiQuery(c.series[1].query)
ChartPolled(c) ==
  UNION {Poll(c.series[i].device, c.series[i].query) :
           i \in {k \in DOMAIN c.series : c.series[k].device # "" /\ c.series[k].query # ""}}
ChartEdits(d) ==
  {[d EXCEPT !.series[1].device = v] : v \in Devices} \union {[d EXCEPT !.series[1].query = q] : q \in Queries}
    \union Changed(d, "freq", Frequencies) \union Changed(d, "limit", Histories)
    \union Changed(d, "summary", DOMAIN d.series)
ChartSame(d, c) == c.freq = d.freq /\ c.limit = d.limit /\ c.summary = d.summary /\ Tail(c.series) = Tail(d.series)

-----------------------------------------------------------------------------
(* An X-Y chart: both axes, how long the second of a pair is waited for,   *)
(* and the line the statistics summarise.                                  *)
XyDefault ==
  [x |-> Line("", ""), y |-> Line("", ""), freq |-> "1", timeout |-> "500", limit |-> "max", product |-> "off", summary |-> "y"]
XyAccepts(d) ==
  /\ \A axis \in {d.x, d.y} : axis.device # "" /\ validateScpiQuery(axis.query)
  /\ normalizeFrequency(d.freq) = d.freq /\ d.timeout \in {"50", "500", "10000"} /\ AcceptsLimit(d.limit)
normalizeIntegerInRange(t) ==
  CASE t = "" -> "500" [] t \in {"49", "5e2"} -> "50" [] t = "99.5" -> "99" [] t = "10001" -> "10000" [] OTHER -> t
XyStatisticsSeries(c) == {"y", "x"} \union (IF c.product = "on" THEN {"product"} ELSE {})
XyNormal(c) ==
  [c EXCEPT !.x = normalizeChartSeries(@), !.y = normalizeChartSeries(@), !.freq = normalizeFrequency(@),
            !.timeout = normalizeIntegerInRange(@), !.limit = normalizeHistoryLimitBytes(@),
            !.summary = normalizeChartStatisticsConfig(@, XyStatisticsSeries(c), "y")]
XyRuns(c) == \A axis \in {c.x, c.y} : axis.device # "" /\ axis.query # ""
XyPolled(c) == IF XyRuns(c) THEN Poll(c.x.device, c.x.query) \union Poll(c.y.device, c.y.query) ELSE {}
AxisEdits(d, axis) ==
  {[d EXCEPT ![axis].device = v] : v \in Devices} \union {[d EXCEPT ![axis].query = q] : q \in Queries}
XyEdits(d) ==
  AxisEdits(d, "x") \union AxisEdits(d, "y")
    \union Changed(d, "freq", Frequencies) \union Changed(d, "limit", Histories)
    \union Changed(d, "timeout", {"", "49", "50", "5e2", "99.5", "10001"})
    \union Changed(d, "product", {"on", "off"}) \union Changed(d, "summary", XyStatisticsSeries(d))
XySame(d, c) ==
  /\ c.freq = d.freq /\ c.timeout = d.timeout /\ c.limit = d.limit
  /\ c.summary = d.summary \/ (d.summary = "product" /\ d.product = "off")

-----------------------------------------------------------------------------
(* The kinds of card.                                                      *)
Kinds == {"value", "toggle", "trip", "trigger", "chart", "xy"}
(* What is loaded of a record, and stored of a draft.                      *)
Normal(k, c) ==
  CASE k = "value" -> ValueNormal(c) [] k = "toggle" -> ToggleNormal(c) [] k = "trip" -> ProtectionNormal(c)
    [] k = "trigger" -> TriggerNormal(c) [] k = "chart" -> ChartNormal(c) [] k = "xy" -> XyNormal(c)
(* The dialog's check of a draft, and the card's of its configuration.     *)
Accepts(k, d) ==
  CASE k = "value" -> ValueAccepts(d) [] k = "toggle" -> ToggleAccepts(d) [] k = "trip" -> ProtectionAccepts(d)
    [] k = "trigger" -> TriggerAccepts(d) [] k = "chart" -> ChartAccepts(d) [] k = "xy" -> XyAccepts(d)
Runs(k, c) ==
  CASE k = "value" -> ValueRuns(c) [] k = "toggle" -> ToggleRuns(c) [] k = "trip" -> ProtectionRuns(c)
    [] k = "trigger" -> TriggerRuns(c) [] k = "chart" -> ChartRuns(c) [] k = "xy" -> XyRuns(c)
(* What the poller takes from the configuration.                           *)
Polled(k, c) ==
  CASE k = "value" -> ValuePolled(c) [] k = "toggle" -> TogglePolled(c) [] k = "chart" -> ChartPolled(c)
    [] k = "xy" -> XyPolled(c) [] OTHER -> {}
(* Drafts one change of a field, or one button, away.                      *)
Edits(k, d) ==
  CASE k = "value" -> ValueEdits(d) [] k = "toggle" -> ToggleEdits(d) [] k = "trip" -> ProtectionEdits(d)
    [] k = "trigger" -> TriggerEdits(d) [] k = "chart" -> ChartEdits(d) [] k = "xy" -> XyEdits(d)
(* The parts of a draft that are stored as they are.                       *)
Same(k, d, c) ==
  CASE k = "value" -> ValueSame(d, c) [] k = "toggle" -> ToggleSame(d, c) [] k = "trip" -> ProtectionSame(d, c)
    [] k = "trigger" -> TriggerSame(d, c) [] k = "chart" -> ChartSame(d, c) [] k = "xy" -> XySame(d, c)
(* Records there may be before: the defaults, a card in use, and one that  *)
(* an older version, or a hand, has left.                                  *)
Olds(k) ==
  CASE k = "value" ->
         {ValueDefault, [ValueDefault EXCEPT !.device = "d", !.query = "query", !.command = "template", !.value = "5"],
          [ValueDefault EXCEPT !.device = "d", !.query = "manage", !.freq = "500", !.set = "on", !.command = "double"]}
    [] k = "toggle" ->
         {ToggleDefault, [ToggleDefault EXCEPT !.device = "d", !.status = "query", !.on = "one", !.off = "two"],
          [ToggleDefault EXCEPT !.device = "d", !.status = "command", !.on = "control", !.off = "two", !.auto = "on",
                                !.onResponse = "0"]}
    [] k = "trip" ->
         {ProtectionDefault, [applyProtectionPreset(ProtectionDefault, "OCP") EXCEPT !.device = "d"],
          [ProtectionDefault EXCEPT !.device = "d", !.key = "OVP", !.query = "command", !.min = "9", !.max = "5", !.decimals = "7"]}
    [] k = "trigger" ->
         {TriggerDefault, [applyDefaultTriggerConfig(TriggerDefault) EXCEPT !.device = "d"],
          [TriggerDefault EXCEPT !.device = "d", !.status = "query", !.clear = "control", !.actions = <<Action("one", "manage")>>]}
    [] k = "chart" ->
         {ChartDefault, [ChartDefault EXCEPT !.series = <<>>, !.limit = "0"],
          [ChartDefault EXCEPT !.series = <<Line("d", "query"), Line("d", "command"), Line("d", "query")>>, !.summary = 3]}
    [] k = "xy" ->
         {XyDefault, [XyDefault EXCEPT !.x = Line("d", "query"), !.y = Line("d", "query"), !.product = "on", !.summary = "product"],
          [XyDefault EXCEPT !.x = Line("d", "query"), !.y = Line("d", "control"), !.timeout = "10001", !.summary = "product"]}

-----------------------------------------------------------------------------
(* The dialog of a card.  Open it keeps its draft, closed it follows the   *)
(* settings.                                                               *)
Follow(x) == IF x.open THEN x ELSE [x EXCEPT !.draft = x.config]
OpenDialog == ~w.open /\ w' = [w EXCEPT !.open = TRUE]
CloseDialog == w.open /\ w' = Follow([w EXCEPT !.open = FALSE])
Edit ==
  /\ w.open /\ w.edits < MaxEdits[w.card]
  /\ \E d \in Edits(w.card, w.draft) : w' = [w EXCEPT !.draft = d, !.edits = @ + 1]
Submit ==
  /\ w.open /\ Accepts(w.card, w.draft)
  /\ w' = Follow([w EXCEPT !.open = FALSE, !.stored = Normal(w.card, w.draft), !.config = Normal(w.card, w.draft),
                           !.by = "dialog", !.typed = w.draft])
OtherTabSubmits ==
  /\ w.edits < MaxEdits[w.card]
  /\ \E d \in Edits(w.card, Normal(w.card, w.stored)) :
       /\ Accepts(w.card, d)
       /\ w' = Follow([w EXCEPT !.stored = Normal(w.card, d), !.config = Normal(w.card, Normal(w.card, d)),
                                !.by = "dialog", !.typed = d, !.edits = @ + 1])
Reload ==
  w' = Follow([w EXCEPT !.open = FALSE, !.config = Normal(w.card, w.stored)])

Init ==
  \E k \in Kinds : \E c \in Olds(k) :
    w = [card |-> k, stored |-> c, config |-> Normal(k, c), draft |-> Normal(k, c), typed |-> c, by |-> "file",
         open |-> FALSE, edits |-> 0]
Next == OpenDialog \/ CloseDialog \/ Edit \/ Submit \/ OtherTabSubmits \/ Reload

-----------------------------------------------------------------------------
(* What a dialog accepts and saves, here or in another tab, is accepted by *)
(* the card that runs it, comes back from storage with the numbers that    *)
(* were typed, and is accepted and left unchanged when the dialog is       *)
(* opened and submitted again.  A trigger with two actions that differ     *)
(* only past the length that is stored is left out.                        *)
SavedSettingsRun ==
  w.by = "dialog" /\ ~(w.card = "trigger" /\ Merged(w.typed)) =>
    /\ Runs(w.card, w.config) /\ Accepts(w.card, w.config)
    /\ Normal(w.card, w.config) = w.config /\ Same(w.card, w.typed, w.config)

(* What is polled are valid queries of a chosen device, and the card runs  *)
(* on what is stored, whoever wrote it.                                    *)
PollingIsSound ==
  /\ \A p \in Polled(w.card, w.config) : p.device # "" /\ validateScpiQuery(p.query)
  /\ w.config = Normal(w.card, w.stored)
=============================================================================
