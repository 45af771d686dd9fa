------------------------------- MODULE MCPanels -------------------------------
(***************************************************************************)
(* The parts of the dashboard that share no state, checked in one run: the *)
(* part is chosen at the start and only its actions run.                   *)
(***************************************************************************)
EXTENDS FrameStore, Readings, LiveCharts, Xray, LotViews, PathBook, PathTree,
        Longtail, Plots, Warehouse, ImpulseScene, Bindings, Inspector, Shell

CONSTANT Parts   \* the parts a run looks at

VARIABLE part

MCSymbols == <<"A", "B">>
MCLotBook == [l \in OpenLots |-> "paper"]
MCLayer(names, kind, items) == [under |-> TRUE, names |-> names, kind |-> kind, items |-> items]
MCLayerForms ==
  {MCLayer(<<"intensity", "background">>, "array", <<500, 300>>),
   MCLayer(<<"intensity">>, "array", <<0>>), MCLayer(<<"intensity">>, "gob", <<>>),
   MCLayer(<<"background">>, "scalar", <<900>>), MCLayer(<<"decay">>, "array", <<0>>),
   MCLayer(<<"arrival:buy", "arrival:sell">>, "array", <<200, 100>>),
   MCLayer(<<"radius">>, "array", <<>>), MCLayer(<<"side">>, "array", <<BuyWord>>),
   MCLayer(<<"side">>, "scalar", <<SellWord>>),
   MCLayer(<<"buy_from_buy", "sell_from_buy", "decay", "x">>, "array", <<100, 100, 400>>),
   [MCLayer(<<"intensity">>, "array", <<700>>) EXCEPT !.under = FALSE]}
MCDashed == [s \in Scopes |-> IF s = "B/U" THEN "B-U" ELSE s]

MCReadingForms == {[layer |-> 0, surprise |-> 1], [layer |-> 1], [surprise |-> 0],
                   [layer |-> 1, surprise |-> 1]}

Fill(id, side, qty, cost, at) ==
  [id |-> id, side |-> side, qty |-> qty, cost |-> cost, fee |-> cost, price |-> 2, at |-> at]
MCFillSet ==
  {Fill(1, "buy", 1, 2, 1), Fill(2, "buy", 2, Null, Null), Fill(Null, "buy", 1, 2, 2),
   Fill(3, "sell", 1, 2, 2), Fill(Null, "sell", 2, 4, Null), Fill(4, "sell", 0, Null, Null)}

Wire(state, current, floor, maxLoss, proximity) ==
  [state |-> state, current |-> current, peak |-> 3, floor |-> floor, initial |-> -1,
   maxLoss |-> maxLoss, target |-> 5, room |-> Null, proximity |-> proximity,
   pressure |-> Null, down |-> 3]
MCStops ==
  {Wire(st, c, f, l, x) : st \in ({"code"} \X (0..6)) \cup ({"label"} \X {"Protected", "x"}), c \in {Null, 3},
                          f \in {Null, -2, 3}, l \in {Null, -5}, x \in {Null, 30}}
MCReturns == {-700, -251, -250, -86, -85, 0, 99, 100, 500}

MCKey(home, path, action) == [home |-> home, path |-> path, action |-> action]
MCBookKeys == <<MCKey("model/paths", <<"R0">>, "enter"), MCKey("model/paths", <<"R0", "R1">>, "exit"),
                MCKey("policy/current", <<"R0">>, "enter")>>
MCKnownSymbols == {<<"B", "U">>, <<"B">>}
MCIndexTails == {<<"B", "U", "R0", "R1">>, <<"B", "U", "R1">>, <<"B", "tokens">>, <<"B", "x">>,
                 <<"B", "U">>, <<"C", "R0">>}
MCSentences == {<<>>, <<"R0">>}
MCBranch(path, action) == [path |-> path, action |-> action]
MCTrieKeys == <<MCBranch(<<"a">>, "enter"), MCBranch(<<"a", "b">>, "exit"),
                MCBranch(<<"b", "b">>, "enter")>>
MCTrieLevels == {MCTrieKeys[1] :> 20 @@ MCTrieKeys[2] :> 90}
MCWalks ==
  {[tokens |-> <<"a">>, path |-> << <<"a">>, "" >>, depth |-> 1, matched |-> {}, refused |-> {"b"}],
   [tokens |-> <<"b", "b">>, path |-> << <<"b", "b">>, "enter" >>, depth |-> 2,
    matched |-> {MCBranch(<<"a">>, "enter")}, refused |-> {}]}

MCRate(win, edge) == [win |-> win, edge |-> edge]
MCPaths(developed, promoted, added, removed) ==
  [developed |-> developed, promoted |-> promoted, added |-> added, removed |-> removed]
MCMix(profit, halted, policy) ==
  [profit |-> profit, stop |-> halted, policy |-> policy, total |-> profit + halted + policy]
MCProximity(invalidation, trailing, damage, nearest) ==
  [invalidation |-> invalidation, trailing |-> trailing, damage |-> damage, nearest |-> nearest]
MCSample(win, edge, confEdge, paths, resistance, hitRate, mix, stopped) ==
  [desk |-> MCRate(win, edge), conf |-> MCRate(win, confEdge), paths |-> paths,
   resistance |-> resistance, eligible |-> 200, hitRate |-> hitRate, exits |-> [virtual |-> mix, paper |-> MCMix(0, 1, 0)],
   stops |-> [virtual |-> stopped, paper |-> MCProximity(Unknown, 1100, 200, 1300)]]
MCSamples ==
  {MCSample(Unknown, Unknown, Unknown, MCPaths(10, 1, 3, 0), 300, Unknown, MCMix(0, 0, 0),
            MCProximity(Unknown, Unknown, Unknown, Unknown)),
   MCSample(Unknown, -5, Unknown, MCPaths(20, 2, 2, 2), 200, 0, MCMix(1, 0, 0),
            MCProximity(400, 700, Unknown, 900)),
   MCSample(440, 20, 20, MCPaths(Unknown, Unknown, Unknown, Unknown), Unknown, 1000,
            MCMix(1, 2, 0), MCProximity(Unknown, 1400, 300, 1400)),
   MCSample(500, 8, 8, MCPaths(5, 1, 3, 0), 800, 200, MCMix(2, 2, 1),
            MCProximity(Unknown, 500, Unknown, 500)),
   MCSample(600, -20, 30, MCPaths(5, 1, 0, 0), 810, Unknown, MCMix(3, 2, 1),
            MCProximity(100, Unknown, Unknown, Unknown)),
   MCSample(600, 5, -9, MCPaths(5, 1, 0, 0), 500, 500, MCMix(3, 2, 1),
            MCProximity(Unknown, Unknown, Unknown, Unknown))}
MCPlotSizes == {[width |-> 0, height |-> 0], [width |-> 300, height |-> 24],
                [width |-> 300, height |-> 120]}
MCRow(closed, triggers, exit, stopped) ==
  [closed |-> closed, triggers |-> triggers, exit |-> exit, stop |-> stopped]
MCHeld(state, proximity, down) == [state |-> state, proximity |-> proximity, down |-> down]
MCDeskRows ==
  {MCRow(TRUE, << {"trailing", "stop"}, {"maximum loss"} >>, Unknown, Unknown),
   MCRow(TRUE, <<>>, {"invalidation", "stop"}, Unknown),
   MCRow(TRUE, << {"profit"}, {"drag"} >>, {"exit branch"}, Unknown),
   MCRow(TRUE, <<>>, {"exit branch"}, Unknown),
   MCRow(TRUE, <<>>, {"trailing", "profit"}, Unknown),
   MCRow(TRUE, <<>>, {"exhaustion"}, Unknown),
   MCRow(TRUE, <<>>, Unknown, Unknown),
   MCRow(FALSE, <<>>, Unknown, Unknown),
   MCRow(FALSE, <<>>, Unknown, MCHeld("Protected", 700, 0)),
   MCRow(FALSE, <<>>, Unknown, MCHeld("Healthy", 0, 699)),
   MCRow(FALSE, <<>>, Unknown, MCHeld("Critical", 1000, 0))}
MCPathStates ==
  {[keys |-> ks, thresholds |-> t] : ks \in SUBSET {"p", "q"},
     t \in UNION {[d -> {20, 90}] : d \in {{"p"}, {"p", "q"}}}}

MCKernelMetrics == {<<>>, << <<"other", 700>>, <<"head", -100>> >>, << <<"other", 100>> >>}
MCCells == {<<"text", "m">>, <<"meter", "m">>, <<"badge", "n">>}
MCReadings == {[m |-> -12, n |-> NaN], [m |-> NaN, n |-> 3]}
MCPinRegion == [p |-> 0, q |-> 0, r |-> 1]

MCWindow(from, to, cols) == [from |-> from, to |-> to, cols |-> cols]
MCWindows == {MCWindow(0, 2, "c"), MCWindow(1, 3, "d"), MCWindow(4, 6, "c"), MCWindow(8, 10, "c")}

MCEntry(group, page, source, symbol) ==
  [group |-> group, surface |-> page, source |-> source, symbol |-> symbol]
MCPaletteEntries ==
  <<MCEntry("Surface", "xray", Undefined, Undefined), MCEntry("Kernel", "dashboard", "hawkes", Undefined),
    MCEntry("Symbol", Undefined, Undefined, "B/U"),
    MCEntry("Symbol", Undefined, Undefined, "E/U")>>
MCFinds == [q \in {"", "insp", "/u", "zz"} |->
  CASE q = "" -> ToSet(MCPaletteEntries)
    [] q = "insp" -> {MCPaletteEntries[2]}
    [] q = "/u" -> {MCPaletteEntries[3], MCPaletteEntries[4]}
    [] OTHER -> {}]
MCText(names, size) == [names |-> names, size |-> size]
MCClicks ==
  {[marked |-> "E/U", levels |-> <<MCText({}, 0)>>]} \cup
  {[marked |-> Undefined, levels |-> ls] : ls \in
     {l \in [1..2 -> {MCText(n, k) : n \in {{}, {"E/U"}, {"B/U", "E/U"}}, k \in {0, 60, 121}}] :
        \A i, j \in 1..2 : /\ i < j => l[i].names \subseteq l[j].names /\ l[i].size <= l[j].size
                           /\ l[i].size = 0 => l[i].names = {}}}
MCRezDefaults == [bypass |-> FALSE, floor |-> 1]
MCWireDecision(s, tier, action) == [symbol |-> s, tier |-> tier, action |-> action]
MCWireDecisions ==
  {<<>>, <<MCWireDecision(1, "", "enter")>>, <<MCWireDecision(1, "paper", "skip")>>,
   <<MCWireDecision(2, "paper", "blocked")>>, <<MCWireDecision(2, "paper", "")>>,
   <<MCWireDecision(1, "", "skip"), MCWireDecision(1, "paper", "exit"), MCWireDecision(1, "virtual", "enter")>>}

partVars == <<storeVars, readingVars, impulseVars, choiceVars, resonanceVars, hawkesVars, seriesVars,
              lotVars, stopVars, tripVars, bookVars, regionVars, treeVars,
              plotVars, exitVars, churnVars, gridVars, memoVars, benchVars,
              sceneVars, bindingVars, inspectVars, paletteVars, labVars, boardVars, part>>

Init ==
  /\ part \in Parts
  /\ StoreInit /\ ReadingInit /\ ImpulseInit /\ ChoiceInit /\ ResonanceInit /\ HawkesInit /\ SeriesInit
  /\ LotInit /\ StopInit /\ TripInit
  /\ BookInit /\ RegionInit /\ TreeInit
  /\ PlotInit /\ ExitInit /\ ChurnInit
  /\ GridInit /\ MemoInit /\ BenchInit
  /\ SceneInit /\ BindingInit /\ InspectInit
  /\ PaletteInit /\ LabInit /\ BoardInit

Next ==
  /\ part' = part
  /\ \/ part = "rows" /\ RowsArrive
     \/ part = "values" /\ ValuesArrive
     \/ part \notin {"rows", "values"} /\ UNCHANGED storeVars
  /\ IF part = "reading" THEN ReadingNext ELSE UNCHANGED readingVars
  /\ IF part = "impulse" THEN ImpulseNext ELSE UNCHANGED impulseVars
  /\ IF part = "choice" THEN ChoiceNext ELSE UNCHANGED choiceVars
  /\ IF part = "resonance" THEN ResonanceNext ELSE UNCHANGED resonanceVars
  /\ IF part = "hawkes" THEN HawkesNext ELSE UNCHANGED hawkesVars
  /\ IF part = "series" THEN SeriesNext ELSE UNCHANGED seriesVars
  /\ IF part = "lot" THEN LotNext ELSE UNCHANGED lotVars
  /\ IF part = "stop" THEN StopNext ELSE UNCHANGED stopVars
  /\ IF part = "trips" THEN TripNext ELSE UNCHANGED tripVars
  /\ IF part = "paths" THEN BookNext ELSE UNCHANGED bookVars
  /\ IF part = "regions" THEN RegionNext ELSE UNCHANGED regionVars
  /\ IF part = "tree" THEN TreeNext ELSE UNCHANGED treeVars
  /\ IF part = "trend" THEN PlotNext ELSE UNCHANGED plotVars
  /\ IF part = "exits" THEN ExitNext ELSE UNCHANGED exitVars
  /\ IF part = "churn" THEN ChurnNext ELSE UNCHANGED churnVars
  /\ IF part = "grid" THEN GridNext ELSE UNCHANGED gridVars
  /\ IF part = "memo" THEN MemoNext ELSE UNCHANGED memoVars
  /\ IF part = "bench" THEN BenchNext ELSE UNCHANGED benchVars
  /\ IF part = "scene" THEN SceneNext ELSE UNCHANGED sceneVars
  /\ IF part = "binding" THEN BindingNext ELSE UNCHANGED bindingVars
  /\ IF part = "inspect" THEN InspectNext ELSE UNCHANGED inspectVars
  /\ IF part = "palette" THEN PaletteNext ELSE UNCHANGED paletteVars
  /\ IF part = "lab" THEN LabNext ELSE UNCHANGED labVars
  /\ IF part = "board" THEN BoardNext ELSE UNCHANGED boardVars

Spec == Init /\ [][Next]_partVars

-----------------------------------------------------------------------------
(* Properties of several modules. *)

\* Frames rest and are read whole: the newest rows in order, partial frames
\* merged in any order, readings of the layers as they are now, and one number
\* by either way to it (circular.ts, store.ts, value.ts).
FramesAreReadWhole ==
  NewestKept /\ PartialFramesCommute /\ ReadIsCurrent /\ MetricsAgree /\ SampleCanBeTraced

\* What paints itself outside React shows the present state once it is at
\* rest, whatever rounds, fades, effects and timeouts of an earlier state were
\* still to run (use-impulse-data.ts, impulse-map-viz.tsx, open-choice-*).
ChartsAreCurrent ==
  /\ MapShowsOneGrid /\ SingleIsRestored /\ TrailsAligned
  /\ SceneIsCurrent /\ GridIsPlaced /\ ForcesAreStopped

\* A number and the line drawn beside it are the same symbol's same reading
\* (component.tsx, dom.ts, inspector.tsx, sparkline.tsx).
ReadoutsAgree ==
  ReadingsAreOfSymbol /\ SparkAgreesWithText /\ ModalShowsReading /\ SparkKeepsOrder

\* What is read off frames is true from the store to the readout: whole in the
\* store, aligned and filling its viewport in a trace, and the same number in
\* text, sparkline and badge (xray-view.ts, xray-hawkes-trace.ts as well).
ReadingsAreTrue == FramesAreReadWhole /\ TracesAreSound /\ ReadoutsAgree

\* Paths are whole from the wire to the tree: the book holds what its five
\* ingests leave in any order, and the tree is exactly the keys that are shown
\* (cognition.ts, radix-tree-viz.tsx).
PathsAreWhole == BookIsOrderFree /\ TreeIsWhole

\* Nothing the page holds is lost to a sparse, repeated or late frame: lit
\* layers, retained metrics, the lanes' signal, a tick's refused tokens, what
\* is read off a lot's executions and the chosen round trip (preserveLitLayers,
\* retainResonanceRow, mergeResonanceData, cognition.ts, book-readout.ts,
\* lifecycle-view.tsx).
NothingShownIsLost ==
  [][LitNeverDark /\ RetainedNeverLoses /\ LanesNeverBlank /\ RefusedKept
     /\ ReplayedFillIgnored /\ ChosenStaysShown]_partVars
=============================================================================
