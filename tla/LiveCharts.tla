------------------------------ MODULE LiveCharts ------------------------------
(***************************************************************************)
(* Two charts that paint themselves from the stores, outside React's       *)
(* rendering: the Impulse Map, which shows one symbol's grid after the     *)
(* other on animation frames (learning/use-impulse-data.ts), and the chart *)
(* of open choices with its animated grid of sub-charts                    *)
(* (learning/open-choice-draw.ts, open-choice-grid-layout.ts).  SciChart   *)
(* and requestAnimationFrame are external: a callback that was asked for   *)
(* runs once, later.  Colours, labels and coordinates are left out.        *)
(***************************************************************************)
EXTENDS Integers, Sequences, SequencesExt, FiniteSets, FiniteSetsExt

CONSTANTS
  Symbols,     \* a sequence: the order localeCompare gives them
  Regions,     \* REGION_KEYS
  WireKeys,    \* keys a wire region may carry, some outside Regions
  Levels,      \* brightness and metric activation, 0 is dark
  MaxTick,     \* bound on atoms.tickCount
  MaxToken,    \* bound on paintToken
  OpenLots,    \* lots of the positions store, 1..n in its order
  LotBook,     \* the ledger of each
  Ledgers,
  Marks,       \* what markStamp tells apart
  Trail,       \* CHOICE_TRAIL_LENGTH
  MaxX,        \* bound on nextX
  MaxToggles,  \* bound on the layout changes
  Nothing      \* undefined

\* What the positions store holds of an open lot.
OpenRows == [mark : Marks \cup {Nothing}, floor : BOOLEAN]

ASSUME ChartAssumption ==
  /\ 0 \in Levels /\ Regions \subseteq WireKeys
  /\ MaxTick \in Nat /\ MaxToken \in Nat /\ MaxX \in Nat /\ MaxToggles \in Nat
  /\ Trail \in Nat \ {0} /\ LotBook \in [OpenLots -> Ledgers]
  /\ IsFiniteSet(OpenLots)
  /\ Symbols \in Seq(Range(Symbols))
  /\ Nothing \notin BOOLEAN \cup OpenRows /\ \A ks \in SUBSET WireKeys : Nothing \notin [ks -> Levels]

SymbolSet == Range(Symbols)

VARIABLES
  grids,       \* signals.regions: the rows of a symbol, or Nothing
  metric,      \* the kernels' reading that one pin of the map shows
  tickCount,   \* atoms.tickCount
  map,         \* the hook: [paused, token, bright, lit, last] (refs)
  shown,       \* its published state: [lit, bright, pin, tick]
  frames,      \* callbacks handed to requestAnimationFrame
  pos,         \* the open lots of the store: [mark, floor] or Nothing
  ledger,      \* bookAtom
  ready,       \* the chart has been created
  button,      \* the layout the toolbar shows
  isGrid,      \* GridLayoutModifier.isGridProperty
  lots,        \* LotBind of each lot, or Nothing
  nextX,
  subs,        \* the sub-charts: [lot, gen]
  fading,      \* the collapse animations still running
  axes,        \* the parent's axes are visible
  toggles      \* counts layout changes, also naming sub-charts

impulseVars == <<grids, metric, tickCount, map, shown, frames>>
choiceVars == <<pos, ledger, ready, button, isGrid, lots, nextX, subs, fading, axes, toggles>>

-----------------------------------------------------------------------------
(* The Impulse Map. *)

dark == [r \in Regions |-> 0]

\* The map of one symbol only; keys outside the grid are ignored.
paintRegions(bright, rows) ==
  [r \in Regions |-> IF r \in DOMAIN rows THEN rows[r] ELSE 0]

\* The places of the symbols that have a grid, painted in their order.
symbolGridFrames == {i \in DOMAIN Symbols : grids'[Symbols[i]] # Nothing}

\* publish: a pin shows the larger of its metric and its region's brightness.
publish(m, tick, act) ==
  [lit |-> m.lit, bright |-> m.bright, tick |-> tick,
   pin |-> Max({act, m.bright[CHOOSE r \in Regions : TRUE]})]

\* paintSymbol
Painted(m, sym, rows) ==
  [m EXCEPT !.bright = paintRegions(m.bright, rows), !.lit = <<sym>>]

Job(token, snapshot, names, tick) ==
  [token |-> token, rows |-> snapshot, names |-> names, tick |-> tick]

\* step: paint the first symbol of the job and ask for a frame for the rest.
StepJob(m, job, pending) ==
  LET sym == Symbols[Min(job.names)]
      rest == job.names \ {Min(job.names)}
      next == Painted(m, sym, job.rows[sym])
  IN  /\ map' = [next EXCEPT !.last = job.tick]
      /\ shown' = publish(next, job.tick, metric'[sym])
      /\ frames' = IF rest # {} THEN pending \cup {[job EXCEPT !.names = rest]} ELSE pending

\* updateFromTelemetry, run by every subscription.
updateFromTelemetry(m, pending) ==
  LET tick == IF tickCount' # 0 THEN tickCount' ELSE m.last
  IN  IF m.paused THEN map' = m /\ frames' = pending /\ UNCHANGED shown
      ELSE IF symbolGridFrames = {}
      THEN LET off == [m EXCEPT !.bright = paintRegions(m.bright, <<>>), !.lit = <<>>]
           IN  /\ map' = [off EXCEPT !.last = tick]
               /\ shown' = publish(off, tick, 0)
               /\ frames' = pending
      ELSE /\ m.token < MaxToken
           /\ StepJob([m EXCEPT !.token = @ + 1],
                      Job(m.token + 1, grids', symbolGridFrames, tick), pending)

RegionsArrive(s, rows) ==
  /\ grids' = [grids EXCEPT ![s] = rows]
  /\ UNCHANGED <<metric, tickCount>>
  /\ updateFromTelemetry(map, frames)

KernelArrives(s, act) ==
  /\ metric' = [metric EXCEPT ![s] = act]
  /\ UNCHANGED <<grids, tickCount>>
  /\ updateFromTelemetry(map, frames)

Tick ==
  /\ tickCount < MaxTick
  /\ tickCount' = tickCount + 1
  /\ UNCHANGED <<grids, metric>>
  /\ updateFromTelemetry(map, frames)

\* Mutant of FrameRuns: a callback of an older round paints too.
FrameRunsStale(job) ==
  /\ job \in frames
  /\ UNCHANGED <<grids, metric, tickCount>>
  /\ StepJob(map, job, frames \ {job})

\* An animation frame: step returns at once when another round began.
FrameRuns(job) ==
  /\ job \in frames
  /\ UNCHANGED <<grids, metric, tickCount>>
  /\ IF job.token # map.token
     THEN frames' = frames \ {job} /\ UNCHANGED <<map, shown>>
     ELSE StepJob(map, job, frames \ {job})

\* Play or pause: the effect is torn down and runs again, with fresh refs and
\* a publication of its own before it paints.
SetPaused ==
  /\ map.token + 2 <= MaxToken
  /\ UNCHANGED <<grids, metric, tickCount>>
  /\ LET fresh == [paused |-> ~map.paused, token |-> map.token + 2, bright |-> dark,
                   lit |-> <<>>, last |-> map.last]
     IN  IF fresh.paused
         THEN /\ map' = fresh
              /\ shown' = publish(fresh, fresh.last, 0)
              /\ frames' = frames
         ELSE updateFromTelemetry(fresh, frames)

ImpulseInit ==
  /\ grids = [s \in SymbolSet |-> Nothing]
  /\ metric = [s \in SymbolSet |-> 0]
  /\ tickCount = 0
  /\ map = [paused |-> FALSE, token |-> 1, bright |-> dark, lit |-> <<>>, last |-> 0]
  /\ shown = publish(map, 0, 0)
  /\ frames = {}

RegionRows == UNION {[ks -> Levels] : ks \in SUBSET WireKeys}

ImpulseNext ==
  \/ \E s \in SymbolSet, rows \in RegionRows : RegionsArrive(s, rows)
  \/ \E s \in SymbolSet, act \in Levels : KernelArrives(s, act)
  \/ Tick
  \/ \E job \in frames : FrameRuns(job)
  \/ SetPaused

-----------------------------------------------------------------------------
(* The chart of open choices. *)

chartHeld(p, b) == {l \in OpenLots : p[l] # Nothing /\ LotBook[l] = b}

FreshBind == [stamp |-> Nothing, line |-> TRUE, band |-> Nothing, trail |-> <<>>,
              bandTrail |-> <<>>]

Fifo(s, x) == LET t == Append(s, x)
              IN  IF Len(t) > Trail THEN Tail(t) ELSE t

\* sync: bind the lots that have a mark, append one point to all of them when
\* one has moved, and drop the lots that are no longer held.
sync(p, b) ==
  LET rows == {l \in chartHeld(p, b) : p[l].mark # Nothing}
      bind(l) == IF lots[l] = Nothing THEN FreshBind ELSE lots[l]
      banded(l) == IF p[l].floor /\ bind(l).band = Nothing
                   THEN [bind(l) EXCEPT !.band = TRUE] ELSE bind(l)
      stepped == \E l \in rows : bind(l).stamp # p[l]
      point(l) == [banded(l) EXCEPT !.stamp = p[l], !.trail = Fifo(@, nextX),
                     !.bandTrail = IF banded(l).band # Nothing THEN Fifo(@, nextX) ELSE @]
  IN  /\ lots' = [l \in OpenLots |->
                    IF l \notin chartHeld(p, b) THEN Nothing
                    ELSE IF l \notin rows THEN lots[l]
                    ELSE IF stepped THEN point(l) ELSE banded(l)]
      /\ nextX' = IF stepped THEN nextX + 1 ELSE nextX

Bound(ls) == {l \in OpenLots : ls[l] # Nothing}

\* A publication of the positions store; nothing is subscribed before the
\* chart is ready.  A lot the desk has marked once stays marked.
PositionMoves(l, p) ==
  /\ p # pos[l]
  /\ (pos[l] # Nothing /\ pos[l].mark # Nothing /\ p # Nothing) => p.mark # Nothing
  /\ pos' = [pos EXCEPT ![l] = p]
  /\ IF ready THEN nextX < MaxX /\ sync(pos', ledger) ELSE UNCHANGED <<lots, nextX>>
  /\ UNCHANGED <<ledger, ready, button, isGrid, subs, fading, axes, toggles>>

SwitchLedger(b) ==
  /\ b # ledger
  /\ ledger' = b
  /\ IF ready THEN nextX < MaxX /\ sync(pos, b) ELSE UNCHANGED <<lots, nextX>>
  /\ UNCHANGED <<pos, ready, button, isGrid, subs, fading, axes, toggles>>

\* onInit of the surface.
ChartReady ==
  /\ ~ready
  /\ ready' = TRUE
  /\ sync(pos, ledger)
  /\ UNCHANGED <<pos, ledger, button, isGrid, subs, fading, axes, toggles>>

Hidden(bind) ==
  [bind EXCEPT !.line = FALSE, !.band = IF @ = Nothing THEN Nothing ELSE FALSE]

\* makeGridLayout: a sub-chart for each lot; its series leave the parent.
makeGridLayout ==
  IF Bound(lots) = {} THEN UNCHANGED <<lots, subs, axes>>
  ELSE /\ subs' = subs \cup {[lot |-> l, gen |-> toggles] : l \in Bound(lots)}
       /\ lots' = [l \in OpenLots |-> IF lots[l] = Nothing THEN Nothing ELSE Hidden(lots[l])]
       /\ axes' = FALSE

\* makeSingleChart: every sub-chart starts to fade.
makeSingleChart ==
  /\ fading' = fading \o SetToSeq(subs)
  /\ axes' = TRUE

\* setLayout of the toolbar, then the isGrid setter: before the chart is
\* ready only the button moves.
SetLayout(grid) ==
  /\ button' = grid
  /\ IF ~ready \/ isGrid = grid
     THEN button # grid /\ UNCHANGED <<isGrid, lots, subs, fading, axes, toggles>>
     ELSE /\ toggles < MaxToggles
          /\ toggles' = toggles + 1
          /\ isGrid' = grid
          /\ IF grid THEN makeGridLayout /\ UNCHANGED fading
             ELSE makeSingleChart /\ UNCHANGED <<lots, subs>>
  /\ UNCHANGED <<pos, ledger, ready, nextX>>

restoreLot(bind) ==
  IF bind = Nothing THEN Nothing
  ELSE [bind EXCEPT !.line = TRUE, !.band = IF @ = Nothing THEN Nothing ELSE TRUE]

\* onCompleted of a collapse animation.
FadeEnds(i) ==
  /\ i \in DOMAIN fading
  /\ subs' = subs \ {fading[i]}
  /\ lots' = [lots EXCEPT ![fading[i].lot] = restoreLot(@)]
  /\ fading' = RemoveAt(fading, i)
  /\ UNCHANGED <<pos, ledger, ready, button, isGrid, nextX, axes, toggles>>

ChoiceInit ==
  /\ pos = [l \in OpenLots |-> Nothing]
  /\ ledger = LotBook[CHOOSE l \in OpenLots : TRUE]
  /\ ready = FALSE /\ button = FALSE /\ isGrid = FALSE
  /\ lots = [l \in OpenLots |-> Nothing] /\ nextX = 0
  /\ subs = {} /\ fading = <<>> /\ axes = TRUE /\ toggles = 0

ChoiceNext ==
  \/ \E l \in OpenLots, p \in OpenRows \cup {Nothing} : PositionMoves(l, p)
  \/ \E b \in Ledgers : SwitchLedger(b)
  \/ ChartReady
  \/ \E grid \in BOOLEAN : SetLayout(grid)
  \/ \E i \in DOMAIN fading : FadeEnds(i)

-----------------------------------------------------------------------------
(* Properties. *)

\* "No cross-symbol merge - the map shows what one symbol's grid published":
\* once the round is over, the map shows the last symbol exactly as the store
\* has it, although rounds are restarted, paused and overtaken at any frame.
MapShowsOneGrid ==
  (~map.paused /\ ~\E job \in frames : job.token = map.token) =>
    LET live == {i \in DOMAIN Symbols : grids[Symbols[i]] # Nothing}
    IN  IF live = {} THEN shown.lit = <<>> /\ shown.bright = dark
        ELSE /\ shown.lit = <<Symbols[Max(live)]>>
             /\ shown.bright = paintRegions(dark, grids[Symbols[Max(live)]])

\* Back in single layout, with the animations over, the chart is whole again:
\* no sub-chart is left and every lot's line and band are on the parent,
\* whatever was toggled in between and whichever lots came and went.
SingleIsRestored ==
  (~isGrid /\ fading = <<>>) =>
    /\ subs = {} /\ axes
    /\ \A l \in Bound(lots) : lots[l].line /\ lots[l].band # FALSE

\* The lots share one x axis: two lots that both have a mark end at the same
\* x, and the band of a stop runs along the end of its line.
TrailsAligned ==
  /\ \A l, m \in Bound(lots) :
       (l \in chartHeld(pos, ledger) /\ m \in chartHeld(pos, ledger)
        /\ pos[l].mark # Nothing /\ pos[m].mark # Nothing)
       => lots[l].trail # <<>> /\ Last(lots[l].trail) = Last(lots[m].trail)
  /\ \A l \in Bound(lots) : IsSuffix(lots[l].bandTrail, lots[l].trail)
=============================================================================
