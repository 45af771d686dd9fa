-------------------------------- MODULE Shell --------------------------------
(***************************************************************************)
(* The terminal around the dashboard: the command palette and the clicks   *)
(* that move the focus (collections/terminal.ts, terminal/palette.tsx,     *)
(* routes/__root.tsx, terminal/symbol-focus.tsx), the gate lab and what it *)
(* tells the engine (collections/gate-lab.ts, dashboard/gate-lab.tsx), and *)
(* the decisions board with the engine readout that counts it              *)
(* (providers/websocket.tsx, dashboard/decisions.tsx,                      *)
(* lib/engine-telemetry.ts).  terminalStore.focusSymbol is never read and  *)
(* is left out; a search text is what it finds, a click the names around   *)
(* it.                                                                     *)
(***************************************************************************)
EXTENDS Orders, SequencesExt, FiniteSetsExt

CONSTANTS
  PaletteEntries, \* [group, surface, source, symbol], in the palette's order
  Finds,          \* search text -> the entries whose label or hint contains it
  AllText,        \* the empty search, which finds every entry
  Undefined,         \* undefined
  FirstFocus,     \* DEFAULT_FOCUS_SYMBOL
  Clicks,         \* [marked, levels]: the text from the element to the layer
  MaxPaletteIndex,\* bound on the presses of an arrow
  Oracles,        \* ORACLE_GATES
  RiskValues, RiskDefault, RezDefaults,
  BoardSymbols,   \* numbered in the order of localeCompare
  BoardBooks,     \* "virtual" among them
  WireDecisions   \* what the decisions of one envelope may be

ASSUME ShellAssumption ==
  /\ PaletteEntries \in Seq(ToSet(PaletteEntries))
  /\ Finds[AllText] = ToSet(PaletteEntries)
  /\ \A c \in Clicks : \A i, j \in DOMAIN c.levels : i <= j =>
       c.levels[i].names \subseteq c.levels[j].names /\ c.levels[i].size <= c.levels[j].size
  /\ RezDefaults \in [bypass : BOOLEAN, floor : Int]
  /\ "virtual" \in BoardBooks
  /\ IsFiniteSet(BoardSymbols) /\ BoardSymbols = 1..Cardinality(BoardSymbols)
  /\ WireDecisions \subseteq Seq([symbol : BoardSymbols, tier : STRING, action : STRING])

VARIABLES
  term,      \* terminalStore: [open, mode, query, index, selected, inspector]
  surface,   \* the page
  focusAtom, \* atoms.focus
  lab,       \* gateLabStore: [open, force, risk, rez]
  told,      \* the last risk and resonance commands posted to the worker
  bound,     \* the hub worker is there
  pressed,   \* the lab's last control
  live,      \* signals.decisions: <<book, symbol>> -> action, or Undefined
  engine     \* [book, acting, tree, ticks, phase, candidates]

paletteVars == <<term, surface, focusAtom>>
labVars == <<lab, told, bound, pressed>>
boardVars == <<live, engine>>

-----------------------------------------------------------------------------
(* The palette. *)

commands(t) ==
  Only(PaletteEntries,
       {i \in DOMAIN PaletteEntries :
          /\ PaletteEntries[i] \in Finds[t.query]
          /\ t.mode = "symbols" => PaletteEntries[i].group = "Symbol"})

\* The remainder takes the sign of the dividend.
Rem(a, n) == IF a >= 0 THEN a % n ELSE -((-a) % n)

selectedIndex(t) ==
  LET n == Len(commands(t)) IN IF n = 0 THEN 0 ELSE Rem(Rem(t.index, n) + n, n)

Opened(mode) == term' = [term EXCEPT !.open = TRUE, !.mode = mode, !.query = AllText, !.index = 0]

openPalette == Opened("all") /\ UNCHANGED <<surface, focusAtom>>

closePalette ==
  /\ term.open
  /\ term' = [term EXCEPT !.open = FALSE]
  /\ UNCHANGED <<surface, focusAtom>>

setPaletteQuery(q) ==
  /\ term.open
  /\ term' = [term EXCEPT !.query = q, !.index = 0]
  /\ UNCHANGED <<surface, focusAtom>>

bumpPaletteIndex(delta) ==
  /\ term.open /\ term.index + delta \in -MaxPaletteIndex..MaxPaletteIndex
  /\ term' = [term EXCEPT !.index = @ + delta]
  /\ UNCHANGED <<surface, focusAtom>>

inspectSource(t, source) == [t EXCEPT !.selected = source, !.inspector = source]

\* A symbol's entry stays on the page it was chosen from.
runPalette(c) ==
  /\ term' = [(IF c.source = Undefined THEN term ELSE inspectSource(term, c.source))
                EXCEPT !.open = FALSE]
  /\ focusAtom' = IF c.symbol = Undefined THEN focusAtom ELSE c.symbol
  /\ surface' = IF c.surface = Undefined THEN surface ELSE c.surface

PressEnter ==
  /\ term.open /\ commands(term) # <<>>
  /\ runPalette(commands(term)[selectedIndex(term) + 1])

ClickCommand == term.open /\ \E i \in DOMAIN commands(term) : runPalette(commands(term)[i])

closeInspect ==
  /\ term.inspector # Undefined
  /\ term' = [term EXCEPT !.inspector = Undefined]
  /\ UNCHANGED <<surface, focusAtom>>

-----------------------------------------------------------------------------
(* Clicks on the page. *)

MaxText == 120

\* The marked symbol, or the only one in the nearest text with just one.
symbolAt(c) ==
  IF c.marked # Undefined THEN c.marked
  ELSE LET i == SelectInSeq(c.levels, LAMBDA l :
                  l.size \in 1..MaxText /\ Cardinality(l.names) = 1)
       IN  IF i = 0 THEN Undefined ELSE CHOOSE s \in c.levels[i].names : TRUE

\* The open palette lies over the page.
onClickCapture(c) ==
  /\ ~term.open
  /\ focusAtom' = IF symbolAt(c) = Undefined THEN focusAtom ELSE symbolAt(c)
  /\ UNCHANGED <<term, surface>>

openSymbolPalette == Opened("symbols") /\ UNCHANGED <<surface, focusAtom>>

PaletteInit ==
  /\ term = [open |-> FALSE, mode |-> "all", query |-> AllText, index |-> 0,
             selected |-> "", inspector |-> Undefined]
  /\ surface = "dashboard" /\ focusAtom = FirstFocus
PaletteNext ==
  \/ openPalette \/ openSymbolPalette \/ closePalette \/ closeInspect
  \/ \E q \in DOMAIN Finds : setPaletteQuery(q)
  \/ \E delta \in {1, -1} : bumpPaletteIndex(delta)
  \/ PressEnter \/ ClickCommand
  \/ \E c \in Clicks : onClickCapture(c)

-----------------------------------------------------------------------------
(* The gate lab. *)

emptyOverrides == [g \in Oracles |-> "auto"]

cycle(o) == CASE o = "auto" -> "veto" [] o = "veto" -> "approve" [] OTHER -> "auto"

Quiet == pressed' = "" /\ UNCHANGED <<told, bound>>

toggleGateLab == lab' = [lab EXCEPT !.open = ~@] /\ Quiet

cycleOracleOverride(g) == lab.open /\ lab' = [lab EXCEPT !.force[g] = cycle(@)] /\ Quiet

\* An emptied input is the number 0.
setRiskField(v) == lab.open /\ lab' = [lab EXCEPT !.risk = v] /\ Quiet

setResonanceField(v) == lab.open /\ lab' = [lab EXCEPT !.rez.floor = v] /\ Quiet

resetGateLab ==
  /\ lab.open
  /\ lab' = [lab EXCEPT !.force = emptyOverrides, !.risk = RiskDefault, !.rez = RezDefaults]
  /\ Quiet

\* A command is posted to the worker if there is one; a thrown error is
\* swallowed.
trySendCommand(field, draft) == told' = IF bound THEN [told EXCEPT ![field] = draft] ELSE told

applyRisk ==
  /\ lab.open
  /\ trySendCommand("risk", lab.risk)
  /\ pressed' = "risk"
  /\ UNCHANGED <<lab, bound>>

\* The button hands the click over as the draft: it cannot be posted.
applyResonance ==
  /\ lab.open
  /\ pressed' = "rez"
  /\ UNCHANGED <<lab, told, bound>>

ClickBypass ==
  /\ lab.open
  /\ lab' = [lab EXCEPT !.rez.bypass = ~@]
  /\ trySendCommand("rez", [lab'.rez EXCEPT !.bypass = ~lab.rez.bypass])
  /\ pressed' = "bypass"
  /\ UNCHANGED bound

bindHubWorker == bound' = ~bound /\ pressed' = "" /\ UNCHANGED <<lab, told>>

LabInit ==
  /\ lab = [open |-> FALSE, force |-> emptyOverrides, risk |-> RiskDefault, rez |-> RezDefaults]
  /\ told = [risk |-> Undefined, rez |-> Undefined] /\ bound = FALSE /\ pressed = ""
LabNext ==
  \/ toggleGateLab \/ resetGateLab \/ applyRisk \/ applyResonance \/ ClickBypass \/ bindHubWorker
  \/ \E g \in Oracles : cycleOracleOverride(g)
  \/ \E v \in RiskValues \cup {0} : setRiskField(v) \/ setResonanceField(v)

-----------------------------------------------------------------------------
(* The decisions board. *)

\* A decision without a tier belongs to the virtual book.
decisionBook(d) == IF d.tier \in BoardBooks THEN d.tier ELSE "virtual"

\* Mutant of decisionStoreKey: one entry per symbol.
decisionStoreKeyBySymbol(d) == <<"virtual", d.symbol>>

decisionStoreKey(d) == <<decisionBook(d), d.symbol>>

\* Later decisions of an envelope replace earlier ones of the same key; one
\* without an action is dropped.
decisionsFromWire(ds, old) ==
  FoldLeft(LAMBDA m, d : IF d.action = "" THEN m
                         ELSE [m EXCEPT ![decisionStoreKey(d)] =
                                 [book |-> decisionBook(d), symbol |-> d.symbol, action |-> d.action]],
           old, ds)

rank(action) == CASE action = "blocked" -> 0 [] action \in {"enter", "exit"} -> 1 [] OTHER -> 2

Cards(l) == {l[k] : k \in {j \in DOMAIN l : l[j] # Undefined}}

\* The cards of a book, in the order they are drawn: by rank, then by symbol.
decisionsFromLive(l, book) ==
  LET mine == {d \in Cards(l) : d.book = book}
  IN  ByKey(mine, [d \in mine |-> rank(d.action) * (Cardinality(BoardSymbols) + 1) + d.symbol])

Candidates(l, e, book) ==
  Cardinality(e.acting) + Cardinality({d \in Cards(l) : d.book = book /\ d.action # "skip"})

phase(e) ==
  CASE e.tree = "trading" -> "trading"
    [] e.tree = "gated" -> "evaluate"
    [] e.tree = "none" /\ e.ticks > 0 -> "live"
    [] OTHER -> e.phase

syncEngineTelemetry(l, e) ==
  [e EXCEPT !.candidates = Candidates(l, e, e.book), !.phase = phase(e)]

\* An envelope with decisions, or with a tick: ingested, then the readout.
Envelope(ds, ticks) ==
  /\ live' = decisionsFromWire(ds, live)
  /\ engine' = syncEngineTelemetry(live', [engine EXCEPT !.ticks = ticks])

\* A match or the tree changes outside an envelope; nothing recounts.
CognitionChanges(acting, tree) ==
  /\ <<acting, tree>> # <<engine.acting, engine.tree>>
  /\ engine' = [engine EXCEPT !.acting = acting, !.tree = tree]
  /\ UNCHANGED live

ChooseLedger(book) ==
  /\ engine' = [engine EXCEPT !.book = book]
  /\ UNCHANGED live

BoardInit ==
  /\ live = [k \in BoardBooks \X BoardSymbols |-> Undefined]
  /\ engine = [book |-> "virtual", acting |-> {}, tree |-> "none", ticks |-> 0,
               phase |-> "none", candidates |-> 0]
BoardNext ==
  \/ \E ds \in WireDecisions, ticks \in {engine.ticks, 1} : Envelope(ds, ticks)
  \/ \E acting \in SUBSET {CHOOSE s \in BoardSymbols : TRUE},
        tree \in {"none", "trading", "gated"} : CognitionChanges(acting, tree)
  \/ \E book \in BoardBooks : ChooseLedger(book)

-----------------------------------------------------------------------------
(* Properties. *)

(* While there is a worker, after the bypass button and after Apply risk   *)
(* what the engine was told is the draft the lab shows (applyRisk, the     *)
(* bypass button): the flag and the floors edited before it alike.         *)
PushedIsTold ==
  bound => /\ pressed = "bypass" => told.rez = lab.rez
           /\ pressed = "risk" => told.risk = lab.risk

(* An envelope changes the cards of a book only if it brings a decision    *)
(* for that book, in whatever order the tiers' decisions come and whether  *)
(* or not they name their tier; and a book has one card per symbol         *)
(* (decisionStoreKey, decisionsFromWire, decisionsFromLive).               *)
BooksDoNotMix ==
  /\ \A b \in BoardBooks, ds \in WireDecisions :
       decisionsFromLive(decisionsFromWire(ds, live), b) # decisionsFromLive(live, b) =>
         \E i \in DOMAIN ds : decisionBook(ds[i]) = b
  /\ \A b \in BoardBooks : LET rows == decisionsFromLive(live, b) IN
       \A i, j \in DOMAIN rows : i # j => rows[i].symbol # rows[j].symbol

(* As long as the palette lists the same commands, a press of an arrow     *)
(* moves the highlight by one place, around both ends, however far the     *)
(* index has run below zero or past the list (selectedIndex,               *)
(* bumpPaletteIndex).                                                      *)
HighlightWalks ==
  commands(term) # <<>> =>
    \A delta \in {1, -1} :
      selectedIndex([term EXCEPT !.index = @ + delta]) =
        (selectedIndex(term) + delta) % Len(commands(term))

(* What the terminal says is so: the engine has the draft that was pushed, *)
(* a book shows its own decisions only, and the highlight is where the     *)
(* arrows took it.                                                         *)
ShellIsTrue == PushedIsTold /\ BooksDoNotMix /\ HighlightWalks
=============================================================================
