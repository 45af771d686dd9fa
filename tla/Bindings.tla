------------------------------- MODULE Bindings -------------------------------
(***************************************************************************)
(* Component (ui/component.tsx, ui/dom.ts): readings are written straight  *)
(* into the elements below it, outside React, and a window of the headline *)
(* metric into a sparkline.  Elements are looked up once and the answer is *)
(* kept, also when there was none.  A cell is <<kind, metric>>; a reading  *)
(* it shows carries the symbol it is of.  Formatting is left out.          *)
(***************************************************************************)
EXTENDS Integers, Sequences, SequencesExt, FiniteSets, FiniteSetsExt

CONSTANTS
  Cells,       \* the elements that may be below the component
  Tickers,
  FrameReadings, \* what a frame may carry: metric -> tenths, or NaN
  NaN,
  NoFrame,     \* undefined, or a null value
  Fallback,    \* the text, width or label of an element without a reading
  Gone,        \* not below the component
  Headline,    \* data-series
  SeriesWindow \* SERIES_WINDOW (120)

ASSUME BindingAssumption ==
  /\ SeriesWindow \in Nat \ {0}
  /\ NoFrame \notin Tickers /\ NoFrame \notin FrameReadings
  /\ \A K \in SUBSET Cells : K # NoFrame
  /\ Fallback # Gone
  /\ \A s \in Tickers, r \in FrameReadings : \A m \in DOMAIN r : [of |-> s, v |-> r[m]] # Gone

VARIABLES
  frameOf,   \* the signal store: ticker -> reading or NoFrame
  comp,      \* the component's props: [mode, symbol]
  ui         \* [dom, asked, listed, window]

bindingVars == <<frameOf, comp, ui>>

Of(s, v) == [of |-> s, v |-> v]

-----------------------------------------------------------------------------
(* Looking up and painting. *)

\* memoizedQuery, for the metrics a frame binds.
memoizedQuery(u, names) ==
  [u EXCEPT !.asked = [k \in Cells |->
     IF @[k] # "unasked" \/ k[2] \notin names THEN @[k]
     ELSE IF u.dom[k] = Gone THEN "null" ELSE "held"]]

\* memoizedQueryAll, asked by the first reset.
memoizedQueryAll(u) ==
  [u EXCEPT !.listed = IF @ = NoFrame THEN {k \in Cells : u.dom[k] # Gone} ELSE @]

meterPercent(v) == Min({100, 10 * (IF v < 0 THEN -v ELSE v)})

\* A badge is healthy whatever the number; the others keep what they show
\* when it is not finite.
renderValue(k, s, v, old) ==
  IF k[1] = "badge" THEN Of(s, "HEALTHY")
  ELSE IF v = NaN THEN old
  ELSE Of(s, IF k[1] = "meter" THEN meterPercent(v) ELSE v)

\* Each metric is written to the elements that were found for it.  A frame's
\* readings are scalars: the branches for lists and objects are not taken.
bind(u, s, r) ==
  LET w == memoizedQuery(u, DOMAIN r)
  IN  [w EXCEPT !.dom = [k \in Cells |->
         IF k[2] \in DOMAIN r /\ w.asked[k] = "held"
         THEN renderValue(k, s, r[k[2]], @[k]) ELSE @[k]]]

\* The frame's own fields (tick, origin, ...) are bound first, the same way.
walkFrame(u, s, r) == bind(u, s, r)

sampleMetric(r) ==
  IF Headline \in DOMAIN r /\ r[Headline] # NaN THEN <<r[Headline]>> ELSE <<>>

appendSeries(u, s, r) ==
  LET series == u.window \o [i \in DOMAIN sampleMetric(r) |-> Of(s, sampleMetric(r)[i])]
  IN  [u EXCEPT !.window =
         SubSeq(series, Max({1, Len(series) - SeriesWindow + 1}), Len(series))]

resetValue(u, listed) ==
  [u EXCEPT !.dom = [k \in Cells |-> IF k \in listed THEN Fallback ELSE @[k]]]

resetRoot(u) ==
  LET w == memoizedQueryAll(u) IN [resetValue(w, w.listed) EXCEPT !.window = <<>>]

-----------------------------------------------------------------------------
(* The effect. *)

update(u, s, r) == IF r = NoFrame THEN resetRoot(u) ELSE appendSeries(walkFrame(u, s, r), s, r)

\* A store and a symbol: reset, then the symbol's frame if it has one.
StoreEffect(u, s) ==
  IF frameOf[s] = NoFrame THEN resetRoot(u) ELSE update(resetRoot(u), s, frameOf[s])

\* A value of its own is bound on top of what is shown; a null one changes nothing.
ValueEffect(u, s) ==
  IF frameOf[s] = NoFrame THEN u ELSE appendSeries(walkFrame(u, s, frameOf[s]), s, frameOf[s])

Effect(u, mode, s) == IF mode = "store" THEN StoreEffect(u, s) ELSE ValueEffect(u, s)

Unasked(dom) == [dom |-> dom, asked |-> [k \in Cells |-> "unasked"], listed |-> NoFrame,
                 window |-> <<>>]

Mount(mode, s) == \E there \in SUBSET Cells :
  /\ comp.mode = "off"
  /\ comp' = [mode |-> mode, symbol |-> s]
  /\ ui' = Effect(Unasked([k \in Cells |-> IF k \in there THEN Fallback ELSE Gone]), mode, s)
  /\ UNCHANGED frameOf

Unmount ==
  /\ comp.mode # "off"
  /\ comp' = [comp EXCEPT !.mode = "off"]
  /\ ui' = Unasked([k \in Cells |-> Gone])
  /\ UNCHANGED frameOf

\* Another symbol, or another value: the effect runs again.
ChangeProps(s) ==
  /\ comp.mode # "off" /\ s # comp.symbol
  /\ comp' = [comp EXCEPT !.symbol = s]
  /\ ui' = Effect(ui, comp.mode, s)
  /\ UNCHANGED frameOf

\* The store changes for any symbol: a subscriber takes its own symbol's frame
\* again; a value is a new one only if it is this symbol's.
StoreChanges(s, r) ==
  /\ frameOf' = [frameOf EXCEPT ![s] = r]
  /\ ui' = IF comp.mode = "store" THEN update(ui, comp.symbol, frameOf'[comp.symbol])
           ELSE IF comp.mode = "value" /\ s = comp.symbol /\ r # NoFrame
           THEN appendSeries(walkFrame(ui, s, r), s, r) ELSE ui
  /\ UNCHANGED comp

\* React mounts or unmounts a child: what was looked up stays looked up.
ChildChanges(k) ==
  /\ comp.mode # "off"
  /\ ui' = IF ui.dom[k] = Gone THEN [ui EXCEPT !.dom[k] = Fallback]
           ELSE [ui EXCEPT !.dom[k] = Gone, !.asked[k] = IF @ = "held" THEN "null" ELSE @,
                           !.listed = IF @ = NoFrame THEN @ ELSE @ \ {k}]
  /\ UNCHANGED <<frameOf, comp>>

BindingInit ==
  /\ frameOf = [s \in Tickers |-> NoFrame]
  /\ comp = [mode |-> "off", symbol |-> CHOOSE s \in Tickers : TRUE]
  /\ ui = Unasked([k \in Cells |-> Gone])
BindingNext ==
  \/ \E mode \in {"store", "value"}, s \in Tickers : Mount(mode, s)
  \/ Unmount
  \/ \E s \in Tickers : ChangeProps(s)
  \/ \E s \in Tickers, r \in FrameReadings \cup {NoFrame} : StoreChanges(s, r)
  \/ \E k \in Cells : ChildChanges(k)

-----------------------------------------------------------------------------
(* Properties. *)

(* A component on a store never shows a reading of another symbol than the *)
(* one it is given, nor any when that symbol has no frame, in an element   *)
(* that was there when it first looked (Component, reset, update).         *)
ReadingsAreOfSymbol ==
  comp.mode = "store" /\ ui.listed # NoFrame =>
    \A k \in ui.listed : ui.dom[k] # Fallback =>
      ui.dom[k].of = comp.symbol /\ frameOf[comp.symbol] # NoFrame

(* The sparkline and the number beside it agree: its last point is what    *)
(* the headline's text shows, in either mode and through resets, changes   *)
(* of symbol, readings that are missing or not finite and frames of other  *)
(* symbols (appendSeries, renderValue), for an element found at the first. *)
SparkAgreesWithText ==
  LET k == <<"text", Headline>>
  IN  k \in Cells /\ ui.asked[k] = "held" /\ (ui.listed # NoFrame => k \in ui.listed)
      /\ ui.window # <<>>
        => ui.dom[k] = Last(ui.window)
=============================================================================
