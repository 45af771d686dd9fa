------------------------------ MODULE Inspector ------------------------------
(***************************************************************************)
(* The kernel inspector (kernel/inspector.tsx) and the sparkline it draws  *)
(* (ui/sparkline.tsx, terminal/kernel-meta.ts).  The modal renders when    *)
(* its own hooks change: the source, the focus, its history, and the frame *)
(* of the resonance store; a kernel's frame is read without subscribing.   *)
(* A frame is a new object each time; what an effect depends on is its     *)
(* identity.  Readings are per mille.                                      *)
(***************************************************************************)
EXTENDS Integers, Sequences, SequencesExt, FiniteSets, FiniteSetsExt

CONSTANTS
  Kernels,        \* sources with a store of their own, not the resonance
  InspectSymbols,
  KernelMetrics,  \* what a frame may carry: <<name, reading>> pairs in their order
  Shut,           \* null: no source, no frame, no reading
  HistoryCap,     \* readings kept (50)
  MaxKernelFrames

ASSUME InspectorAssumption ==
  HistoryCap \in Nat \ {0} /\ MaxKernelFrames \in Nat /\ Shut \notin Kernels
  /\ "resonance" \notin Kernels
  /\ InspectSymbols # {} /\ \A m \in KernelMetrics : m \in Seq(STRING \X Int)

VARIABLES
  stored,        \* signals: source -> symbol -> [id, metrics] or Shut
  inspected,     \* terminalStore.inspectorSource
  inspectFocus,
  signalHistory, \* readings of the kernel
  depended,      \* what the effect last depended on
  modal,         \* what is shown: [frame, points] or Shut
  arrivals       \* frames so far, bounded

inspectVars == <<stored, inspected, inspectFocus, signalHistory, depended, modal, arrivals>>

Sources == Kernels \cup {"resonance"}
sourceHeadline == "head"

-----------------------------------------------------------------------------
(* The sparkline. *)

\* The window on its own range, a flat one at the top.
scaleSparklineValues(values) ==
  LET low == Min(Range(values))
      range == Max(Range(values)) - low
  IN  IF values = <<>> THEN <<>>
      ELSE [i \in DOMAIN values |->
              IF range > 0 THEN (1000 * (values[i] - low)) \div range ELSE 1000]

\* Below zero is folded into the lower half, above one is cut.
Fitted(v) == IF v < 0 THEN Max({0, (v + 1000) \div 2}) ELSE Min({1000, v})

\* The line: x over the number of steps, y up from the bottom; one reading
\* is a line across, none is one at the bottom.
kernelSparkPaths(values) ==
  LET given == IF values = <<>> THEN <<0>> ELSE values
      at(i) == [x |-> i - 1, y |-> Fitted(given[i])]
  IN  IF Len(given) = 1 THEN <<at(1), [at(1) EXCEPT !.x = 1]>>
      ELSE [i \in DOMAIN given |-> at(i)]

-----------------------------------------------------------------------------
(* The modal. *)

\* The headline metric, or else the first: at most one reading.
readingsFromValues(frame) ==
  LET metrics == IF frame = Shut THEN <<>> ELSE frame.metrics
      named == {i \in DOMAIN metrics : metrics[i][1] = sourceHeadline}
  IN  IF metrics = <<>> THEN <<>> ELSE <<metrics[IF named # {} THEN Min(named) ELSE 1][2]>>

signalAt(st, source, symbol) ==
  IF source \in Sources THEN st[source][symbol] ELSE Shut

Deps(source, frame) ==
  [active |-> source # Shut, resonance |-> source = "resonance", source |-> source,
   reading |-> IF source = "resonance" THEN Shut ELSE frame]

Capped(s) == SubSeq(s, Max({1, Len(s) - HistoryCap + 1}), Len(s))

\* The effect: a reading is added to the history, which is emptied only when
\* the modal closes or turns to the resonance.
HistoryAfter(old, source, frame) ==
  IF source \in {Shut, "resonance"} THEN <<>>
  ELSE Capped(old \o readingsFromValues(frame))

\* A render, its effect and the render that the new history causes.
Render(st, source, symbol) ==
  LET frame == signalAt(st, source, symbol)
      deps == Deps(source, frame)
      after == IF deps = depended THEN signalHistory ELSE HistoryAfter(signalHistory, source, frame)
      live == readingsFromValues(frame)
      points == IF source = "resonance" \/ after = <<>> THEN live ELSE after
  IN  /\ signalHistory' = after
      /\ depended' = deps
      /\ modal' = IF source = Shut THEN Shut ELSE [frame |-> frame, points |-> points]

\* The points of a kernel are scaled to their own range.
SparkOf(source, points) ==
  kernelSparkPaths(IF source = "resonance" \/ points = <<>> THEN points
                   ELSE scaleSparklineValues(points))

status(points) == IF points = <<>> THEN "waiting" ELSE "measured"

InspectSource(source) ==
  /\ source # inspected
  /\ inspected' = source
  /\ Render(stored, source, inspectFocus)
  /\ UNCHANGED <<stored, inspectFocus, arrivals>>

FocusMoves(symbol) ==
  /\ symbol # inspectFocus
  /\ inspectFocus' = symbol
  /\ Render(stored, inspected, symbol)
  /\ UNCHANGED <<stored, inspected, arrivals>>

\* Only a frame of the resonance that is looked at renders the modal.
FrameStored(source, symbol, metrics) ==
  /\ arrivals < MaxKernelFrames
  /\ arrivals' = arrivals + 1
  /\ stored' = [stored EXCEPT ![source][symbol] = [id |-> arrivals', metrics |-> metrics]]
  /\ IF inspected = "resonance" /\ source = "resonance" /\ symbol = inspectFocus
     THEN Render(stored', inspected, inspectFocus)
     ELSE UNCHANGED <<signalHistory, depended, modal>>
  /\ UNCHANGED <<inspected, inspectFocus>>

InspectInit ==
  /\ stored = [k \in Sources |-> [s \in InspectSymbols |-> Shut]]
  /\ inspected = Shut
  /\ inspectFocus = CHOOSE s \in InspectSymbols : TRUE
  /\ signalHistory = <<>>
  /\ depended = [active |-> FALSE, resonance |-> FALSE, source |-> Shut, reading |-> Shut]
  /\ modal = Shut
  /\ arrivals = 0

InspectNext ==
  \/ \E k \in Sources \cup {Shut} : InspectSource(k)
  \/ \E s \in InspectSymbols : FocusMoves(s)
  \/ \E k \in Sources, s \in InspectSymbols, m \in KernelMetrics : FrameStored(k, s, m)

-----------------------------------------------------------------------------
(* Properties. *)

(* The modal's last point is the reading it was rendered with, whichever   *)
(* sources and symbols were looked at before and however often the effect  *)
(* has run: the badge says measured and the meter stands on that reading   *)
(* (KernelInspector, signalHistory).                                       *)
ModalShowsReading ==
  modal # Shut /\ readingsFromValues(modal.frame) # <<>> =>
    /\ modal.points # <<>> /\ status(modal.points) = "measured"
    /\ Last(modal.points) = readingsFromValues(modal.frame)[1]

(* The sparkline keeps the order of what it draws: of two readings of a    *)
(* kernel the greater is never drawn lower, negative ones included, every  *)
(* point is in the plate and the line runs from one edge to the other      *)
(* (scaleSparklineValues, kernelSparkPaths).                               *)
SparkKeepsOrder ==
  modal # Shut =>
    LET spark == SparkOf(inspected, modal.points)
    IN  /\ Len(spark) >= 2 /\ spark[1].x = 0 /\ Last(spark).x = Len(spark) - 1
        /\ \A i \in DOMAIN spark : spark[i].y \in 0..1000
        /\ inspected # "resonance" =>
             \A i, j \in DOMAIN modal.points :
               modal.points[i] <= modal.points[j] => spark[i].y <= spark[j].y
=============================================================================
