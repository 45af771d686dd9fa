-------------------------------- MODULE Xray --------------------------------
(***************************************************************************)
(* What the x-ray and prediction panels keep of sparse telemetry: the      *)
(* retained resonance rows and the choice of a carrier                     *)
(* (terminal/xray-view.ts), the reading the prediction lanes hold for the  *)
(* focus symbol (charts/prediction.tsx), the Hawkes trace                  *)
(* (terminal/xray-hawkes-trace.ts) and the predictive-coding series        *)
(* (charts/prediction/series.ts).  A row is a partial function from        *)
(* metrics to values; "layer" stands for the vectors of layer_i_* and      *)
(* latent_i scalars, with 0 for all zeros.  Intensities are left out.      *)
(***************************************************************************)
EXTENDS Integers, Sequences, SequencesExt, FiniteSets, FiniteSetsExt, Orders

CONSTANTS
  Scopes,        \* symbols as the wire spells them
  Dashed,        \* symbol.replace("/", "-") of each
  ReadingForms,  \* rows of the wire: metric -> value, 0 is all zeros
  MaxRetained,   \* bound on the rows retained
  Span,          \* nanoseconds of one fitted decay, 1e9 / decay
  Pixels,        \* horizontalPixels
  MinGap,        \* MIN_EVENT_GAP_NS
  MaxAt,         \* bound on the market clock
  MaxSamples,    \* bound on arrivals
  MaxFrames,     \* bound on the frames of the history
  Slots,         \* components of a layer's vectors, 0..n
  Absent         \* undefined, null

ASSUME XrayAssumption ==
  /\ IsFiniteSet(Scopes) /\ Dashed \in [Scopes -> Scopes]
  /\ Span \in Nat \ {0} /\ Pixels \in Nat \ {0} /\ MinGap \in Nat
  /\ MaxAt \in Nat /\ MaxFrames \in Nat /\ MaxSamples \in Nat /\ Slots \subseteq Nat

VARIABLES
  readings,   \* signals.resonance
  retained,   \* retainedResonance, in insertion order: [symbol, row]
  focus,      \* atoms.focus
  artifact,   \* useArtifact: what the lanes hold, or Absent
  samples,    \* Hawkes arrivals of one symbol, in the order received
  marketAt,
  history     \* frames of the predictive-coding chart

resonanceVars == <<readings, retained, focus, artifact>>
hawkesVars == <<samples, marketAt>>
seriesVars == <<history>>

Metrics == {"layer", "surprise"}

-----------------------------------------------------------------------------
(* Retained rows. *)

keepScalar(next, prev) ==
  IF next = Absent \/ (next = 0 /\ prev # Absent /\ prev # 0) THEN prev ELSE next

At(row, m) == IF m \in DOMAIN row THEN row[m] ELSE Absent

RowOf(rs, s) ==
  IF \E i \in DOMAIN rs : rs[i].symbol = s
  THEN rs[CHOOSE i \in DOMAIN rs : rs[i].symbol = s].row ELSE <<>>

\* Mutant of Retain: a sparse row replaces the one that was retained.
RetainLatest(existing, row) == row

\* retainResonanceRow: keys accumulate, a zero does not cover a reading.
Retain(existing, row) ==
  [m \in DOMAIN existing \cup DOMAIN row |->
     IF m = "surprise" THEN keepScalar(At(row, m), At(existing, m))
     ELSE IF m \in DOMAIN row THEN row[m] ELSE existing[m]]

retainResonanceRow(rs, s, row) ==
  IF \E i \in DOMAIN rs : rs[i].symbol = s
  THEN [i \in DOMAIN rs |->
          IF rs[i].symbol = s THEN [rs[i] EXCEPT !.row = Retain(@, row)] ELSE rs[i]]
  ELSE Append(rs, [symbol |-> s, row |-> Retain(<<>>, row)])

\* updatePaint of the paint bridge: every row of the store, on every change.
updatePaint(rs, state) ==
  FoldLeft(LAMBDA acc, s : IF state[s] = Absent THEN acc
                           ELSE retainResonanceRow(acc, s, state[s]),
           rs, SetToSeq(Scopes))

resonanceHasContent(row) ==
  \/ At(row, "layer") \notin {Absent, 0}
  \/ "surprise" \in DOMAIN row

\* xrayLayersFromResonance finds at least one layer.
hasLayers(row) == "layer" \in DOMAIN row /\ resonanceHasContent(row)

symbolScopeAliases(s) == {s} \cup {t \in Scopes : Dashed[s] = t \/ Dashed[t] = s}

\* The row of the symbol in either spelling, else the first with layers.
resolveXrayCarrier(rs, s) ==
  LET mine == {i \in DOMAIN rs : rs[i].symbol \in symbolScopeAliases(s)}
      layered == {i \in DOMAIN rs : hasLayers(rs[i].row)}
  IN  IF mine # {} /\ hasLayers(rs[Min(mine)].row) THEN rs[Min(mine)].row
      ELSE IF layered # {} THEN rs[Min(layered)].row
      ELSE rs[IF mine # {} THEN Min(mine) ELSE 1].row

-----------------------------------------------------------------------------
(* The prediction lanes.  A lane remembers whose reading it shows.         *)

resonanceAt(state, s) == IF state[s] # Absent THEN state[s] ELSE state[Dashed[s]]

\* parseResonanceData: the vectors that carry a signal, and the scalars.
parseResonanceData(s, row) ==
  IF row = Absent \/ ~resonanceHasContent(row) THEN Absent
  ELSE [m \in Metrics |->
          IF m \notin DOMAIN row \/ (m # "surprise" /\ row[m] = 0) THEN Absent
          ELSE [of |-> s, value |-> row[m]]]

\* mergeResonanceData, mode "full": what the patch does not bring is kept.
mergeResonanceData(prior, patch) ==
  [m \in Metrics |-> IF patch[m] = Absent THEN prior[m] ELSE patch[m]]

\* The effect of useArtifact, on a reading that is not the one it last saw.
useArtifact(s, reading) ==
  LET patch == parseResonanceData(s, reading)
  IN  artifact' = IF patch = Absent THEN artifact
                  ELSE IF artifact = Absent THEN patch
                  ELSE mergeResonanceData(artifact, patch)

ReadingArrives(s, row) ==
  /\ readings' = [readings EXCEPT ![s] = row]
  /\ retained' = updatePaint(retained, readings')
  /\ Len(retained') <= MaxRetained
  /\ IF s \in {focus, Dashed[focus]} THEN useArtifact(focus, resonanceAt(readings', focus))
     ELSE UNCHANGED artifact
  /\ UNCHANGED focus

\* A new focus; the bridge paints again and the lanes' effect sees the row.
SetFocus(s) ==
  /\ s # focus /\ focus' = s
  /\ retained' = updatePaint(retained, readings)
  /\ useArtifact(s, resonanceAt(readings, s))
  /\ UNCHANGED readings

ResonanceInit ==
  /\ readings = [s \in Scopes |-> Absent]
  /\ retained = <<>>
  /\ focus = CHOOSE s \in Scopes : Dashed[s] # s
  /\ artifact = Absent

ResonanceNext ==
  \/ \E s \in Scopes, row \in ReadingForms : ReadingArrives(s, row)
  \/ \E s \in Scopes : SetFocus(s)

-----------------------------------------------------------------------------
(* The Hawkes trace: times only. *)

\* Array sort, and the last of each run of equal times.
Sorted(s) == [k \in DOMAIN s |-> s[SortedPlaces(Len(s), s)[k]]]
Dedupe(s) == Only(s, {i \in DOMAIN s : i < Len(s) => s[i] # s[i + 1]})

\* samplesForTrace: by time, one sample per time; a burst is its last sample.
samplesForTrace(ss) ==
  LET sorted == Sorted(ss)
  IN  IF Len(ss) <= 1 THEN ss
      ELSE IF Last(sorted) - Head(sorted) < MinGap THEN <<Last(sorted)>>
      ELSE Dedupe(sorted)

Ceil(a, b) == (a + b - 1) \div b
Round(a, b) == (2 * a + b) \div (2 * b)

\* hawkesTrace: the times of its points and the viewport.
hawkesTrace(ss, market) ==
  LET through == Max({market, Last(ss)})
      from == through - Max({Last(ss) - Head(ss), Span})
      segment(i) ==
        LET end == IF i < Len(ss) THEN ss[i + 1] ELSE through
            start == Max({ss[i], from})
            gap == end - start
            steps == Max({1, Ceil(gap * Pixels, through - from)})
        IN  IF end < from THEN {}
            ELSE {at \in {ss[i]} : at >= from}
                 \cup (IF gap <= 0 THEN {} ELSE {start + Round(gap * k, steps) : k \in 0..steps})
  IN  [points |-> UNION {segment(i) : i \in DOMAIN ss}, from |-> from, through |-> through]

\* By time, one point per time.
orderTracePoints(points) == InOrder(points)

Arrival(at) ==
  /\ Len(samples) < MaxSamples
  /\ samples' = Append(samples, at)
  /\ UNCHANGED marketAt

Clock ==
  /\ marketAt < MaxAt
  /\ marketAt' = marketAt + 1
  /\ UNCHANGED samples

HawkesInit == samples = <<>> /\ marketAt = 0
HawkesNext == Clock \/ \E at \in 0..MaxAt : Arrival(at)

-----------------------------------------------------------------------------
(* The predictive-coding series.  A frame gives, for each layer, the slots *)
(* of its state and of its prediction that came with it.                   *)

layerProfile(frame, i, kind) == IF i \in DOMAIN frame THEN frame[i][kind] ELSE {}
layerCount(frame) == Max({0} \cup {i + 1 : i \in {j \in DOMAIN frame : frame[j].state # {}}})
Width(slots) == Max({0} \cup {s + 1 : s \in slots})
Whole(slots) == slots = {s \in Slots : s < Width(slots)}

\* One sample: null without a state, and for a reconstruction without a
\* prediction as wide; a vector with a hole makes it NaN.
Reading(frame, i, count) ==
  LET state == layerProfile(frame, i, "state")
      prediction == layerProfile(frame, i, "prediction")
  IN  IF state = {} THEN "null"
      ELSE IF i = count - 1 THEN IF Whole(state) THEN "value" ELSE "NaN"
      ELSE IF Width(state) # Width(prediction) THEN "null"
      ELSE IF Whole(state) /\ Whole(prediction) THEN "value" ELSE "NaN"

hierarchyTrace(fs, i, count) == [k \in DOMAIN fs |-> Reading(fs[k], i, count)]

predictiveCodingSeries(fs) ==
  LET count == IF fs = <<>> THEN 0 ELSE layerCount(Last(fs))
  IN  [i \in 0..(count - 1) |-> hierarchyTrace(fs, i, count)]

FrameOf == UNION {[ls -> [state : SUBSET Slots, prediction : {{}, Slots}]] : ls \in {{}, {0}, {0, 1}}}

FrameArrives(f) ==
  /\ Len(history) < MaxFrames
  /\ history' = Append(history, f)

SeriesInit == history = <<>>
SeriesNext == \E f \in FrameOf : FrameArrives(f)

-----------------------------------------------------------------------------
(* Properties. *)

\* Sparse telemetry never takes a metric away from a retained row, and an idle
\* zero does not cover a surprise that was read (retainResonanceRow).
RetainedNeverLoses ==
  \A i \in DOMAIN retained :
    LET new == RowOf(retained', retained[i].symbol) old == retained[i].row
    IN  /\ DOMAIN old \subseteq DOMAIN new
        /\ At(old, "surprise") \notin {Absent, 0} => new["surprise"] # 0

\* "otherwise the best available carrier": the hierarchy panel is not left
\* waiting while any retained row has layers, in either spelling of a symbol.
CarrierHasLayers ==
  (\E i \in DOMAIN retained : hasLayers(retained[i].row))
  => hasLayers(resolveXrayCarrier(retained, focus))

\* A lane that shows a signal never goes blank, whatever partial or all-zero
\* readings follow and whichever symbol is in focus (useArtifact).
LanesNeverBlank ==
  artifact # Absent =>
    \A m \in Metrics : artifact[m] # Absent => artifact'[m] # Absent

\* The curve stays inside the viewport, runs forward through it and reaches
\* its right edge, whatever the order and the bunching of the arrivals.
TraceFillsViewport ==
  samples # <<>> =>
    LET plot == hawkesTrace(samplesForTrace(samples), marketAt)
        curve == orderTracePoints(plot.points)
    IN  /\ \A i \in DOMAIN curve : plot.from <= curve[i] /\ curve[i] <= plot.through
        /\ \A i, j \in DOMAIN curve : i < j => curve[i] < curve[j]
        /\ Last(curve) = plot.through
        /\ plot.through >= marketAt

\* "time-aligned layer series": every layer of the latest frame has one sample
\* per frame, and only a frame that lacks the layer leaves a gap.
TracesAligned ==
  LET series == predictiveCodingSeries(history)
  IN  \A i \in DOMAIN series :
        /\ Len(series[i]) = Len(history)
        /\ \A k \in DOMAIN history :
             layerProfile(history[k], i, "state") = {} => series[i][k] = "null"
        /\ Last(series[i]) = "null" => i < Cardinality(DOMAIN series) - 1

\* What is traced is whole: a carrier with layers is found, the Hawkes curve
\* fills its viewport and the layers' series stay aligned.
TracesAreSound == CarrierHasLayers /\ TraceFillsViewport /\ TracesAligned
=============================================================================
