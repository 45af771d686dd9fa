-------------------------------- MODULE Plots --------------------------------
(***************************************************************************)
(* The six charts of the longtail dashboard (longtail/dashboard.tsx) and   *)
(* how one is drawn (longtail/metric-chart.tsx): the domain, the lines     *)
(* broken at what is not known, the dot on the newest value, the ticks and *)
(* the baseline.  Values are per mille; a point is kept as the numerators  *)
(* of its place in the plate: x over spanCount, y over the domain's span.  *)
(***************************************************************************)
EXTENDS Longtail

CONSTANT PlotSizes   \* what the ResizeObserver may report: [width, height]

VARIABLE plotSize

plotVars == <<trendVars, plotSize>>

-----------------------------------------------------------------------------
(* What a chart shows. *)

charts ==
  [edge   |-> [yDomain |-> Unknown, baseline |-> 0],
   paths  |-> [yDomain |-> Unknown, baseline |-> Unknown],
   churn  |-> [yDomain |-> Unknown, baseline |-> Unknown],
   policy |-> [yDomain |-> [min |-> 0, max |-> 1000], baseline |-> Unknown],
   exits  |-> [yDomain |-> Unknown, baseline |-> Unknown],
   stops  |-> [yDomain |-> [min |-> 0, max |-> 1250], baseline |-> 1000]]

Count(n) == IF n = Unknown THEN Unknown ELSE 1000 * n

\* The values of a sample, one for each series of the chart.
Plotted(id, s, book) ==
  CASE id = "edge" -> <<tierStats(s, book).edge, tierStats(s, book).win>>
    [] id = "paths" -> <<Count(s.paths.developed), Count(s.paths.promoted), s.resistance>>
    [] id = "churn" -> <<Count(s.paths.added), Count(s.paths.removed)>>
    [] id = "policy" -> <<s.hitRate>>
    [] id = "exits" -> <<Count(s.exits[book].profit), Count(s.exits[book].stop), Count(s.exits[book].policy)>>
    [] id = "stops" -> <<s.stops[book].invalidation, s.stops[book].trailing, s.stops[book].damage>>

chartSeries(id, ss, book) ==
  [k \in DOMAIN Plotted(id, ss[1], book) |-> [i \in DOMAIN ss |-> Plotted(id, ss[i], book)[k]]]

matchTone(v) == IF v = Unknown THEN "neutral" ELSE IF v >= 500 THEN "good"
                ELSE IF v >= 200 THEN "warn" ELSE "bad"
resistanceTone(v, floor) ==
  IF v = Unknown THEN "neutral" ELSE IF v <= floor THEN "good" ELSE IF v <= 500 THEN "info"
  ELSE IF v <= 800 THEN "warn" ELSE "bad"

churnTone(paths) ==
  IF paths.added = Unknown THEN "neutral" ELSE IF Churn(paths) >= 3 THEN "warn" ELSE "info"

\* The colour of a chart's headline.
chartTone(id, s, book) ==
  CASE id = "edge" -> returnTone(tierStats(s, book).edge)
    [] id = "paths" -> resistanceTone(s.resistance, s.eligible)
    [] id = "churn" -> churnTone(s.paths)
    [] id = "policy" -> matchTone(s.hitRate)
    [] id = "exits" -> IF s.exits[book].total = 0 THEN "neutral"
                       ELSE IF s.exits[book].profit > s.exits[book].stop THEN "good"
                       ELSE IF s.exits[book].stop > s.exits[book].profit THEN "warn" ELSE "info"
    [] id = "stops" -> StopTone([nearest |-> s.stops[book].nearest])

\* ChartPanel: the newest value of each series, when it is known.
heads(lines) == [k \in DOMAIN lines |-> Last(lines[k])]

-----------------------------------------------------------------------------
(* How it is drawn. *)

\* The places of the known values.
Finite(lines) == {p \in (DOMAIN lines) \X (DOMAIN lines[1]) : lines[p[1]][p[2]] # Unknown}

\* Unknown until two values are known; a fixed one is used as it is, and a
\* flat one is opened by a half on either side.
domain(chart, lines) ==
  LET vs == {lines[p[1]][p[2]] : p \in Finite(lines)} \cup ({chart.baseline} \ {Unknown})
  IN  IF Cardinality(Finite(lines)) < 2 THEN Unknown
      ELSE IF chart.yDomain # Unknown THEN chart.yDomain
      ELSE IF Min(vs) = Max(vs) THEN [min |-> Min(vs) - 500, max |-> Max(vs) + 500]
      ELSE [min |-> Min(vs), max |-> Max(vs)]

readyToDraw(dom) == dom # Unknown /\ plotSize.width > 40 /\ plotSize.height > 24

spanCount(n) == Max({n - 1, 1})

toPoint(i, v, dom) == [x |-> i - 1, y |-> v - dom.min]

\* A line for each run of known values.
buildSegments(values, dom) ==
  LET step(acc, i) ==
        IF values[i] # Unknown
        THEN [acc EXCEPT !.current = Append(@, toPoint(i, values[i], dom))]
        ELSE IF acc.current = <<>> THEN acc
        ELSE [segments |-> Append(acc.segments, acc.current), current |-> <<>>]
      end == FoldLeft(step, [segments |-> <<>>, current |-> <<>>], [i \in DOMAIN values |-> i])
  IN  IF end.current = <<>> THEN end.segments ELSE Append(end.segments, end.current)

\* The dot: the end of the last line.
Dot(segments) == IF segments = <<>> THEN Unknown ELSE Last(Last(segments))

\* The samples that get a tick: Math.round of equal steps over the window.
xTicks(n) ==
  LET count == Min({3, Max({n, 1})})
      steps == Max({count - 1, 1})
  IN  [i \in 1..count |-> (2 * (i - 1) * Max({n - 1, 0}) + steps) \div (2 * steps)]

\* The dashed line is drawn when the domain holds it.
baselineDrawn(chart, dom) ==
  chart.baseline # Unknown /\ dom.min <= chart.baseline /\ chart.baseline <= dom.max

PlotResize == \E s \in PlotSizes : plotSize' = s /\ UNCHANGED trendVars

PlotInit == TrendInit /\ plotSize = [width |-> 0, height |-> 0]
PlotNext == \/ (pushSample \/ SelectBook) /\ UNCHANGED plotSize
            \/ PlotResize

-----------------------------------------------------------------------------
(* Properties, of every chart that is drawn. *)

DrawnCharts ==
  IF series = <<>> THEN {}
  ELSE {id \in DOMAIN charts :
          readyToDraw(domain(charts[id], chartSeries(id, series, tierBook)))}

(* A line never bridges samples whose value is not known and never breaks  *)
(* where all are: its points are neighbours, two lines are a gap apart and *)
(* every known value is a point of one (buildSegments).                    *)
LinesStopAtGaps ==
  \A id \in DrawnCharts :
    LET lines == chartSeries(id, series, tierBook)
        dom == domain(charts[id], lines)
    IN  \A k \in DOMAIN lines :
          LET segs == buildSegments(lines[k], dom)
          IN  /\ \A s \in DOMAIN segs, j \in 2..Len(series) :
                   j \in DOMAIN segs[s] => segs[s][j].x = segs[s][j - 1].x + 1
              /\ \A s \in 2..Len(segs) : segs[s][1].x > Last(segs[s - 1]).x + 1
              /\ FoldLeft(LAMBDA n, s : n + Len(s), 0, segs)
                 = Cardinality({i \in DOMAIN series : lines[k][i] # Unknown})

(* The headline and the dot tell one story: a series whose newest value is *)
(* in the headline has its dot on that value, at the right edge of the     *)
(* plate and over the last tick, while the window grows, slides and        *)
(* changes book; a dot elsewhere means the headline has a dash for it.     *)
DotIsHeadline ==
  \A id \in DrawnCharts :
    LET lines == chartSeries(id, series, tierBook)
        dom == domain(charts[id], lines)
    IN  \A k \in DOMAIN lines :
          LET dot == Dot(buildSegments(lines[k], dom))
          IN  Len(series) >= 2 =>
                IF heads(lines)[k] # Unknown
                THEN /\ dot # Unknown /\ dot.y + dom.min = heads(lines)[k]
                     /\ dot.x = spanCount(Len(series)) /\ dot.x = Last(xTicks(Len(series)))
                ELSE dot # Unknown => dot.x < Last(xTicks(Len(series)))

(* A chart that scales itself keeps every point in its plate, and a chart  *)
(* with a baseline always draws it, so that a line above zero is seen to   *)
(* be above zero (domain).                                                 *)
BaselineInPlate ==
  \A id \in DrawnCharts :
    LET lines == chartSeries(id, series, tierBook)
        dom == domain(charts[id], lines)
    IN  /\ dom.min < dom.max
        /\ charts[id].yDomain = Unknown =>
             \A p \in Finite(lines) : lines[p[1]][p[2]] \in dom.min..dom.max
        /\ charts[id].baseline # Unknown => baselineDrawn(charts[id], dom)

(* What the badge calls thrashing because of the path book, the chart of   *)
(* the churn marks as a warning, and what it calls improving the chart of  *)
(* the edge paints green (verdict, charts).                                *)
PanelsAgreeWithVerdict ==
  series # <<>> =>
    LET v == verdict(series, tierBook)
        tone(id) == chartTone(id, Last(series), tierBook)
    IN  /\ v.label = "Thrashing paths" \/ (v.label = "Thrashing" /\ v.tone = "warn")
             => tone("churn") = "warn"
        /\ v.tone = "good" => tone("edge") = "good"

\* The panels of the longtail report are about the same samples and tell one
\* story: verdict, tiles, exit mix, alarms, churn and charts never contradict
\* each other, and no line or dot shows what is not known.
ReportTellsOneStory ==
  /\ VerdictIsHonest /\ TileAgreesWithVerdict /\ PanelsAgreeWithVerdict
  /\ MixMatchesRail /\ BucketAgreesWithTone /\ AlarmIsCounted /\ ChurnAddsUp
  /\ LinesStopAtGaps /\ DotIsHeadline /\ BaselineInPlate
=============================================================================
