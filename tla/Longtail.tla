------------------------------- MODULE Longtail -------------------------------
(***************************************************************************)
(* The longtail report: what is read off the desk rows and the path book   *)
(* at each sample, and the verdict, the tiles and the readings drawn from  *)
(* the window of samples (collections/longtail.ts,                         *)
(* longtail/dashboard.tsx, metric-chart.tsx, lib/trigger-labels.ts).       *)
(* Rates and returns are per mille, thresholds hundredths.  DeskView       *)
(* models how the window itself is filled.                                 *)
(***************************************************************************)
EXTENDS Integers, Sequences, SequencesExt, FiniteSets, FiniteSetsExt, Functions, Bags

CONSTANTS
  Unknown,      \* null, undefined
  Samples,      \* samples: [desk, conf, paths], each desk and conf [win, edge]
  Window,       \* samples kept (240)
  Lookback,     \* the sample a change is measured from (16)
  RecentN,      \* the samples a change of sign is looked for in (24)
  DeskLots,     \* lots of the desk
  DeskRows,     \* rows a lot may have: [closed, triggers, exit, stop]
  TriggerCap,   \* EXIT_TRIGGER_CAP
  PathStates,   \* path books: [keys, thresholds]
  Eligible      \* eligible resistances

ASSUME LongtailAssumption ==
  Window \in Nat /\ Lookback \in 2..Window /\ RecentN \in 2..Window /\ TriggerCap > 0

VARIABLES
  series,      \* longtailStore.samples
  tierBook,      \* bookAtom
  rows,        \* deskRowsForStats: lot -> row or Unknown
  pathBook,    \* cognitionStore: [keys, thresholds]
  priorPathKeys,
  taken        \* the last path samples: [active, snap], the newest last

trendVars == <<series, tierBook>>
exitVars == <<rows>>
churnVars == <<pathBook, priorPathKeys, taken>>

Known(v, other) == IF v # Unknown THEN v ELSE other

-----------------------------------------------------------------------------
(* Tones. *)

winRateTone(v) == IF v = Unknown THEN "neutral" ELSE IF v >= 550 THEN "good"
                  ELSE IF v >= 450 THEN "warn" ELSE "bad"
returnTone(v) == IF v = Unknown THEN "neutral" ELSE IF v > 0 THEN "good"
                 ELSE IF v >= -10 THEN "warn" ELSE "bad"

\* The selected book's rates: of the confidence frame, then of the desk.
tierStats(s, book) ==
  IF book = "virtual" THEN s.desk
  ELSE [win |-> Known(s.conf.win, s.desk.win), edge |-> Known(s.conf.edge, s.desk.edge)]

trendOf(now, then) ==
  IF now = Unknown \/ then = Unknown THEN "flat"
  ELSE IF now - then \in -9..9 THEN "flat"
  ELSE IF now > then THEN "up" ELSE "down"

Sign(n) == IF n > 0 THEN 1 ELSE IF n < 0 THEN -1 ELSE 0

\* Changes of sign between neighbours, the unknown left out.
signFlips(ss, book) ==
  LET edges == SelectSeq([i \in DOMAIN ss |-> tierStats(ss[i], book).edge],
                         LAMBDA e : e # Unknown)
  IN  Cardinality({i \in 2..Len(edges) : Sign(edges[i - 1]) * Sign(edges[i]) = -1})

Prior(ss) == ss[Max({1, Len(ss) - Lookback + 1})]
Recent(ss) == SubSeq(ss, Max({1, Len(ss) - RecentN + 1}), Len(ss))
Churn(p) == Known(p.added, 0) + Known(p.removed, 0)

Says(label, tone) == [label |-> label, tone |-> tone]

-----------------------------------------------------------------------------
(* The verdict. *)

\* No closed lots yet: the path book is all there is to say.
PathVerdict(paths, before) ==
  IF paths.developed = Unknown THEN Says("Warming up", "neutral")
  ELSE IF Churn(paths) > 2 /\ 100 * Churn(paths) > 15 * paths.developed
          /\ Known(paths.promoted, 0) = Known(before.promoted, 0)
       THEN Says("Thrashing paths", "warn")
  ELSE Says("Path book live", "info")

\* Mutant of EdgeVerdict: a win is an edge, whatever the win rate.
EdgeVerdictLax(edgeTone, winTone, trend, flips, churns) ==
  LET losing == edgeTone = "bad"
      winning == edgeTone = "good"
  IN  IF flips >= 3 /\ ~(winning /\ trend = "up") THEN Says("Thrashing", "bad")
      ELSE IF churns /\ trend = "flat" /\ edgeTone # "good" THEN Says("Thrashing", "warn")
      ELSE IF losing THEN CASE trend = "down" -> Says("Degrading", "bad")
                            [] trend = "up" -> Says("Recovering", "warn")
                            [] OTHER -> Says("Stuck", "bad")
      ELSE IF winning THEN CASE trend = "down" -> Says("Slipping", "warn")
                             [] trend = "up" -> Says("Improving", "good")
                             [] OTHER -> Says("Stable", "info")
      ELSE Says("Mixed", "warn")

EdgeVerdict(edgeTone, winTone, trend, flips, churns) ==
  LET losing == edgeTone = "bad" \/ winTone = "bad"
      winning == edgeTone = "good" /\ winTone # "bad"
  IN  IF flips >= 3 /\ ~(winning /\ trend = "up") THEN Says("Thrashing", "bad")
      ELSE IF churns /\ trend = "flat" /\ edgeTone # "good" THEN Says("Thrashing", "warn")
      ELSE IF losing THEN CASE trend = "down" -> Says("Degrading", "bad")
                            [] trend = "up" -> Says("Recovering", "warn")
                            [] OTHER -> Says("Stuck", "bad")
      ELSE IF winning THEN CASE trend = "down" -> Says("Slipping", "warn")
                             [] trend = "up" -> Says("Improving", "good")
                             [] OTHER -> Says("Stable", "info")
      ELSE Says("Mixed", "warn")

verdict(ss, book) ==
  LET latest == Last(ss)
      now == tierStats(latest, book)
  IN  IF Len(ss) < 2 THEN Says("Warming up", "neutral")
      ELSE IF now.edge = Unknown /\ now.win = Unknown
      THEN PathVerdict(latest.paths, Prior(ss).paths)
      ELSE EdgeVerdict(returnTone(now.edge), winRateTone(now.win),
                       trendOf(now.edge, tierStats(Prior(ss), book).edge),
                       signFlips(Recent(ss), book),
                       Churn(latest.paths) >= 3
                       /\ 5 * Churn(latest.paths) >= Known(latest.paths.developed, 0))

\* The tile of the edge: its colour and the colour of its change.
EdgeTile(ss, book) ==
  LET latest == tierStats(Last(ss), book).edge
      before == tierStats(Prior(ss), book).edge
  IN  [tone |-> returnTone(latest),
       delta |-> IF latest = Unknown \/ before = Unknown THEN "neutral"
                 ELSE IF latest - before \in -1..1 THEN "neutral"
                 ELSE IF latest > before THEN "good" ELSE "bad"]

\* The reading of the tier: a bad win rate does not take its green away.
TierInsight(ss, book) == returnTone(tierStats(Last(ss), book).edge)

pushSample == \E s \in Samples :
  /\ series' = IF Len(series) = Window THEN Append(Tail(series), s) ELSE Append(series, s)
  /\ UNCHANGED tierBook

SelectBook == \E b \in {"virtual", "paper"} : tierBook' = b /\ UNCHANGED series

TrendInit == series = <<>> /\ tierBook = "virtual"

(* The badge is green only for a book whose edge is positive, whose win    *)
(* rate is not bad and whose edge rose since the sample it is compared     *)
(* with ("Path-book churn alone never paints green when the book's edge is *)
(* still bad.", longtail.ts); a losing book is never shown calm.           *)
VerdictIsHonest ==
  Len(series) >= 2 =>
    LET v == verdict(series, tierBook)
        now == tierStats(Last(series), tierBook)
        then == tierStats(Prior(series), tierBook)
        losing == returnTone(now.edge) = "bad" \/ winRateTone(now.win) = "bad"
    IN  /\ v.tone = "good" => /\ now.edge > 0 /\ then.edge # Unknown /\ now.edge > then.edge
                              /\ now.win = Unknown \/ now.win >= 450
        /\ losing => v.tone \in {"warn", "bad"}

(* The badge and the edge tile tell one story: what the badge calls rising *)
(* the tile paints as a gain, what it calls falling as a loss              *)
(* (dashboard.tsx measures both from the same sample), and what it calls   *)
(* improving the insight paints green.                                     *)
TileAgreesWithVerdict ==
  series # <<>> =>
    LET label == verdict(series, tierBook).label
        delta == EdgeTile(series, tierBook).delta
    IN  /\ label = "Improving" => TierInsight(series, tierBook) = "good"
        /\ label \in {"Improving", "Recovering"} => delta = "good"
        /\ label \in {"Slipping", "Degrading"} => delta = "bad"

-----------------------------------------------------------------------------
(* Exits and stops of the desk rows.  A trigger is the set of the words    *)
(* that are looked for in it.                                              *)

Has(trigger, words) == trigger \cap words # {}

classifyExit(t) ==
  IF Has(t, {"exit branch", "learned_exit", "policy exit"}) THEN "policy"
  ELSE IF \/ Has(t, {"cleared friction", "pct profit", "trailing", "harvest"})
          \/ "profit" \in t /\ "stop" \notin t THEN "profit"
  ELSE IF Has(t, {"invalidation", "friction dip", "stop", "exhaustion", "evaporation", "drag"})
  THEN "stop"
  ELSE "other"

triggerTone(t) ==
  IF \/ Has(t, {"invalidation", "evaporation", "maximum loss", "seller cascade", "exhaustion"})
     \/ "stop" \in t /\ ~Has(t, {"trailing", "dynamic floor"}) THEN "bad"
  ELSE IF Has(t, {"trailing", "harvest", "dynamic floor", "profit"}) THEN "good"
  ELSE IF Has(t, {"expire", "holding time", "stalled"}) THEN "warn"
  ELSE "neutral"

ClosedLots == {l \in DeskLots : rows[l] # Unknown /\ rows[l].closed}
Unsettled == {l \in DeskLots : rows[l] # Unknown /\ ~rows[l].closed}

\* The triggers of a lot: those of its outcome, or its exit trigger.
TriggersOf(l) ==
  IF rows[l].triggers # <<>> THEN rows[l].triggers
  ELSE IF rows[l].exit # Unknown THEN <<rows[l].exit>> ELSE <<>>

Every == FoldSet(LAMBDA l, acc : acc \o TriggersOf(l), <<>>, ClosedLots)
Counted(P(_)) == Len(SelectSeq(Every, P))

summarizeExits ==
  [b \in {"profit", "stop", "policy", "other"} |->
     Counted(LAMBDA t : classifyExit(t) = b)]

\* The triggers seen most often, no more than the cap.
topExitTriggers ==
  LET seen == Range(Every)
      rank == SetToSortSeq(seen, LAMBDA t, u : Counted(LAMBDA x : x = t) > Counted(LAMBDA x : x = u))
  IN  Range([i \in 1..Min({TriggerCap, Len(rank)}) |->
               [trigger |-> rank[i], count |-> Counted(LAMBDA u : u = rank[i])]])

Armed(stop) == \/ stop.state \in {"Critical", "Dangerous", "Triggered"}
               \/ stop.proximity >= 700 \/ stop.down >= 700

summarizeStops ==
  LET held == {l \in Unsettled : rows[l].stop # Unknown}
      nearest == Max({rows[l].stop.proximity : l \in held} \cup {0})
  IN  [open |-> IF Unsettled = {} THEN Unknown ELSE Cardinality(Unsettled),
       armed |-> IF held = {} THEN Unknown ELSE Cardinality({l \in held : Armed(rows[l].stop)}),
       nearest |-> IF nearest = 0 THEN Unknown ELSE nearest]

StopTone(stops) ==
  IF stops.nearest = Unknown THEN "neutral"
  ELSE IF stops.nearest >= 1000 THEN "bad" ELSE IF stops.nearest >= 700 THEN "warn" ELSE "good"

RowArrives == \E l \in DeskLots, r \in DeskRows \cup {Unknown} : rows' = [rows EXCEPT ![l] = r]

ExitInit == rows = [l \in DeskLots |-> Unknown]
ExitNext == RowArrives

SumOf(S, f(_)) == FoldSet(LAMBDA x, acc : acc + f(x), 0, S)

(* The exit mix and the list of triggers beside it are about the same      *)
(* exits: the counts add up to the mix unless the list is cut, and a       *)
(* trigger left out of a cut list was not seen more often than one in it.  *)
MixMatchesRail ==
  LET mix == summarizeExits
      top == topExitTriggers
      all == Range(Every)
      listed == {t.trigger : t \in top}
  IN  /\ SumOf(DOMAIN mix, LAMBDA b : mix[b]) = Len(Every)
      /\ Cardinality(all) <= TriggerCap => SumOf(top, LAMBDA t : t.count) = Len(Every)
      /\ \A t \in top, u \in all \ listed : Counted(LAMBDA x : x = u) <= t.count

(* No exit is painted as the opposite of the bucket it is counted in.      *)
BucketAgreesWithTone ==
  \A t \in Range(Every) :
    /\ classifyExit(t) = "stop" => triggerTone(t) # "good"
    /\ classifyExit(t) = "profit" => triggerTone(t) # "bad"

(* When the stop reading is coloured a warning, the row beside it counts   *)
(* at least one armed lot, and never more than are open.                   *)
AlarmIsCounted ==
  LET stops == summarizeStops
  IN  /\ StopTone(stops) \in {"warn", "bad"} => stops.armed # Unknown /\ stops.armed > 0
      /\ stops.armed # Unknown => stops.armed <= stops.open

-----------------------------------------------------------------------------
(* The path book at each sample. *)

Active(b) == IF b.keys # {} THEN b.keys ELSE DOMAIN b.thresholds

emptyPaths == [developed |-> Unknown, promoted |-> Unknown, added |-> Unknown, removed |-> Unknown]

summarizePathBook(b, eligible, prior) ==
  LET live == {k \in Active(b) : k \in DOMAIN b.thresholds => b.thresholds[k] <= 80}
      cleared == {k \in live : k \in DOMAIN b.thresholds /\ b.thresholds[k] <= eligible}
      counted(n) == IF live = {} THEN Unknown ELSE n
  IN  IF b.keys = {} /\ DOMAIN b.thresholds = {} THEN emptyPaths
      ELSE [developed |-> counted(Cardinality(live)), promoted |-> counted(Cardinality(cleared)),
            added |-> IF prior = Unknown THEN Unknown ELSE Cardinality(Active(b) \ prior),
            removed |-> IF prior = Unknown THEN Unknown ELSE Cardinality(prior \ Active(b))]

\* A sample: the book against the keys of the sample before.
Capture == \E eligible \in Eligible :
  /\ taken' = Append(IF Len(taken) = 2 THEN Tail(taken) ELSE taken,
                     [active |-> Active(pathBook),
                      snap |-> summarizePathBook(pathBook, eligible, priorPathKeys)])
  /\ priorPathKeys' = Active(pathBook)
  /\ UNCHANGED pathBook

BookMoves == pathBook' \in PathStates /\ UNCHANGED <<priorPathKeys, taken>>

ChurnInit ==
  /\ pathBook = [keys |-> {}, thresholds |-> <<>>]
  /\ priorPathKeys = Unknown /\ taken = <<>>
ChurnNext == Capture \/ BookMoves

(* The churn of a sample explains the change in the number of keys since   *)
(* the sample before it, whatever happened to the book in between, and no  *)
(* more paths are promoted than are developed.                             *)
ChurnAddsUp ==
  Len(taken) = 2 =>
    LET snap == taken[2].snap
    IN  /\ snap.added # Unknown =>
             Cardinality(taken[2].active)
             = Cardinality(taken[1].active) + snap.added - snap.removed
        /\ snap.developed # Unknown => snap.promoted <= snap.developed
=============================================================================
